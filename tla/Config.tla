------------------------------- MODULE Config -------------------------------
(***************************************************************************)
(* Loading a configuration (crates/config): the files are collected from   *)
(* the paths given, with the directories' wildcards and includes, in       *)
(* priority order, each once; then each is parsed, interpolated and merged *)
(* over the ones before it. Files are abstract: a name, what it links to,  *)
(* its type and the object it parses to. A text is a sequence of pieces:   *)
(* literals, references to variables and commands.                         *)
(***************************************************************************)
EXTENDS Integers, Sequences, FiniteSets, SequencesExt

CONSTANTS
  Systems,      \* file systems and loader settings to try
  Environment   \* variables and their texts

VARIABLES
  loader,   \* the system and the ConfigLoader's fields
  toScan,   \* paths still to look at
  found,    \* all_files: [key, path] in priority order
  toLoad,   \* files still to load
  target,   \* the object merged so far
  ran,      \* commands the shell was given
  phase     \* "idle", "scan", "load", "done" or "failed"

configVars == <<loader, toScan, found, toLoad, target, ran, phase>>

----------------------------------------------------------------------------
(* Collecting files: load_config_files, includes.rs, ConfigLoader::load *)

KindOf(system, path) == system.kind[path]
IsCicadaPath(system, path) == KindOf(system, path) = "cicada"

\* dedupe_key: what a path leads to; a cicada source is its own.
DedupeKey(system, path) ==
  IF IsCicadaPath(system, path) THEN path ELSE system.canonical[path]

HasConfigType(system, path) == system.type[path] # "other"
IsEnvFile(system, path) == system.type[path] = "env"

\* IncludesLoader: the paths an include file lists that exist, each once, where
\* it is listed first.
Includes(system, folder) ==
  LET lines == SelectSeq(system.includes[folder],
                         LAMBDA p : KindOf(system, p) # "missing")
      First(k) == \A j \in 1..(k - 1) :
                    DedupeKey(system, lines[j]) # DedupeKey(system, lines[k])
  IN  [n \in 1..Cardinality({k \in DOMAIN lines : First(k)}) |->
         lines[CHOOSE k \in DOMAIN lines :
                 First(k) /\ Cardinality({j \in 1..k : First(j)}) = n]]

\* The files of a directory a wildcard asks for, by the last wildcard each
\* matches, then by name. Without wildcards all but the env files.
DirectoryFiles(system, folder) ==
  LET files == SelectSeq(system.children[folder],
                 LAMBDA p : IF system.wildcards = 0 THEN ~IsEnvFile(system, p)
                            ELSE system.matches[p] # {})
      Index(p) == IF system.wildcards = 0 THEN 0
                  ELSE CHOOSE k \in system.matches[p] :
                         \A j \in system.matches[p] : j <= k
  IN  FlattenSeq([k \in 1..(system.wildcards + 1) |->
                    SelectSeq(files, LAMBDA p : Index(p) = k - 1)])

\* A directory's own files, then its includes in order, recursively; a
\* directory on the include stack is not entered again.
RECURSIVE LoadConfigFiles(_, _, _)
LoadConfigFiles(system, path, visiting) ==
  CASE KindOf(system, path) \in {"cicada", "file"} -> <<path>>
    [] KindOf(system, path) = "missing" -> <<>>
    [] KindOf(system, path) = "dir" ->
         LET folder == system.canonical[path]
             includes == Includes(system, folder)
         IN  IF folder \in visiting THEN <<>>
             ELSE DirectoryFiles(system, folder)
                    \o FlattenSeq([k \in DOMAIN includes |->
                         LoadConfigFiles(system, includes[k], visiting \cup {folder})])

\* Mutant: a file that comes up again keeps its place.
PushInPlace(system, files, path) ==
  LET key == DedupeKey(system, path)
  IN  IF \E k \in DOMAIN files : files[k].key = key THEN files
      ELSE Append(files, [key |-> key, path |-> path])

\* A file that comes up again moves to the end, and keeps the name its type
\* is known by.
Push(system, files, path) ==
  LET key == DedupeKey(system, path)
      before == SelectSeq(files, LAMBDA f : f.key = key)
      others == SelectSeq(files, LAMBDA f : f.key # key)
      name == IF /\ before # <<>> /\ ~HasConfigType(system, path)
                 /\ HasConfigType(system, before[1].path)
              THEN before[1].path ELSE path
  IN  Append(others, [key |-> key, path |-> name])

----------------------------------------------------------------------------
(* Texts: interpolate.rs *)

Literal(x) == [literal |-> x]
Variable(v) == [variable |-> v]
Command(c) == [command |-> c]
IsVariable(piece) == "variable" \in DOMAIN piece
IsCommand(piece) == "command" \in DOMAIN piece

\* try_get_env_extended; a variable that is not set is empty.
TryGetEnv(v) == IF v \in DOMAIN Environment THEN Environment[v] ELSE <<>>

\* run_shell_command: its output, which is not looked at again.
RunShellCommand(c) == <<[output |-> c]>>

\* interpolate_env_and_shell: one pass; the value of a variable may refer to
\* other variables, one level deep, and never to commands.
InterpolateText(text) ==
  LET Once(piece) == IF IsVariable(piece) THEN TryGetEnv(piece.variable) ELSE <<piece>>
      Piece(piece) ==
        IF IsVariable(piece)
        THEN FlattenSeq([k \in DOMAIN TryGetEnv(piece.variable) |->
                           Once(TryGetEnv(piece.variable)[k])])
        ELSE IF IsCommand(piece) THEN RunShellCommand(piece.command) ELSE <<piece>>
  IN  FlattenSeq([k \in DOMAIN text |-> Piece(text[k])])

\* A value: a string (its entries, separated by commas), an array of texts, an
\* object or null.
String(entries) == [type |-> "string", value |-> entries]
Array(entries) == [type |-> "array", value |-> entries]
Object(fields) == [type |-> "object", value |-> fields]
Null == [type |-> "null", value |-> <<>>]

\* interpolate_value: every string of a value. (Keys are left out.)
RECURSIVE InterpolateValue(_)
InterpolateValue(value) ==
  IF value.type = "object"
  THEN Object([f \in DOMAIN value.value |-> InterpolateValue(value.value[f])])
  ELSE [value EXCEPT !.value =
          [k \in DOMAIN value.value |-> InterpolateText(value.value[k])]]

\* The pieces of a value's strings, to say where its commands come from.
RECURSIVE Pieces(_)
Pieces(value) ==
  IF value.type = "object" THEN UNION {Pieces(value.value[f]) : f \in DOMAIN value.value}
  ELSE UNION {Range(value.value[k]) : k \in DOMAIN value.value}

CommandsIn(value) == {p.command : p \in {q \in Pieces(value) : IsCommand(q)}}
OutputsIn(value) == {p.output : p \in {q \in Pieces(value) : "output" \in DOMAIN q}}

----------------------------------------------------------------------------
(* Merging: merge_source *)

RECURSIVE MergeSource(_, _, _, _, _)
MergeSource(into, source, mergeNested, extendArray, splitLists) ==
  LET Merged(curr, value) ==
        CASE mergeNested /\ curr.type = "object" /\ value.type = "object" ->
               Object(MergeSource(curr.value, value.value, mergeNested,
                                  extendArray, splitLists))
          [] mergeNested /\ curr.type = "object" /\ value.type = "null" -> curr
          [] extendArray /\ curr.type = "array" /\ value.type = "array" ->
               Array(curr.value \o value.value)
          [] extendArray /\ curr.type = "array" /\ value.type = "null" -> curr
          [] extendArray /\ splitLists /\ curr.type = "array" /\ value.type = "string" ->
               Array(curr.value \o SelectSeq(value.value, LAMBDA e : e # <<>>))
          [] OTHER -> value
  IN  [f \in DOMAIN into \cup DOMAIN source |->
         IF f \notin DOMAIN source THEN into[f]
         ELSE IF f \notin DOMAIN into THEN source[f]
         ELSE Merged(into[f], source[f])]

----------------------------------------------------------------------------
(* Env files: parse_env_file_object *)

MaxNestedSegments == 2
Failed == [failed |-> TRUE]
EmptyObject == [f \in {} |-> Null]

\* A name is a sequence of segments, and so is a key. A name with an empty
\* segment or with too many stays one flat key.
Segments(name) ==
  IF "" \in Range(name) \/ Len(name) > MaxNestedSegments THEN <<name>>
  ELSE [k \in DOMAIN name |-> <<name[k]>>]

\* Mutant: what is set already is overwritten.
InsertOver(object, path, text) ==
  [f \in DOMAIN object \cup {path[1]} |->
     IF f # path[1] THEN object[f]
     ELSE IF Len(path) = 1 THEN String(<<text>>)
     ELSE Object([g \in {path[2]} |-> String(<<text>>)])]

\* A value at a path of an object: Failed if the path, or a part of it, has one
\* already, or if there is an object at it.
RECURSIVE InsertEntry(_, _, _)
InsertEntry(object, path, text) ==
  LET known == path[1] \in DOMAIN object
      inner == IF Len(path) = 1 THEN String(<<text>>)
               ELSE IF ~known THEN Object(InsertEntry(EmptyObject, Tail(path), text))
               ELSE IF object[path[1]].type # "object" THEN Failed
               ELSE LET inserted == InsertEntry(object[path[1]].value, Tail(path), text)
                    IN  IF inserted = Failed THEN Failed ELSE Object(inserted)
  IN  IF (known /\ Len(path) = 1) \/ inner = Failed THEN Failed
      ELSE [f \in DOMAIN object \cup {path[1]} |->
              IF f = path[1] THEN inner ELSE object[f]]

RECURSIVE ParseEntries(_, _)
ParseEntries(object, entries) ==
  IF entries = <<>> THEN object
  ELSE LET inserted == InsertEntry(object, Segments(Head(entries).name), Head(entries).text)
       IN  IF inserted = Failed THEN Failed ELSE ParseEntries(inserted, Tail(entries))

ParseEnvFileObject(entries) ==
  LET object == ParseEntries(EmptyObject, entries)
  IN  IF object = Failed THEN Failed ELSE Object(object)

----------------------------------------------------------------------------
(* ConfigLoader::load *)

ConfigInit ==
  /\ loader = [none |-> TRUE] /\ toScan = <<>> /\ found = <<>>
  /\ toLoad = <<>> /\ target = EmptyObject /\ ran = {} /\ phase = "idle"

\* The wildcards compile.
BeginLoad ==
  /\ phase = "idle"
  /\ \E l \in Systems : loader' = l /\ toScan' = l.paths
  /\ phase' = "scan"
  /\ UNCHANGED <<found, toLoad, target, ran>>

\* The files of the next path are pushed, in order.
ScanPath ==
  /\ phase = "scan" /\ toScan # <<>>
  /\ LET files == LoadConfigFiles(loader, Head(toScan), {})
     IN  found' = FoldLeft(LAMBDA all, path : Push(loader, all, path), found, files)
  /\ toScan' = Tail(toScan)
  /\ UNCHANGED <<loader, toLoad, target, ran, phase>>

ScanDone ==
  /\ phase = "scan" /\ toScan = <<>>
  /\ toLoad' = found /\ phase' = "load"
  /\ UNCHANGED <<loader, toScan, found, target, ran>>

\* Mutant: every source is a template.
InterpolatesAll(path) == TRUE

\* Local files are templates, unless they are env files.
Interpolates(path) == ~IsCicadaPath(loader, path) /\ ~IsEnvFile(loader, path)

\* What a file holds: nothing if it cannot be read or parsed, or its name has
\* no type.
ParseConfigFile(file) ==
  LET content == loader.content[file.key]
  IN  IF content = Failed \/ ~HasConfigType(loader, file.path) THEN Failed
      ELSE IF IsEnvFile(loader, file.path) THEN ParseEnvFileObject(content.entries)
      ELSE content

\* The next source: a local file that fails is skipped, a cicada source that
\* fails ends the load.
LoadSource ==
  /\ phase = "load" /\ toLoad # <<>>
  /\ LET file == Head(toLoad)
         parsed == ParseConfigFile(file)
         source == IF Interpolates(file.path) THEN InterpolateValue(parsed) ELSE parsed
     IN  \/ /\ parsed = Failed /\ ~IsCicadaPath(loader, file.path)
            /\ toLoad' = Tail(toLoad) /\ UNCHANGED <<target, ran, phase>>
         \/ /\ parsed = Failed /\ IsCicadaPath(loader, file.path)
            /\ phase' = "failed" /\ UNCHANGED <<toLoad, target, ran>>
         \/ /\ parsed # Failed
            /\ target' = MergeSource(target, source.value, loader.mergeNested,
                                     loader.extendArray, IsEnvFile(loader, file.path))
            /\ ran' = ran \cup OutputsIn(source)
            /\ toLoad' = Tail(toLoad) /\ UNCHANGED phase
  /\ UNCHANGED <<loader, toScan, found>>

LoadDone ==
  /\ phase = "load" /\ toLoad = <<>>
  /\ phase' = "done"
  /\ UNCHANGED <<loader, toScan, found, toLoad, target, ran>>

ConfigNext ==
  \/ BeginLoad
  \/ ScanPath
  \/ ScanDone
  \/ LoadSource
  \/ LoadDone

----------------------------------------------------------------------------
(* Properties *)

\* Every file is loaded once however many paths, wildcards, includes or links
\* lead to it, at the priority of its last mention, and by a name with a type
\* if it has one (the docs of ConfigLoader and load_config_files).
LastMentionDecides ==
  LET mentions == FlattenSeq([k \in DOMAIN loader.paths |->
                                LoadConfigFiles(loader, loader.paths[k], {})])
      key == [k \in DOMAIN mentions |-> DedupeKey(loader, mentions[k])]
      LastOf(x) == CHOOSE k \in DOMAIN mentions :
                     key[k] = x /\ \A j \in DOMAIN mentions : key[j] = x => j <= k
  IN  phase \notin {"idle", "scan"} =>
        /\ {found[k].key : k \in DOMAIN found} = Range(key)
        /\ \A i, j \in DOMAIN found : i < j => LastOf(found[i].key) < LastOf(found[j].key)
        /\ \A i \in DOMAIN found :
             (\E k \in DOMAIN mentions : /\ key[k] = found[i].key
                                         /\ HasConfigType(loader, mentions[k]))
               => HasConfigType(loader, found[i].path)

\* Text from an env file, a cicada source, an environment variable or the
\* output of a command never runs: only the commands written in a local
\* template do (load_parse_config_files).
SecretsNeverRun ==
  LET templates == {k \in DOMAIN found :
                      /\ ~IsCicadaPath(loader, found[k].path)
                      /\ ~IsEnvFile(loader, found[k].path)
                      /\ ParseConfigFile(found[k]) # Failed}
  IN  ran \subseteq UNION {CommandsIn(ParseConfigFile(found[k])) : k \in templates}

\* What an env file means does not depend on the order of its lines: the same
\* object, or a conflict, for every order (parse_env_file_object).
EnvFileUnordered ==
  \A k \in DOMAIN toLoad :
    (IsEnvFile(loader, toLoad[k].path) /\ loader.content[toLoad[k].key] # Failed) =>
      LET entries == loader.content[toLoad[k].key].entries
          Swapped(n) == [j \in DOMAIN entries |->
                           IF j = n THEN entries[n + 1]
                           ELSE IF j = n + 1 THEN entries[n] ELSE entries[j]]
      IN  \A n \in 1..(Len(entries) - 1) :
            ParseEnvFileObject(Swapped(n)) = ParseEnvFileObject(entries)

\* What the configuration says follows from the order of the paths, and from
\* nothing else: not from how a file is reached nor from its lines' order.
OrderOfPathsDecides == LastMentionDecides /\ EnvFileUnordered
=============================================================================
