---------------------------- MODULE Descriptors ----------------------------
(***************************************************************************)
(* The algorithms over descriptors: loading a descriptor set, collecting    *)
(* the files behind a symbol, and unfolding a message type into a template. *)
(*                                                                         *)
(* A file has a name and a content: the names it imports, the message types *)
(* it defines and those it uses.  It defines one service, named as the file *)
(* is, so that symbols are file names.  A set of files is a function from   *)
(* names to contents.                                                       *)
(***************************************************************************)
EXTENDS Naturals, FiniteSets, SequencesExt

CONSTANTS
    File,   \* names of .proto files, and of the symbols they define
    Message \* message types

ASSUME DescriptorsAssumption == IsFiniteSet(File) /\ IsFiniteSet(Message)

Content == [deps : Seq(File), defines : SUBSET Message, uses : SUBSET Message]

(* What protoc accepts: files whose imports are there too, none of them      *)
(* importing itself, directly or not, ...                                    *)
Closed(files) == \A name \in DOMAIN files : ToSet(files[name].deps) \subseteq DOMAIN files
Acyclic(files) ==
    \A some \in (SUBSET DOMAIN files) \ {{}} :
        \E name \in some : ToSet(files[name].deps) \cap some = {}

(* ... and which define, or import from where it is defined, whatever they   *)
(* use.  This is also what desc.CreateFileDescriptor asks of a file and of   *)
(* those it imports.  A use that nothing defines stands for all else it      *)
(* refuses in a file, as a name defined twice; public imports are left out.  *)
Links(files, name) ==
    files[name].uses \subseteq
        files[name].defines \cup UNION {files[dep].defines : dep \in ToSet(files[name].deps)}
Linked(files) == \A name \in DOMAIN files : Links(files, name)

World(files) ==
    /\ DOMAIN files \subseteq File
    /\ files \in [DOMAIN files -> Content]
    /\ Closed(files)
    /\ Acyclic(files)
    /\ Linked(files)

---------------------------------------------------------------------------
(* DescriptorSourceFromFileDescriptorSet *)

(* The map unresolved: of two entries with a name the later one is kept. *)
Unresolved(set) ==
    [name \in {set[i].name : i \in DOMAIN set} |->
        LET last == CHOOSE i \in DOMAIN set :
                        /\ set[i].name = name
                        /\ \A j \in DOMAIN set : set[j].name = name => j <= i
        IN  set[last].content]

Loading == [resolved : Seq(File), outcome : {"ok", "error", "overflow"}]

(* Mutant of ResolveFile: CreateFileDescriptor's error is dropped. *)
ResolveFileUnlinked(resolve, unresolved, loading, name, depth) ==
    IF loading.outcome # "ok" \/ name \in ToSet(loading.resolved)
    THEN loading
    ELSE IF name \notin DOMAIN unresolved
    THEN [loading EXCEPT !.outcome = "error"]
    ELSE IF depth > Cardinality(File)
    THEN [loading EXCEPT !.outcome = "overflow"]
    ELSE LET below == FoldLeft(LAMBDA l, dep : resolve[<<l, dep, depth + 1>>],
                               loading, unresolved[name].deps)
         IN  IF below.outcome # "ok" THEN below
             ELSE [below EXCEPT !.resolved = Append(@, name)]

(* resolveFileDescriptor, its recursive calls being those of resolve.  It    *)
(* does not remember the files it is in the middle of: when the calls on the *)
(* stack outnumber the files, one of them is entered again with nothing      *)
(* changed, and the calls go on until the stack overflows, which ends a Go   *)
(* process.                                                                  *)
ResolveFile(resolve, unresolved, loading, name, depth) ==
    IF loading.outcome # "ok" \/ name \in ToSet(loading.resolved)
    THEN loading
    ELSE IF name \notin DOMAIN unresolved
    THEN [loading EXCEPT !.outcome = "error"]
    ELSE IF depth > Cardinality(File)
    THEN [loading EXCEPT !.outcome = "overflow"]
    ELSE LET below == FoldLeft(LAMBDA l, dep : resolve[<<l, dep, depth + 1>>],
                               loading, unresolved[name].deps)
         IN  IF below.outcome # "ok" THEN below
             ELSE IF ~Links(unresolved, name) THEN [below EXCEPT !.outcome = "error"]
             ELSE [below EXCEPT !.resolved = Append(@, name)]

Resolve(unresolved, names) ==
    LET resolve[call \in Loading \X File \X Nat] ==
            ResolveFile(resolve, unresolved, call[1], call[2], call[3])
    IN  FoldLeft(LAMBDA l, name : resolve[<<l, name, 1>>],
                 [resolved |-> <<>>, outcome |-> "ok"], names)

Load(set) == Resolve(Unresolved(set), [i \in DOMAIN set |-> set[i].name])

LoadedFiles(set) == [name \in ToSet(Load(set).resolved) |-> Unresolved(set)[name]]

---------------------------------------------------------------------------
(* DescriptorSourceFromFileDescriptors: addFile for each of the parsed      *)
(* files.  A file is entered in the map before its imports are.             *)
AddFile(addFile, parsed, fds, name) ==
    IF name \in fds THEN fds
    ELSE FoldLeft(LAMBDA s, dep : addFile[<<s, dep>>], fds \cup {name}, parsed[name].deps)

AddFiles(parsed, names) ==
    LET addFile[call \in (SUBSET DOMAIN parsed) \X DOMAIN parsed] ==
            AddFile(addFile, parsed, call[1], call[2])
        added == FoldLeft(LAMBDA s, name : addFile[<<s, name>>], {}, names)
    IN  [name \in added |-> parsed[name]]

---------------------------------------------------------------------------
(* WriteProtoset.  found is the sequence of the files in which the symbols  *)
(* were found, each with the files it was resolved with: a descriptor knows *)
(* its imports by reference, whatever source it came from.                  *)
Entry == [name : File, content : Content]
Written == [files : Seq(Entry), expanded : SUBSET File]

(* Mutant of AddFilesToSet: only direct imports are followed. *)
AddFilesToSetShallow(out, world, file) ==
    LET missing == SelectSeq(Append(world[file].deps, file), LAMBDA name : name \notin out.expanded)
    IN  [files |-> out.files \o [i \in DOMAIN missing |->
                                    [name |-> missing[i], content |-> world[missing[i]]]],
         expanded |-> out.expanded \cup ToSet(missing)]

(* addFilesToSet, its recursive calls being those of add. *)
AddFileToSet(add, world, out, name) ==
    IF name \in out.expanded THEN out
    ELSE LET below == FoldLeft(LAMBDA o, dep : add[<<o, dep>>],
                               [out EXCEPT !.expanded = @ \cup {name}], world[name].deps)
         IN  [below EXCEPT !.files = Append(@, [name |-> name, content |-> world[name]])]

AddFilesToSet(out, world, file) ==
    LET add[call \in Written \X DOMAIN world] == AddFileToSet(add, world, call[1], call[2])
    IN  add[<<out, file>>]

(* A file in which two symbols were found is written once: the second time   *)
(* its name is in expanded.                                                  *)
WriteProtoset(found) ==
    FoldLeft(LAMBDA out, f : AddFilesToSet(out, f.world, f.name),
             [files |-> <<>>, expanded |-> {}], found).files

---------------------------------------------------------------------------
(* The message-typed fields of a message type, in order, each with its type *)
(* and the number of the oneof it is a member of, 0 for none.               *)
Fields == Seq([type : Message, oneof : Nat])

(* SetField clears the other members of a oneof: only the last one stays.   *)
Overwritten(seq, i) ==
    seq[i].oneof # 0 /\ \E j \in DOMAIN seq : j > i /\ seq[j].oneof = seq[i].oneof

(* For each type, the types of the fields that are set after the loop. *)
Shown(fields) ==
    [m \in Message |->
        {fields[m][i].type : i \in {j \in DOMAIN fields[m] : ~Overwritten(fields[m], j)}}]

(* Mutant of Template: the types seen are remembered across fields, not     *)
(* only down the path, so that the second of two fields of a type is empty. *)
TemplateOnce(fields, md) ==
    LET makeTemplate[s \in [chains : SUBSET Seq(Message), seen : SUBSET Message],
                     path \in Seq(Message), m \in Message] ==
            LET here == [s EXCEPT !.chains = @ \cup {Append(path, m)}]
            IN  IF m \in s.seen THEN here
                ELSE FoldLeft(LAMBDA t, f : makeTemplate[t, Append(path, m), f],
                              [here EXCEPT !.seen = @ \cup {m}], SetToSeq(Shown(fields)[m]))
    IN  makeTemplate[[chains |-> {}, seen |-> {}], <<>>, md].chains

(* makeTemplate: the chains of nested messages in the template of m, where  *)
(* shown gives the types of the fields that stay set in a message.  A type  *)
(* that is on the path already is left empty; a well-known type, which has  *)
(* a fixed template, stands for one without such fields.                    *)
Unfold(makeTemplate, shown, path, m) ==
    {<<m>>} \cup
    IF m \in ToSet(path) THEN {}
    ELSE {<<m>> \o chain : chain \in
             UNION {makeTemplate[<<Append(path, m), f>>] : f \in shown[m]}}

Template(fields, md) ==
    LET shown == Shown(fields)
        makeTemplate[call \in Seq(Message) \X Message] ==
            Unfold(makeTemplate, shown, call[1], call[2])
    IN  makeTemplate[<<<<>>, md>>]
=============================================================================
