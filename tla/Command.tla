------------------------------ MODULE Command ------------------------------
(***************************************************************************)
(* The command-line tool, cmd/main.go: what a command line is taken to ask  *)
(* for, where the descriptors come from, what is done with them, and how    *)
(* the process ends.  The server it talks to answers or fails at each call. *)
(* Warnings, wording and the text that is printed are left out.             *)
(***************************************************************************)
EXTENDS Descriptors

CONSTANTS
    Arguments,     \* the positional arguments, as sequences of "list", "describe", "server", "word"
    Sets,          \* contents of the -protoset files, joined: sequences of entries
    Worlds,        \* sets of files that import one another, as protoc accepts them
    MessageGraphs  \* the message-typed fields of each message type, in order

ASSUME CommandAssumption ==
    /\ Sets \subseteq Seq(Entry)
    /\ \A files \in Worlds : World(files)
    /\ MessageGraphs \subseteq [Message -> Fields]

VARIABLES
    pc,       \* the step of main or cmd that comes next
    flags,    \* the flags that are read more than once
    verb,     \* "list", "describe" or "invoke"
    target,   \* whether an address was given
    symbol,   \* the symbol argument, or "none"
    set,      \* the entries of the descriptor set being loaded, forgotten after
    fileSource, \* the files of the file source; NoFiles if there is no such source
    server,   \* the files behind the server's reflection; NoFiles if it is not asked
    symbols,  \* the symbols being described and written
    template, \* the template just printed, with the fields it was made for
    out,      \* the -protoset-out file: "none", "created" or "written"
    protoset, \* what was written there
    cc,       \* "none", "open", "closed"
    refClient,\* "none", "live", "reset"
    hook,     \* whether config.Exit resets before it exits
    rpc,      \* how InvokeRPC returned: "none", an error, or the status it left
    exit      \* "running", "serving", "crash", or the exit status: "0", "1",
              \* "2", or "status" for StatusCodeOffset plus the code of the RPC

cmdline == <<flags, verb, target, symbol>>
sources == <<set, fileSource, server>>
work == <<symbols, template, out, protoset, rpc>>
conn == <<cc, refClient, hook>>
vars == <<pc, cmdline, sources, work, conn, exit>>

NoFiles == [file \in {} |-> [deps |-> <<>>, defines |-> {}, uses |-> {}]]

Flags == [plaintext : BOOLEAN, protoset : BOOLEAN, proto : BOOLEAN,
          reflSetOp : BOOLEAN, reflection : BOOLEAN]

Init ==
    /\ pc = "flags"
    /\ flags \in {f \in Flags : f.reflSetOp \/ f.reflection}
    /\ verb = "none" /\ target = FALSE /\ symbol = "none"
    /\ set = <<>> /\ fileSource = NoFiles /\ server = NoFiles
    /\ symbols = <<>> /\ template = <<>> /\ out = "none" /\ protoset = <<>>
    /\ cc = "none" /\ refClient = "none" /\ hook = FALSE
    /\ rpc = "none" /\ exit = "running"

(* reset, which is deferred and also called by the config.Exit that cmd     *)
(* installs: deferred calls do not run when os.Exit is called.              *)
Reset ==
    /\ refClient' = IF refClient = "live" THEN "reset" ELSE refClient
    /\ cc' = IF cc = "open" THEN "closed" ELSE cc
    /\ UNCHANGED hook

Exit(code) ==
    /\ pc' = "exited"
    /\ exit' = code
    /\ IF hook THEN Reset ELSE UNCHANGED conn

Goto(step) == pc' = step /\ UNCHANGED exit

---------------------------------------------------------------------------
(* main *)

(* -help, -version, and the flags checked by themselves. *)
CheckFlags ==
    /\ pc = "flags"
    /\ \E info, outOfRange, insecure, cert, key \in BOOLEAN :
        LET refused == \/ outOfRange \* a negative limit, or an unknown format
                       \/ flags.plaintext /\ (insecure \/ cert \/ key)
                       \/ key # cert
        IN  \/ info /\ Exit("0")
            \/ ~info /\ refused /\ Exit("2")
            \/ ~info /\ ~refused /\ Goto("args") /\ UNCHANGED conn
    /\ UNCHANGED <<cmdline, sources, work>>

(* The address is what comes before a verb; reflection defaults to false    *)
(* when descriptors are given.                                              *)
ParseArguments ==
    /\ pc = "args"
    /\ \E args \in Arguments, name \in File :
        LET addressed == args # <<>> /\ args[1] \notin {"list", "describe", "server"}
            rest == IF addressed THEN Tail(args) ELSE args
            isVerb == rest # <<>> /\ rest[1] \in {"list", "describe"}
            words == IF isVerb THEN Tail(rest) ELSE rest
            usage == IF rest = <<>> THEN TRUE ELSE rest[1] # "server" /\ Len(words) > 1
        IN  \/ /\ usage
               /\ Exit("2")
               /\ UNCHANGED cmdline
            \/ /\ rest # <<>> /\ rest[1] = "server"
               /\ pc' = "exited"
               /\ exit' = IF Len(rest) = 1 THEN "crash" ELSE "serving" \* args[0] in Run
               /\ UNCHANGED <<cmdline, conn>>
            \/ /\ rest # <<>> /\ rest[1] # "server" /\ Len(words) <= 1
               /\ target' = addressed
               /\ verb' = IF isVerb THEN rest[1] ELSE "invoke"
               /\ symbol' = IF words = <<>> THEN "none" ELSE name
               /\ flags' = [flags EXCEPT !.reflection =
                               @ /\ (flags.reflSetOp \/ ~(flags.protoset \/ flags.proto))]
               /\ Goto("check")
               /\ UNCHANGED conn
    /\ UNCHANGED <<sources, work>>

---------------------------------------------------------------------------
(* cmd, up to the descriptor source *)

CheckSources ==
    /\ pc = "check"
    /\ LET refused == \/ ~target /\ (verb = "invoke" \/ ~(flags.protoset \/ flags.proto))
                      \/ flags.protoset /\ flags.proto
                      \/ ~flags.reflection /\ ~flags.protoset /\ ~flags.proto
       IN  \/ refused /\ Exit("2")
           \/ ~refused /\ Goto("expand") /\ UNCHANGED conn
    /\ UNCHANGED <<cmdline, sources, work>>

(* ExpandHeaders fails on a variable that is not set. *)
Expand ==
    /\ pc = "expand"
    /\ \/ Exit("1")
       \/ Goto("files") /\ UNCHANGED conn
    /\ UNCHANGED <<cmdline, sources, work>>

ReadProtosets ==
    /\ pc = "files" /\ flags.protoset
    /\ \/ Exit("1") /\ UNCHANGED set
       \/ set' \in Sets /\ Goto("load") /\ UNCHANGED conn
    /\ UNCHANGED <<cmdline, fileSource, server, work>>

LoadProtosets ==
    /\ pc = "load"
    /\ LET outcome == Load(set).outcome
       IN  \/ /\ outcome = "ok"
              /\ fileSource' = LoadedFiles(set)
              /\ Goto("loaded")
              /\ UNCHANGED conn
           \/ outcome = "error" /\ Exit("1") /\ UNCHANGED fileSource
           \/ outcome = "overflow" /\ pc' = "exited" /\ exit' = "crash" /\ UNCHANGED <<fileSource, conn>>
    /\ UNCHANGED <<cmdline, set, server, work>>

Loaded ==
    /\ pc = "loaded"
    /\ set' = <<>>
    /\ Goto("reflection")
    /\ UNCHANGED <<cmdline, fileSource, server, work, conn>>

ParseProtoFiles ==
    /\ pc = "files" /\ ~flags.protoset
    /\ \/ ~flags.proto /\ Goto("reflection") /\ UNCHANGED <<fileSource, conn>>
       \/ flags.proto /\ Exit("1") /\ UNCHANGED fileSource
       \/ /\ flags.proto
          /\ \E parsed \in Worlds : \E name \in DOMAIN parsed :
                fileSource' = AddFiles(parsed, <<name>>)
          /\ Goto("reflection")
          /\ UNCHANGED conn
    /\ UNCHANGED <<cmdline, set, server, work>>

(* The closure dial: TLS settings, SSLKEYLOGFILE or BlockingDial fail, or    *)
(* -servername and -authority differ.                                       *)
DialFails == Exit("1") \/ (~flags.plaintext /\ Exit("2"))

DialReflection ==
    /\ pc = "reflection" /\ flags.reflection
    /\ \/ DialFails /\ UNCHANGED server
       \/ /\ cc' = "open" /\ refClient' = "live" /\ hook' = TRUE
          /\ server' \in Worlds
          /\ Goto(verb)
    /\ UNCHANGED <<cmdline, set, fileSource, work>>

(* Mutant of NoReflection: config.Exit is replaced only where reflection     *)
(* dials.                                                                    *)
NoReflectionUnhooked ==
    /\ pc = "reflection" /\ ~flags.reflection
    /\ Goto(verb)
    /\ UNCHANGED <<cmdline, sources, work, conn>>

NoReflection ==
    /\ pc = "reflection" /\ ~flags.reflection
    /\ hook' = TRUE
    /\ Goto(verb)
    /\ UNCHANGED <<cmdline, sources, work, cc, refClient>>

---------------------------------------------------------------------------
(* The verbs *)

(* What FindSymbol may return: the file, with the world it was found in.  A *)
(* composite source asks the server first, and the file source if that      *)
(* fails, for whatever reason.                                              *)
FoundIn(world, name) ==
    IF name \in DOMAIN world THEN {[name |-> name, world |-> world]} ELSE {}

Finds(name) ==
    (IF flags.reflection THEN FoundIn(server, name) ELSE {}) \cup FoundIn(fileSource, name)

(* What ListServices may return: of a composite source, the server's. *)
Listings ==
    SetToSeqs(DOMAIN (IF flags.reflection THEN server ELSE fileSource))

ListOrDescribeAll ==
    /\ pc \in {"list", "describe"} /\ symbol = "none"
    /\ \/ flags.reflection /\ Exit("1") /\ UNCHANGED symbols
       \/ /\ symbols' \in Listings
          /\ Goto(IF verb = "list" THEN "write" ELSE "describing")
          /\ UNCHANGED conn
    /\ UNCHANGED <<cmdline, sources, template, out, protoset, rpc>>

ListOrDescribeOne ==
    /\ pc \in {"list", "describe"} /\ symbol # "none"
    /\ \/ pc = "list" /\ Exit("1") /\ UNCHANGED symbols  \* unknown, or not a service
       \/ /\ pc = "list" => Finds(symbol) # {}
          /\ symbols' = <<symbol>>
          /\ Goto(IF verb = "list" THEN "write" ELSE "describing")
          /\ UNCHANGED conn
    /\ UNCHANGED <<cmdline, sources, template, out, protoset, rpc>>

(* The loop over the symbols: one may be unknown, or its text or template   *)
(* fail to print.  With -msg-template a message has its template printed.   *)
Describe ==
    /\ pc = "describing"
    /\ \/ symbols # <<>> /\ Exit("1") /\ UNCHANGED template
       \/ /\ \A i \in DOMAIN symbols : Finds(symbols[i]) # {}
          /\ \/ UNCHANGED template
             \/ /\ symbol # "none"
                /\ \E fields \in MessageGraphs, md \in Message :
                     template' = <<fields, Template(fields, md)>>
          /\ Goto("write")
          /\ UNCHANGED conn
    /\ UNCHANGED <<cmdline, sources, symbols, out, protoset, rpc>>

(* writeProtoset looks every symbol up again; whatever fails after os.Create *)
(* leaves the file behind.                                                   *)
WriteFile ==
    /\ pc = "write"
    /\ template' = <<>>
    /\ \/ Goto("return") /\ UNCHANGED <<out, protoset, conn>>  \* no -protoset-out
       \/ Exit("1") /\ UNCHANGED <<out, protoset>>             \* os.Create fails
       \/ /\ out' = "created"
          /\ Exit("1")
          /\ UNCHANGED protoset
       \/ /\ \E found \in [DOMAIN symbols -> UNION {Finds(symbols[i]) : i \in DOMAIN symbols}] :
                /\ \A i \in DOMAIN symbols : found[i] \in Finds(symbols[i])
                /\ protoset' = WriteProtoset(found)
                /\ out' = "written"
          /\ Goto("return")
          /\ UNCHANGED conn
    /\ UNCHANGED <<cmdline, sources, symbols, rpc>>

(* Invoking an RPC dials if reflection has not. *)
DialForRpc ==
    /\ pc = "invoke" /\ cc = "none"
    /\ \/ DialFails
       \/ /\ cc' = "open"
          /\ Goto("invoke")
          /\ UNCHANGED <<refClient, hook>>
    /\ UNCHANGED <<cmdline, sources, work>>

(* InvokeRPC returns; what it writes and how it ends is module Invoke's.    *)
(* It can return nil with no status set.  It may also panic, in             *)
(* invokeServerStream: the deferred reset runs, and the process ends.       *)
InvokeRPC ==
    /\ pc = "invoke" /\ cc = "open"
    /\ \/ /\ rpc' \in {"error", "statusError", "notOK", "OK", "unset"}
          /\ Goto("invoked")
          /\ UNCHANGED conn
       \/ /\ pc' = "exited" /\ exit' = "crash"
          /\ Reset
          /\ UNCHANGED rpc
    /\ UNCHANGED <<cmdline, sources, symbols, template, out, protoset>>

(* An error is fatal, unless it is a status and -format-error was given. *)
ReportStatus ==
    /\ pc = "invoked"
    /\ \/ rpc \in {"error", "statusError"} /\ Exit("1")
       \/ rpc \in {"statusError", "notOK"} /\ Exit("status")
       \/ rpc \in {"OK", "unset"} /\ Goto("return") /\ UNCHANGED conn
    /\ UNCHANGED <<cmdline, sources, work>>

(* cmd and main return: the deferred reset runs. *)
Return ==
    /\ pc = "return"
    /\ pc' = "exited" /\ exit' = "0"
    /\ Reset
    /\ UNCHANGED <<cmdline, sources, work>>

Next ==
    \/ CheckFlags \/ ParseArguments \/ CheckSources \/ Expand
    \/ ReadProtosets \/ LoadProtosets \/ Loaded \/ ParseProtoFiles
    \/ DialReflection \/ NoReflection
    \/ ListOrDescribeAll \/ ListOrDescribeOne \/ Describe \/ WriteFile
    \/ DialForRpc \/ InvokeRPC \/ ReportStatus \/ Return

Spec == Init /\ [][Next]_vars

---------------------------------------------------------------------------
(* Properties *)

(* However the process ends once a connection is open (an RPC that fails or *)
(* panics, a symbol that is not found, a file that cannot be written), the  *)
(* connection and the reflection stream are shut down first, though os.Exit *)
(* runs no deferred call (main.go 306-322, 465-546).                        *)
NothingLeftOpen ==
    exit \notin {"running", "serving"} => cc # "open" /\ refClient # "live"

(* A descriptor set is loaded exactly when all its imports are in it, no    *)
(* file imports itself, directly or not, and every file uses only types     *)
(* that it or its imports define.  A set is refused only for an import it   *)
(* lacks or a type that is not defined where it is used, and the stack      *)
(* overflows only on a cycle (desc_source.go 79-116).                       *)
LoadDecides ==
    LET files == Unresolved(set)
    IN  /\ pc = "loaded" => /\ Closed(files) /\ Acyclic(files) /\ Linked(files)
                            /\ fileSource = files
        /\ pc = "exited" /\ set # <<>> =>
              IF exit = "1" THEN ~(Closed(files) /\ Linked(files)) ELSE ~Acyclic(files)

(* The server and the local files have the same content for the files both  *)
(* know.                                                                    *)
SourcesAgree ==
    \A name \in DOMAIN fileSource \cap DOMAIN server : fileSource[name] = server[name]

(* A written descriptor set is one this tool can load, file by file, when   *)
(* the sources its files came from agree.  When they do not it still holds  *)
(* no file twice and each after its imports: it is loaded all the same      *)
(* unless one of its files uses a type that the other source's version of   *)
(* an import does not define, and then it is refused, without overflowing   *)
(* the stack (desc_source.go 260-304, 107-113).                             *)
ProtosetReloads ==
    out = "written" =>
        LET files == Unresolved(protoset)
            loading == Load(protoset)
        IN  IF Closed(files) /\ Linked(files)
            THEN /\ loading.outcome = "ok"
                 /\ loading.resolved = [i \in DOMAIN protoset |-> protoset[i].name]
            ELSE Closed(files) /\ ~SourcesAgree /\ loading.outcome = "error"

(* A template shows every message type in full wherever it appears, except  *)
(* where it is nested in itself, where it is cut off, and except for the    *)
(* members of a oneof but the last: a later one takes the place of those    *)
(* before it (gateway.go 442-447, 505-506).  The comment on MakeTemplate,   *)
(* gateway.go 394-400, makes neither exception.                             *)
TemplateComplete ==
    template # <<>> =>
        \A chain \in template[2], m \in Message :
            LET fields == template[1][Last(chain)]
            IN  Append(chain, m) \in template[2] <=>
                    /\ Last(chain) \notin ToSet(Front(chain))
                    /\ \E i \in DOMAIN fields : fields[i].type = m /\ ~Overwritten(fields, i)
=============================================================================
