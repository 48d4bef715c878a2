------------------------------ MODULE Registry ------------------------------
(***************************************************************************)
(* The handler registry (handler.go, mcp_registry.go): a program registers *)
(* handler structs, opts them into REST and MCP, registers push events,    *)
(* enums and error codes, and hands the registry to a server, an adapter   *)
(* or a generator.  A wrong registration panics, which ends the program.   *)
(*                                                                         *)
(* A struct is named by its Go type name; a wire method "Struct.Method" is *)
(* the pair <<struct, method>>.  Reflection is abstracted to the table     *)
(* Decl of signatures; the classification of a signature is validateMethod *)
(* and validateOutputs below.                                              *)
(***************************************************************************)
EXTENDS Naturals, Sequences, FiniteSets

CONSTANTS
    Structs,      \* handler struct types
    Decl,         \* Decl[s][m]: signature of method m of *s, a record with
                  \*   ctx   the first parameter implements context.Context
                  \*   ins   the other parameters, records [type, ptr, variadic]
                  \*   outs  the shapes of the results
                  \*   resp  the type of the (unwrapped) first result
                  \*   key   the first type argument of an iter.Seq2
                  \*   words the words of the method's name
                  \*   segment  the words of its path segment (DefaultNaming
                  \*         writes GetID and GetId alike)
    Types,        \* Go types of parameters, results, fields and events
    Kind,         \* Kind[t]: "prim", "struct" or "enum"
    FileName,     \* FileName[s]: NamingPlugin.FileName of a group
    BadTags,      \* struct types with a malformed transform tag
    Members,      \* Members[e]: the member names an enum's values ask for
    ErrorNames,   \* names of custom errors
    Bases,        \* bases of generated client files
    Uses,         \* Uses[p]: the structs the program p may register
    Servers,      \* the programs that go on to serve; the others generate
    FieldGraphs,  \* FieldGraphs[p]: the possible field tables of program p
    MaxOps        \* bound: MaxOps[p] registrations by program p

\* Every program draws on the declared structs, and every field table is one.
ASSUME RegistryAssumption ==
    /\ MaxOps \in [DOMAIN Uses -> Nat]
    /\ BadTags \subseteq Types
    /\ \A p \in DOMAIN Uses : Uses[p] \subseteq Structs
    /\ \A p \in DOMAIN FieldGraphs :
         FieldGraphs[p] \subseteq [Types -> SUBSET Types]

VARIABLES
    prog,         \* which program runs: a server or a generator command
    fields,       \* the types of the exported fields of each struct type
    groups,       \* Registry.groups: the registered structs
    socketGroups, \* those with HandlerGroup.socket
    handlers,     \* Registry.handlers: the socket dispatch map
    restGroups,   \* Registry.restGroups
    mcpOnly,      \* Registry.mcpOnlyGroups
    mcpTools,     \* the keys of Registry.mcpTools: wire methods
    pushEvents,   \* Registry.pushEvents: pairs of group and data type, in order
    groupEnums,   \* each group's Enums: pairs of struct and enum type
    sharedEnums,  \* Registry.sharedEnums
    errorCodes,   \* Registry.errorCodes: the names, in order of their codes
    errorMapped,  \* those registered with an error value (errorMappings)
    reserved,     \* Registry.reservedClientFiles
    ops,          \* registrations done
    phase         \* "setup", then "panic" or what the program went on to do

regVars == <<prog, fields, groups, socketGroups, handlers, restGroups, mcpOnly,
             mcpTools, pushEvents, groupEnums, sharedEnums, errorCodes,
             errorMapped, reserved, ops, phase>>

-----------------------------------------------------------------------------
(* Signatures.                                                             *)

\* validateOutputs: (error), (T, error), (iter.Seq, error), (iter.Seq2, error).
validateOutputs(outs) ==
    CASE Len(outs) = 1 /\ outs[1] = "error" -> "void"
      [] Len(outs) = 2 /\ outs[2] = "error" /\ outs[1] = "seq"  -> "stream"
      [] Len(outs) = 2 /\ outs[2] = "error" /\ outs[1] = "seq2" -> "stream2"
      [] Len(outs) = 2 /\ outs[2] = "error" /\ outs[1] \notin {"seq", "seq2"} -> "value"
      [] OTHER -> "none"

\* validateMethod: the method's kind, or "none" if it is not a handler.
validateMethod(sig) == IF sig.ctx THEN validateOutputs(sig.outs) ELSE "none"

Sig(w) == Decl[w[1]][w[2]]
KindOf(w) == validateMethod(Sig(w))
Unary(w) == KindOf(w) \in {"void", "value"}

\* The methods of s that register puts into its group.
MethodsOf(s) == {<<s, m>> : m \in {x \in DOMAIN Decl[s] :
                                     validateMethod(Decl[s][x]) # "none"}}

WireMethods == UNION {MethodsOf(s) : s \in Structs}

ParamTypes(w) == {Sig(w).ins[i].type : i \in DOMAIN Sig(w).ins}

-----------------------------------------------------------------------------
RegInit ==
    /\ prog \in DOMAIN Uses
    /\ fields \in FieldGraphs[prog]
    /\ groups = {} /\ socketGroups = {} /\ handlers = {}
    /\ restGroups = {} /\ mcpOnly = {} /\ mcpTools = {}
    /\ pushEvents = <<>> /\ groupEnums = {} /\ sharedEnums = {}
    /\ errorCodes = <<>> /\ errorMapped = {} /\ reserved = {}
    /\ ops = 0 /\ phase = "setup"

\* One more call on the registry.
CanOp == phase = "setup" /\ ops < MaxOps[prog]
Op == CanOp /\ ops' = ops + 1

\* A registration that panics leaves a program that does not start.
Panic ==
    /\ phase' = "panic"
    /\ UNCHANGED <<prog, fields, groups, socketGroups, handlers, restGroups,
                   mcpOnly, mcpTools, pushEvents, groupEnums, sharedEnums,
                   errorCodes, errorMapped, reserved>>

UnchangedCodegen == UNCHANGED <<pushEvents, groupEnums, sharedEnums, reserved>>
UnchangedErrors == UNCHANGED <<errorCodes, errorMapped>>
UnchangedGroups == UNCHANGED <<groups, socketGroups, handlers, restGroups,
                               mcpOnly, mcpTools>>

\* register: the group name is free and no parameter has a bad transform tag.
CanRegister(s) ==
    /\ s \notin groups
    /\ \A w \in MethodsOf(s) : ParamTypes(w) \cap BadTags = {}

\* assertNoStreamHandlers.
NoStreamHandlers(s) == \A w \in MethodsOf(s) : Unary(w)

\* Register: the struct's methods join the dispatch map.
Register(s) ==
    /\ s \in Uses[prog] /\ Op
    /\ \/ /\ ~CanRegister(s) /\ Panic
       \/ /\ CanRegister(s)
          /\ groups' = groups \cup {s}
          /\ socketGroups' = socketGroups \cup {s}
          /\ handlers' = handlers \cup MethodsOf(s)
          /\ UNCHANGED <<prog, fields, phase, restGroups, mcpOnly, mcpTools>>
          /\ UnchangedCodegen /\ UnchangedErrors

\* RegisterREST: the group table only; a streaming handler panics.
RegisterREST(s) ==
    /\ s \in Uses[prog] /\ Op
    /\ \/ /\ ~(CanRegister(s) /\ NoStreamHandlers(s)) /\ Panic
       \/ /\ CanRegister(s) /\ NoStreamHandlers(s)
          /\ groups' = groups \cup {s}
          /\ restGroups' = restGroups \cup {s}
          /\ UNCHANGED <<prog, fields, phase, socketGroups, handlers, mcpOnly,
                         mcpTools>>
          /\ UnchangedCodegen /\ UnchangedErrors

\* RegisterMCP: the group table only; the tools follow with EnableMCP.
RegisterMCP(s) ==
    /\ s \in Uses[prog] /\ Op
    /\ \/ /\ ~(CanRegister(s) /\ NoStreamHandlers(s)) /\ Panic
       \/ /\ CanRegister(s) /\ NoStreamHandlers(s)
          /\ groups' = groups \cup {s}
          /\ mcpOnly' = mcpOnly \cup {s}
          /\ UNCHANGED <<prog, fields, phase, socketGroups, handlers,
                         restGroups, mcpTools>>
          /\ UnchangedCodegen /\ UnchangedErrors

\* EnableREST: the struct is registered and has no streaming handler.
EnableREST(s) ==
    /\ s \in Uses[prog] /\ Op
    /\ \/ /\ ~(s \in groups /\ NoStreamHandlers(s)) /\ Panic
       \/ /\ s \in groups /\ NoStreamHandlers(s)
          /\ restGroups' = restGroups \cup {s}
          /\ UNCHANGED <<prog, fields, phase, groups, socketGroups, handlers,
                         mcpOnly, mcpTools>>
          /\ UnchangedCodegen /\ UnchangedErrors

\* EnableMCP for one listed method: registered, a handler, not streaming.
EnableMCP(s, m) ==
    /\ s \in Uses[prog] /\ Op
    /\ LET ok == s \in groups /\ <<s, m>> \in MethodsOf(s) /\ Unary(<<s, m>>)
       IN \/ /\ ~ok /\ Panic
          \/ /\ ok
             /\ mcpTools' = mcpTools \cup {<<s, m>>}
             /\ UNCHANGED <<prog, fields, phase, groups, socketGroups,
                            handlers, restGroups, mcpOnly>>
             /\ UnchangedCodegen /\ UnchangedErrors

\* RegisterPushEventFor: any registered group may own the event.
RegisterPushEventFor(s, t) ==
    /\ prog = "generator" /\ s \in Uses[prog] /\ Kind[t] = "struct" /\ Op
    /\ \/ /\ s \notin groups /\ Panic
       \/ /\ s \in groups
          /\ pushEvents' = Append(pushEvents, <<s, t>>)
          /\ UNCHANGED <<prog, fields, phase, groupEnums, sharedEnums, reserved>>
          /\ UnchangedGroups /\ UnchangedErrors

\* buildEnumInfo: at least one value, and no two values with one member name.
EnumOK(e) == Members[e] # <<>> /\ \A i, j \in DOMAIN Members[e] :
                                    Members[e][i] = Members[e][j] => i = j

\* RegisterEnumFor.
RegisterEnumFor(s, e) ==
    /\ prog = "generator" /\ s \in Uses[prog] /\ Kind[e] = "enum" /\ Op
    /\ \/ /\ ~(s \in groups /\ EnumOK(e)) /\ Panic
       \/ /\ s \in groups /\ EnumOK(e)
          /\ groupEnums' = groupEnums \cup {<<s, e>>}
          /\ UNCHANGED <<prog, fields, phase, pushEvents, sharedEnums, reserved>>
          /\ UnchangedGroups /\ UnchangedErrors

\* RegisterEnum.
RegisterEnum(e) ==
    /\ prog = "generator" /\ Kind[e] = "enum" /\ Op
    /\ \/ /\ ~EnumOK(e) /\ Panic
       \/ /\ EnumOK(e)
          /\ sharedEnums' = sharedEnums \cup {e}
          /\ UNCHANGED <<prog, fields, phase, pushEvents, groupEnums, reserved>>
          /\ UnchangedGroups /\ UnchangedErrors

\* GetEnum: the lookup table behind both registrations.
EnumTypes == {x[2] : x \in groupEnums} \cup sharedEnums

\* RegisterError and RegisterErrorCode: the next code, with or without an
\* error value that LookupError will match; a name may come twice.
RegisterError(n, mapped) ==
    /\ Op
    /\ errorCodes' = Append(errorCodes, n)
    /\ errorMapped' = IF mapped THEN errorMapped \cup {n} ELSE errorMapped
    /\ UNCHANGED <<prog, fields, phase>>
    /\ UnchangedGroups /\ UnchangedCodegen

\* ReserveClientFile: a runtime's OnGenerate hook owns the file base.
ReserveClientFile(b) ==
    /\ prog \notin Servers /\ Op
    /\ reserved' = reserved \cup {b}
    /\ UNCHANGED <<prog, fields, phase, pushEvents, groupEnums, sharedEnums>>
    /\ UnchangedGroups /\ UnchangedErrors

RegNext ==
    /\ CanOp
    /\ \/ \E s \in Structs : \/ Register(s) \/ RegisterREST(s) \/ RegisterMCP(s)
                             \/ EnableREST(s)
                             \/ \E m \in DOMAIN Decl[s] : EnableMCP(s, m)
                             \/ \E t \in Types : RegisterPushEventFor(s, t)
                             \/ \E e \in Types : RegisterEnumFor(s, e)
       \/ \E e \in Types : RegisterEnum(e)
       \/ \E n \in ErrorNames, b \in BOOLEAN : RegisterError(n, b)
       \/ \E b \in Bases : ReserveClientFile(b)

\* A generator command runs once its registrations are done.
Generator == prog \notin Servers /\ phase = "setup"

Finished ==
    /\ phase' = "generated"
    /\ UNCHANGED <<prog, fields, groups, socketGroups, handlers, restGroups,
                   mcpOnly, mcpTools, pushEvents, groupEnums, sharedEnums,
                   errorCodes, errorMapped, reserved, ops>>

-----------------------------------------------------------------------------
(* Lookups.                                                                *)

\* Get: the dispatch map only.
Get(w) == w \in handlers

\* lookupMethod: the dispatch map, then the group table.
lookupMethod(w) == w \in handlers \/ (w[1] \in groups /\ w \in MethodsOf(w[1]))

\* LookupError: the registered code of an error value, if there is one.
LookupError(n) == n \in errorMapped

\* The registry has its type: what a group opted into or serves belongs to a
\* group that is registered.
RegTypeOK ==
    /\ prog \in DOMAIN Uses /\ fields \in FieldGraphs[prog]
    /\ groups \subseteq Structs /\ socketGroups \subseteq groups
    /\ handlers \subseteq WireMethods /\ mcpTools \subseteq WireMethods
    /\ restGroups \subseteq groups /\ mcpOnly \subseteq groups
    /\ pushEvents \in Seq(Structs \X Types)
    /\ groupEnums \subseteq groups \X Types /\ sharedEnums \subseteq Types
    /\ errorCodes \in Seq(ErrorNames) /\ errorMapped \subseteq ErrorNames
    /\ reserved \subseteq Bases /\ ops \in 0..MaxOps[prog]
    /\ phase \in {"setup", "panic", "serving", "generated"}
=============================================================================
