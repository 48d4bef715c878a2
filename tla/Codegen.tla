------------------------------ MODULE Codegen -------------------------------
(***************************************************************************)
(* The code generators that read the registry: the TypeScript client as a  *)
(* directory of files (Generator.Generate, with the tasks runtime's hook   *)
(* and the Zod schemas) or as one file (GenerateTo), the Go client         *)
(* (GoGenerator) and the OpenAPI document.                                 *)
(*                                                                         *)
(* A generated file is abstracted to the names that it declares, imports   *)
(* and refers to.  A name is a sequence of words, so that prefixes and     *)
(* suffixes are kept; a file name is its base, with the ".types" or        *)
(* ".schema" that the generators append as a second word.                  *)
(***************************************************************************)
EXTENDS Routes

CONSTANTS
    NameOf,      \* NameOf[t]: the words of a type's own name
    PkgOf,       \* PkgOf[t]: the last element of its package path
    PkgSeq,      \* the packages, sorted
    TypeSeq,     \* the types, sorted by name and package path
    StructSeq,   \* the handler structs, sorted by name
    Helpers,     \* errors whose helper is a built-in method of ApiError
    MetaType,    \* the meta type that tasks.EnableWithMeta was given
    MaxGens      \* bound: runs of the TypeScript generator

ASSUME CodegenAssumption == MaxGens \in Nat

VARIABLES
    tsDir,    \* the output directory: a file, generated or hand-written
    tsRun,    \* how the last run of the TypeScript generator ended
    gens,     \* its runs so far
    gen,      \* the run under way: what its earlier phases found
    product   \* what another generator produced

genVars == <<tsDir, tsRun, gens, gen, product>>

Structural(S) == {t \in S : Kind[t] = "struct"}
Range2(f) == {f[x] : x \in DOMAIN f}

\* The name that generated TypeScript uses for a type (goTypeToTS), none for
\* a primitive or an enum that is not registered.
goTypeToTS(t) ==
    CASE Kind[t] = "struct" -> {NameOf[t]}
      [] Kind[t] = "enum" /\ t \in EnumTypes -> {Append(NameOf[t], "Type")}
      [] OTHER -> {}

Names(S) == UNION {goTypeToTS(t) : t \in S}

-----------------------------------------------------------------------------
(* Collection of types.                                                    *)

\* The types a method mentions: parameters, result, and the key of a Seq2.
RespTypes(w) == IF KindOf(w) \in {"void", "none"} THEN {} ELSE {Sig(w).resp}
KeyTypes(w) == IF KindOf(w) = "stream2" THEN {Sig(w).key} ELSE {}
EventsOf(s) == {e[2] : e \in {x \in Range2(pushEvents) : x[1] = s}}

\* collectType and collectNestedType: the types reachable through fields.
RECURSIVE collectType(_)
collectType(S) ==
    LET more == S \cup UNION {fields[t] : t \in S}
    IN IF more = S THEN S ELSE collectType(more)

\* collectGroupTypes, before structs and registered enums are told apart.
Reached(s) ==
    collectType(EventsOf(s) \cup
        UNION {ParamTypes(w) \cup RespTypes(w) \cup KeyTypes(w) : w \in MethodsOf(s)})

collectGroupTypes(s) ==
    Structural(Reached(s)) \cup (Reached(s) \cap EnumTypes)
      \cup {x[2] : x \in {y \in groupEnums : y[1] = s}}

\* clientGroups: the socket groups.
clientGroups == socketGroups

-----------------------------------------------------------------------------
(* Shared files.                                                           *)

\* The types used by two groups or more, and the enums of no group.
SharedAmong(types) ==
    sharedEnums \cup
    {t \in UNION Range2(types) :
       \E s1, s2 \in DOMAIN types : s1 # s2 /\ t \in types[s1] /\ t \in types[s2]}


\* The base of a package's shared file, out of the way of handler files and
\* of files a runtime's hook writes.
pkgBase(p) ==
    IF p \in {FileName[s] : s \in clientGroups} \cup reserved
    THEN <<p, "types">> ELSE <<p>>

SharedOf(p) == {t \in gen.shared : PkgOf[t] = p}

\* sharedTypeNames: of two packages with one name, the later one is kept.
sharedTypeNames ==
    LET declares(i, n) == n \in Names(SharedOf(PkgSeq[i]))
        last(n) == CHOOSE i \in DOMAIN PkgSeq :
                     /\ declares(i, n)
                     /\ \A j \in DOMAIN PkgSeq : declares(j, n) => j <= i
    IN [n \in Names(gen.shared) |-> pkgBase(PkgSeq[last(n)])]

\* buildInterfaces: what the fields of the declared structs refer to.
FieldRefs(S) == Names(UNION {fields[t] : t \in S})

\* findSharedTypeImports: the shared names a file scans and does not declare.
findSharedTypeImports(decl, scanned) ==
    {<<n, gen.module[n]>> : n \in (scanned \cap DOMAIN gen.module) \ decl}

File(decl, imports, refs, keys, schema) ==
    [gen |-> TRUE, decl |-> decl, imports |-> imports, refs |-> refs,
     keys |-> keys, schema |-> schema]

\* Pass 1 and 2 of Generate for one package.
sharedFile(p) ==
    LET S == SharedOf(p)
    IN File(Names(S), findSharedTypeImports(Names(S), FieldRefs(S)),
            FieldRefs(S), {}, <<>>)

\* buildTemplateData for a group and its imports: fields, results, parameters
\* and events are scanned for shared names, the keys of a Seq2 are not.
handlerFile(s) ==
    LET S == gen.types[s] \ gen.shared
        scanned == FieldRefs(S) \cup Names(EventsOf(s)) \cup
                   Names(UNION {ParamTypes(w) \cup RespTypes(w) : w \in MethodsOf(s)})
        keys == Names(UNION {KeyTypes(w) : w \in MethodsOf(s)})
    IN File(Names(S), findSharedTypeImports(Names(S), scanned),
            scanned \cup keys, keys \ scanned, <<>>)

-----------------------------------------------------------------------------
(* Zod schemas of a handler file.  Every field is a slice of its type and   *)
(* carries a validate tag, so every struct has a schema.                    *)

RECURSIVE reach(_, _)
reach(S, deps) ==
    LET more == S \cup UNION {deps[t] : t \in S}
    IN IF more = S THEN S ELSE reach(more, deps)

\* Faulty: only a direct cycle is seen.
depReaches_Direct(deps, from, to) == to \in deps[from]

\* depReaches: from reaches to along at least one edge.
depReaches(deps, from, to) == to \in reach(deps[from], deps)

\* topoSortSchemas: visit the schemas in order, each after the dependencies
\* that are not on the stack.
RECURSIVE visit(_, _, _, _)
visit(todo, gray, out, deps) ==
    IF todo = <<>> THEN out
    ELSE LET t == Head(todo)
             skip == t \in gray \/ t \in Range2(out)
             next == SelectSeq(TypeSeq, LAMBDA d : d \in deps[t])
         IN IF skip THEN visit(Tail(todo), gray, out, deps)
            ELSE visit(Tail(todo), gray,
                       Append(visit(next, gray \cup {t}, out, deps), t), deps)

\* buildZodSchemas: the schemas in order, each with its lazy references.
buildZodSchemas(S) ==
    LET deps == [t \in S |-> fields[t] \cap S]
        order == visit(SelectSeq(TypeSeq, LAMBDA t : t \in S), {}, <<>>, deps)
    IN [i \in DOMAIN order |->
          [type |-> order[i],
           eager |-> {d \in deps[order[i]] : ~depReaches(deps, d, order[i])},
           lazy  |-> {d \in deps[order[i]] : depReaches(deps, d, order[i])}]]

schemaFile(s) ==
    File({}, {}, {}, {}, buildZodSchemas(Structural(gen.types[s] \ gen.shared)))

-----------------------------------------------------------------------------
(* The TypeScript client.                                                  *)

\* validateErrorCodes: a custom error may not shadow a built-in helper.
ErrorsOK == Range2(errorCodes) \cap Helpers = {}

\* buildMetaReExports: where the meta type and its nested structs are found.
metaReExports(files) ==
    LET names == {NameOf[t] : t \in Structural(collectType({MetaType}))}
        holds(n) == {f \in DOMAIN files : n \in files[f].decl}
    IN {<<n, CHOOSE f \in holds(n) : TRUE>> : n \in {x \in names : holds(x) # {}}}

\* appendTaskConvenienceCode: the hook of the runtime that reserved the base
\* writes its file over whatever has its name (its handler group is among the
\* client groups, so the client is generated as several files).
runHooks(files) ==
    [f \in DOMAIN files \cup {<<b>> : b \in reserved} |->
       IF f \in {<<b>> : b \in reserved}
       THEN File({}, metaReExports(files), {}, {}, <<>>) ELSE files[f]]

\* The files of Generate: shared files, then handler and schema files, then
\* the base client; a later one replaces an earlier one of its name, and so
\* does the later of two groups that are given one file name.
rendered ==
    LET over(f, g) == [x \in DOMAIN f \cup DOMAIN g |->
                         IF x \in DOMAIN g THEN g[x] ELSE f[x]]
        pkgs == {PkgOf[t] : t \in gen.shared}
        shared == [f \in {pkgBase(p) : p \in pkgs} |->
                     sharedFile(CHOOSE p \in pkgs : f = pkgBase(p))]
        named(f, S) == SelectSeq(StructSeq, LAMBDA s : s \in S /\ FileName[s] = f[1])
        last(f, S) == named(f, S)[Len(named(f, S))]
        validated == {s \in clientGroups : Structural(gen.types[s] \ gen.shared) # {}}
        handler == [f \in {<<FileName[s]>> : s \in clientGroups} |->
                      handlerFile(last(f, clientGroups))]
        zod == [f \in {<<FileName[s], "schema">> : s \in validated} |->
                  schemaFile(last(f, validated))]
        base == [f \in {<<"client">>} |-> File({}, {}, {}, {}, <<>>)]
    IN over(over(over(shared, handler), zod), base)

Write(dir, written) ==
    [f \in DOMAIN dir \cup DOMAIN written |->
       IF f \in DOMAIN written THEN written[f] ELSE dir[f]]

\* removeStaleFiles: files with the marker that this run did not write.
removeStaleFiles(dir, written) ==
    [f \in {x \in DOMAIN dir : ~dir[x].gen \/ x \in DOMAIN written} |-> dir[f]]

\* A command that failed is run again.
Rerun == phase = "generated" /\ tsRun = "failed"

UnchangedOutput == UNCHANGED <<tsDir, tsRun, gens, product>>

\* Generate, phase 1: the types of every group, and which are shared.
Prescan ==
    /\ Generator \/ Rerun
    /\ gen.pc = "idle" /\ gens < MaxGens
    /\ LET types == [s \in clientGroups |-> collectGroupTypes(s)]
       IN gen' = [pc |-> "scanned", types |-> types, shared |-> SharedAmong(types)]
    /\ Finished /\ UnchangedOutput

\* Pass 1: the modules of the shared names.
NameModules ==
    /\ gen.pc = "scanned"
    /\ gen' = [pc |-> "named", types |-> gen.types, shared |-> gen.shared,
               module |-> sharedTypeNames]
    /\ UNCHANGED regVars /\ UnchangedOutput

\* Pass 2 and phase 2: the files; an error code that shadows a built-in helper
\* fails the run before anything is written.
Render ==
    /\ gen.pc = "named"
    /\ \/ /\ ErrorsOK
          /\ gen' = [pc |-> "rendered", files |-> rendered]
          /\ UnchangedOutput
       \/ /\ ~ErrorsOK
          /\ gen' = [pc |-> "idle"]
          /\ tsRun' = "failed" /\ gens' = gens + 1
          /\ UNCHANGED <<tsDir, product>>
    /\ UNCHANGED regVars

\* The hooks run, every file is written and leftovers are removed.
WriteFiles ==
    /\ gen.pc = "rendered"
    /\ LET r == runHooks(gen.files)
       IN tsDir' = removeStaleFiles(Write(tsDir, r), r)
    /\ tsRun' = "ok" /\ gens' = gens + 1 /\ gen' = [pc |-> "idle"]
    /\ UNCHANGED <<regVars, product>>

\* A write fails after another file was written (one stands for any number);
\* no leftover is removed.
WriteFails ==
    /\ gen.pc = "rendered"
    /\ LET r == runHooks(gen.files)
       IN \E f \in DOMAIN r : tsDir' = Write(tsDir, [x \in {f} |-> r[x]])
    /\ tsRun' = "failed" /\ gens' = gens + 1 /\ gen' = [pc |-> "idle"]
    /\ UNCHANGED <<regVars, product>>

\* GenerateTo: one file from the client groups' types; the push events are
\* those of every group, and error codes are not validated.
GenerateTo ==
    /\ Generator /\ product.cmd = "none"
    /\ LET S == sharedEnums \cup UNION {collectGroupTypes(s) : s \in clientGroups}
           used == UNION {ParamTypes(w) \cup RespTypes(w) \cup KeyTypes(w) :
                            w \in handlers}
       IN product' = [cmd |-> "single", decl |-> Names(S),
                      refs |-> FieldRefs(S) \cup Names(used)
                                 \cup Names({e[2] : e \in Range2(pushEvents)})]
    /\ Finished /\ UNCHANGED <<tsDir, tsRun, gens, gen>>

-----------------------------------------------------------------------------
(* The Go client.                                                          *)

\* renderBody's collection pass: every type and registered enum reached.
goNamed ==
    LET S == collectType(sharedEnums
               \cup {x[2] : x \in {y \in groupEnums : y[1] \in clientGroups}}
               \cup UNION {EventsOf(s) : s \in clientGroups}
               \cup UNION {ParamTypes(w) \cup RespTypes(w) \cup KeyTypes(w) :
                             w \in UNION {MethodsOf(s) : s \in clientGroups}})
    IN Structural(S) \cup (S \cap EnumTypes)

\* The members that the embedded runtime client promotes.
goPromotedClientMembers == {<<"Client">>, <<"Close">>, <<"Done">>, <<"Err">>,
                            <<"LastRejection">>, <<"RefreshAuth">>, <<"State">>}

\* The push events of the client groups, as positions in their list.
goEvents == {i \in DOMAIN pushEvents : pushEvents[i][1] \in clientGroups}
OnEvent(i) == <<"On">> \o NameOf[pushEvents[i][2]]

\* renderBody's claims: a group field or push method takes a member of Client
\* that no promoted member, group or earlier event has.
membersOK ==
    LET fieldNames == {<<s>> : s \in clientGroups}
    IN /\ fieldNames \cap goPromotedClientMembers = {}
       /\ \A i \in goEvents :
            /\ OnEvent(i) \notin fieldNames \cup goPromotedClientMembers
            /\ \A j \in goEvents : OnEvent(j) = OnEvent(i) => j = i

\* renderGroup's claims: a method and a Subscribe variant do not clash.
methodsOK ==
    \A s \in clientGroups : \A v, w \in MethodsOf(s) :
      KindOf(v) = "value" => Sig(w).words # <<"Subscribe">> \o Sig(v).words

\* The identifiers that the generated package always has.
goFixed == {<<"Client">>, <<"New">>} \cup {<<s, "Client">> : s \in clientGroups}

\* goTypeNameCandidate, generic arguments left out: level 2 has the package.
goTypeNameCandidate(t, level) ==
    IF level < 2 THEN NameOf[t] ELSE <<PkgOf[t]>> \o NameOf[t]

\* One round of assignNames: colliding types move one level up.
raiseLevels(T, level) ==
    LET name(t) == goTypeNameCandidate(t, level[t])
    IN [t \in T |->
          IF /\ level[t] < 2
             /\ name(t) \in goFixed \/ \E u \in T \ {t} : name(u) = name(t)
          THEN level[t] + 1 ELSE level[t]]

Digits == <<"1", "2", "3", "4">>

\* The first of base, base2, base3 that is not taken.
claimName(base, taken) ==
    IF base \notin taken THEN base
    ELSE LET n == CHOOSE k \in 2..Len(Digits) :
                    /\ Append(base, Digits[k]) \notin taken
                    /\ \A j \in 2..(k - 1) : Append(base, Digits[j]) \in taken
         IN Append(base, Digits[n])

\* assignNames: four rounds of levels, then suffixes in a fixed order.
RECURSIVE suffixed(_, _, _)
suffixed(todo, level, names) ==
    IF todo = <<>> THEN names
    ELSE LET t == Head(todo)
             name == claimName(goTypeNameCandidate(t, level[t]),
                               goFixed \cup Range2(names))
         IN suffixed(Tail(todo), level,
                     [u \in DOMAIN names \cup {t} |->
                        IF u = t THEN name ELSE names[u]])

Rounds(n, T) ==
    LET level[i \in 0..n] == IF i = 0 THEN [t \in T |-> 0]
                             ELSE raiseLevels(T, level[i - 1])
    IN suffixed(SelectSeq(TypeSeq, LAMBDA t : t \in T), level[n], [t \in {} |-> <<>>])

\* Faulty: one round, after which no name has its package.
assignNames_OneRound == Rounds(1, product.types)

assignNames == Rounds(4, product.types)

\* Constants: the members of enums and the error codes, with what they are.
goConsts(names) ==
    UNION {{<<names[e] \o <<Members[e][i]>>, <<e, i>>>> : i \in DOMAIN Members[e]} :
             e \in {t \in DOMAIN names : Kind[t] = "enum"}}
      \cup {<<<<"ErrCode", errorCodes[i]>>, <<"error", i>>>> : i \in DOMAIN errorCodes}

\* assignNames' claims: a constant collides with no type, fixed name or other.
constsOK(names) ==
    /\ \A c, d \in goConsts(names) : c[1] = d[1] => c = d
    /\ {c[1] : c \in goConsts(names)} \cap (Range2(names) \cup goFixed) = {}

\* GoGenerator.Generate, pass 1: the types, or an error about the members.
GoCollect ==
    /\ Generator /\ product.cmd = "none"
    /\ product' = IF membersOK /\ methodsOK
                  THEN [cmd |-> "goCollected", types |-> goNamed]
                  ELSE [cmd |-> "go", ok |-> FALSE]
    /\ Finished /\ UNCHANGED <<tsDir, tsRun, gens, gen>>

\* assignNames and pass 2: the identifiers of the package, or an error.
GoRender ==
    /\ product.cmd = "goCollected"
    /\ LET names == assignNames
       IN product' = [cmd |-> "go", names |-> names, ok |-> constsOK(names)]
    /\ UNCHANGED <<regVars, tsDir, tsRun, gens, gen>>

-----------------------------------------------------------------------------
(* OpenAPI.                                                                *)

\* The methods described: unary ones of the groups that opted into REST.
operations == {w \in UNION {MethodsOf(s) : s \in restGroups} : Unary(w)}

\* The path an operation is filed under, built like a route's.
operationPath(w) ==
    <<FileName[w[1]], Sig(w).segment, Positions(w, LAMBDA p : ~IsStruct(p))>>

\* The path items: of two operations with one HTTP method and path one stays
\* (the later by name, which is left open).
pathItems ==
    {f \in [{<<inferHTTPMethod(w), operationPath(w)>> : w \in operations} -> operations] :
       \A k \in DOMAIN f : k = <<inferHTTPMethod(f[k]), operationPath(f[k])>>}

\* What an operation is written with: path parameters, body and result.
Carried(w) == {Ins(w)[i].type : i \in Range2(pathParams(w) \o bodyParam(w))}
Mentioned == UNION {Carried(w) \cup RespTypes(w) : w \in operations}

\* goTypeToJSONSchema and buildStructSchema: a struct is a component, and the
\* schemas of its fields refer to components; an enum is inlined.
components == Structural(collectType(Mentioned))

\* The structs that $refs were written for.
schemaRefs == Structural(Mentioned \cup UNION {fields[t] : t \in components})

\* Generate: the components are filed under their names in the order of a map,
\* so that of two structs with one name either stays.
OpenAPIGenerate ==
    /\ Generator /\ product.cmd = "none"
    /\ \E items \in pathItems,
         schemas \in {f \in [{NameOf[t] : t \in components} -> components] :
                        \A n \in DOMAIN f : NameOf[f[n]] = n} :
         product' = [cmd |-> "openapi", paths |-> items, schemas |-> schemas,
                     refs |-> schemaRefs]
    /\ Finished /\ UNCHANGED <<tsDir, tsRun, gens, gen>>

-----------------------------------------------------------------------------
Hand == [gen |-> FALSE, decl |-> {}, imports |-> {}, refs |-> {}, keys |-> {},
         schema |-> <<>>]
Leftover == File({}, {<<<<"Gone">>, <<"client">>>>}, {}, {}, <<>>)

\* The directory has a hand-written file and one of a group since removed.
GenInit ==
    /\ tsDir = [f \in {<<"util">>, <<"old">>} |->
                  IF f = <<"util">> THEN Hand ELSE Leftover]
    /\ tsRun = "none" /\ gens = 0 /\ gen = [pc |-> "idle"]
    /\ product = [cmd |-> "none"]

GenNext ==
    \/ Prescan \/ NameModules \/ Render \/ WriteFiles \/ WriteFails
    \/ GenerateTo \/ GoCollect \/ GoRender \/ OpenAPIGenerate

-----------------------------------------------------------------------------
(* Properties.                                                             *)

Declared(x) == x[2] \in DOMAIN tsDir /\ x[1] \in tsDir[x[2]].decl

\* After a successful Generate the TypeScript files agree with each other:
\* every name a generated file refers to is declared in it or imported, every
\* import names a declaration of the file it points at, and no file imports a
\* name it declares, whatever an earlier or failed run left behind.  Excepted
\* are the key type of an iter.Seq2, which findSharedTypeImports does not
\* scan, and imports from a file that a later output has overwritten: the
\* base client replaces the file of a package or of a group named client, and
\* a runtime's hook the file of a group that has its reserved name.
ClientFilesAgree ==
    tsRun = "ok" =>
      \A f \in DOMAIN tsDir :
        LET file == tsDir[f]
        IN /\ file.refs \ file.keys \subseteq
                file.decl \cup {x[1] : x \in file.imports}
           /\ \A x \in file.imports :
                /\ x[1] \notin file.decl
                /\ \/ Declared(x)
                   \/ x[2] = <<"client">>
                   \/ \E s \in clientGroups : FileName[s] \in reserved /\ x[2] = <<FileName[s]>>

\* A file without the generated-code marker survives every run of the
\* generator, failed ones too, unless a generated file has its name.
HandWrittenFilesKept == <<"util">> \in DOMAIN tsDir /\ ~tsDir[<<"util">>].gen

\* A Zod schema dereferences at module load only schemas declared above it:
\* references along cycles of any length are lazy.
SchemasDeclaredBeforeUse ==
    \A f \in DOMAIN tsDir : \A i \in DOMAIN tsDir[f].schema :
      \A d \in tsDir[f].schema[i].eager :
        \E j \in 1..(i - 1) : tsDir[f].schema[j].type = d

\* The single-file client declares every name that it refers to, except the
\* data of push events that belong to groups without a socket.
SingleFileComplete ==
    product.cmd = "single" =>
      product.refs \ {NameOf[e[2]] : e \in {x \in Range2(pushEvents) :
                                              x[1] \notin socketGroups}}
        \subseteq product.decl


Distinct(S) == \A x, y \in S : x[1] = y[1] => x = y

\* What the Go file declares, with what each name stands for: in the package,
\* as members of Client, and as methods of each group's client.
goPackage(names) ==
    {<<names[t], <<"type", t>>>> : t \in DOMAIN names}
      \cup {<<n, <<"fixed", n>>>> : n \in goFixed} \cup goConsts(names)
goMembers ==
    {<<n, <<"promoted", n>>>> : n \in goPromotedClientMembers}
      \cup {<<<<s>>, <<"group", s>>>> : s \in clientGroups}
      \cup {<<OnEvent(i), <<"event", i>>>> : i \in goEvents}
goMethods(s) ==
    {<<Sig(w).words, <<"call", w>>>> : w \in MethodsOf(s)}
      \cup {<<<<"Subscribe">> \o Sig(w).words, <<"subscribe", w>>>> :
              w \in {v \in MethodsOf(s) : KindOf(v) = "value"}}

\* The other types that ask for name n, as their own or with their package.
Rivals(t, n) == {u \in DOMAIN product.names \ {t} :
                   n \in {NameOf[u], <<PkgOf[u]>> \o NameOf[u]}}

\* A Go client that is generated at all compiles: the package, Client and each
\* group's client declare no name twice, counting types of one name from
\* several packages, enum members, error codes and push events registered
\* more than once.  And a type is called what assignNames says: its own name
\* when nothing else asks for it; not that name when another type has it;
\* and then its name with its package, when nothing else asks for that.
GoClientNames ==
    product.cmd = "go" /\ product.ok =>
      /\ Distinct(goPackage(product.names)) /\ Distinct(goMembers)
      /\ \A s \in clientGroups : Distinct(goMethods(s))
      /\ \A t \in DOMAIN product.names :
           LET own == NameOf[t]
               qualified == <<PkgOf[t]>> \o own
               free(n) == Rivals(t, n) = {} /\ n \notin goFixed
           IN /\ free(own) => product.names[t] = own
              /\ (\E u \in DOMAIN product.names \ {t} : NameOf[u] = own) =>
                   /\ product.names[t] # own
                   /\ free(qualified) => product.names[t] = qualified

\* Whenever the REST adapter can serve the routes, the OpenAPI document has for
\* each of them an operation of its own, under the HTTP method and path that
\* the adapter serves it under; and a $ref leads to the struct it was written
\* for, unless another struct of the document has that name.
OpenAPIDescribesRoutes ==
    product.cmd = "openapi" =>
      /\ Mountable(buildRoutes) =>
           \A w \in buildRoutes : LET k == <<inferHTTPMethod(w), Path(w)>>
             IN k \in DOMAIN product.paths /\ product.paths[k] = w
      /\ \A t \in product.refs :
           \/ NameOf[t] \in DOMAIN product.schemas /\ product.schemas[NameOf[t]] = t
           \/ \E u \in product.refs \ {t} : NameOf[u] = NameOf[t]

\* The outputs that are not TypeScript hold together: the Go client compiles and
\* names types by its rule, and the OpenAPI document describes the routes.
GoAndOpenAPIAgree ==
    /\ GoClientNames
    /\ OpenAPIDescribesRoutes
=============================================================================
