---------------------------- MODULE InvokeProofs ----------------------------
(***************************************************************************)
(* Proofs about Invoke: for every set of handler structs, signatures and   *)
(* registrations, a handler runs only where it is exposed, as the principal *)
(* it was given and behind its whole chain of middleware, and the call is   *)
(* answered once and consistently.                                         *)
(***************************************************************************)
EXTENDS Invoke, SequenceTheorems, TLAPS

iVars == <<regVars, invVars>>
iNext == \/ RegNext /\ UNCHANGED invVars
         \/ InvNext
         \/ Generator /\ Finished /\ UNCHANGED invVars

-----------------------------------------------------------------------------
(* The inductive invariant.                                                *)

Layers == {"adapter", "server", "group", "handler"}

\* The argument lists that the transports assemble.
ArgsOf(w, b) == {Positional(w, b), restParams(w, b), bindArguments(w, b)}
Args == UNION {UNION {ArgsOf(w, b) : b \in BOOLEAN} : w \in WireMethods}

Codes == Errors \cup {"none", "ok", "escapes", "rpcInvalid", "rpcInternal",
                      "isError"}

Encodings == {"no", "ok", "fail", "panic"}
Outcomes == Errors \cup {"none", "ok", "escapes"}

Pcs == {"principal", "adapter", "invoke", "server", "group", "handler",
        "unwind", "returned", "finish", "outer", "done"}

Queues == {"call", "none", "outer", "own"}

Calls == [via : {"socket", "rest", "mcp", "invoke"}, w : WireMethods,
          arr : Args, given : Boxes, box : Boxes, conn : BOOLEAN,
          runs : {0, 1}, failed : BOOLEAN, ran : Seq(Layers),
          queued : BOOLEAN, flushed : {0, 1},
          out : Outcomes,
          encode : Encodings, answers : {0, 1},
          answer : Codes, reported : Codes,
          rq : Queues, outer : {"none", "ok", "fails"}, pc : Pcs]

\* What the registrations leave behind.
RegInv ==
    /\ RegTypeOK
    /\ \A w \in handlers : w[1] \in socketGroups
    /\ \A s \in restGroups : NoStreamHandlers(s)
    /\ \A w \in mcpTools : Unary(w)

\* What the server and the adapters serve is registered for them.
SetupInv ==
    /\ server \in BOOLEAN /\ mounted \subseteq {"rest", "mcp"}
    /\ \A w \in routes : w \in WireMethods /\ w[1] \in restGroups
    /\ \A w \in tools : w \in mcpTools
    /\ "mcp" \in mounted => server

\* The call came by a transport that its handler is exposed on.
Exposed(c) ==
    /\ lookupMethod(c.w)
    /\ c.via = "socket" => c.w[1] \in socketGroups
    /\ c.via = "rest" => c.w[1] \in restGroups
    /\ c.via = "mcp" => c.w \in mcpTools
    /\ ~Unary(c.w) => c.via = "socket"
    /\ c.via # "rest" => server

\* The layers that ran before each layer of the chain.
Outermost(c) == IF c.via = "rest" THEN <<"adapter">> ELSE <<>>
ToGroup(c) == Outermost(c) \o (IF server THEN <<"server">> ELSE <<>>)
ToHandler(c) == ToGroup(c) \o <<"group">>
Whole(c) == ToGroup(c) \o <<"group", "handler">>

\* How far the chain has run at each program counter.
ChainInv(c) ==
    /\ c.pc \in {"principal", "adapter"} => c.ran = <<>>
    /\ c.pc = "principal" => c.via = "socket"
    /\ c.pc = "adapter" => c.via = "rest"
    /\ c.pc \in {"invoke", "server"} => c.ran = Outermost(c) /\ server
    /\ c.pc = "group" => c.ran = ToGroup(c)
    /\ c.pc = "handler" => c.ran = ToHandler(c)

\* Whether a provider ran, and which principal the execution has.
PrincipalInv(c) ==
    /\ c.pc \in {"principal", "adapter"} => c.runs = 0
    /\ c.pc = "invoke" => c.runs = 0 \/ c.box # "unset"
    /\ c.pc \in {"principal", "adapter", "invoke", "server", "group",
                 "handler"} => ~c.failed

\* Whose refresh queue the context of a call holds: that of the socket or of
\* the REST adapter, that of an outer call, or the one invoke made.
QueueInv(c) ==
    /\ c.via = "socket" => c.rq = "call"
    /\ c.via = "rest" => c.rq = IF server THEN "call" ELSE "none"
    /\ c.via = "mcp" => c.rq \in {"none", "own"}
    /\ c.via = "invoke" => c.rq \in {"none", "outer", "own"}
    /\ c.queued => c.rq # "none"

\* Where a call may leave the chain: at the end of a layer, and before the
\* server's when its provider failed.
CourseInv(c) ==
    /\ QueueInv(c)
    /\ c.ran \in {<<>>, Outermost(c), ToGroup(c), ToHandler(c), Whole(c)}
    /\ c.failed => c.ran \in {<<>>, Outermost(c)}
    /\ c.via # "socket" /\ c.given # "unset" => c.box = c.given /\ c.runs = 0

\* What was flushed, answered and reported at each program counter.
AnswerInv(c) ==
    /\ c.pc # "done" => c.encode = "no"
    /\ c.pc \notin {"outer", "done"} => c.answers = 0 /\ c.answer = "none"
    /\ c.pc \notin {"finish", "done"} => c.flushed = 0
    /\ c.pc = "finish" =>
         c.flushed = IF c.rq = "own" /\ c.out = "ok" /\ c.queued THEN 1 ELSE 0
    /\ c.pc = "outer" => c.via = "invoke" /\ c.rq = "outer"
    /\ c.pc \in {"outer", "done"} =>
         c.answers = (IF c.out = "escapes" /\ c.via # "socket" THEN 0 ELSE 1)
    /\ c.pc = "done" =>
         /\ c.via = "socket" =>
              c.reported = IF c.encode = "fail" THEN "ok" ELSE c.answer
         /\ c.queued /\ c.rq # "outer" =>
              /\ c.answer = "ok" => c.flushed = 1
              /\ c.answer # "ok" /\ c.encode = "no" /\ Unary(c.w) =>
                   c.flushed = 0
         /\ c.queued /\ c.rq = "outer" => (c.flushed = 1 <=> c.outer = "ok")

\* A call that was refused on arrival has run nothing.
CallOK(c) ==
    /\ c \in Calls
    /\ Exposed(c) \/ (c.pc = "done" /\ c.ran = <<>>)
    /\ ChainInv(c)
    /\ PrincipalInv(c)
    /\ CourseInv(c)
    /\ AnswerInv(c)

CallInv == call = Idle \/ (phase = "serving" /\ CallOK(call))

IInv == RegInv /\ SetupInv /\ CallInv

-----------------------------------------------------------------------------
(* The registry.                                                           *)

\* A wire method is a method of the struct that its name begins with.
LEMMA WireMethodFacts ==
    /\ \A w \in WireMethods : w[1] \in Structs /\ w \in MethodsOf(w[1])
    /\ \A s \in Structs : \A w \in MethodsOf(s) : w \in WireMethods /\ w[1] = s
BY DEF WireMethods, MethodsOf

\* Before any registration the registry is empty.
LEMMA RegInvInit ==
    ASSUME RegInit
    PROVE  RegInv
<1>1. prog \in DOMAIN Uses /\ MaxOps[prog] \in Nat
  BY RegistryAssumption DEF RegInit
<1> QED
  BY <1>1 DEF RegInit, RegInv, RegTypeOK

\* A registration that panics changes neither the groups nor what they serve.
LEMMA PanicKeepsRegInv ==
    ASSUME RegInv, Op, Panic
    PROVE  RegInv'
<1>1. prog \in DOMAIN Uses /\ MaxOps[prog] \in Nat
  BY RegistryAssumption DEF RegInv, RegTypeOK
<1>2. ops' \in 0..MaxOps[prog]
  BY <1>1 DEF RegInv, RegTypeOK, Op, CanOp
<1> QED
  BY <1>2 DEF RegInv, RegTypeOK, Panic, NoStreamHandlers

\* Every call on the registry keeps what a group serves inside its group, and
\* streaming handlers away from REST and MCP.
LEMMA RegistryKeepsRegInv ==
    ASSUME RegInv, RegNext
    PROVE  RegInv'
<1>0. prog \in DOMAIN Uses /\ MaxOps[prog] \in Nat /\ Uses[prog] \subseteq Structs
  BY RegistryAssumption DEF RegInv, RegTypeOK
<1>a. ASSUME Op PROVE ops' \in 0..MaxOps[prog]
  BY <1>0, <1>a DEF RegInv, RegTypeOK, Op, CanOp
<1>1. ASSUME NEW s \in Structs, Register(s) PROVE RegInv'
  <2>1. CASE Panic
    BY <1>1, <2>1, PanicKeepsRegInv DEF Register
  <2>2. CASE ~Panic
    <3>1. /\ groups' = groups \cup {s} /\ socketGroups' = socketGroups \cup {s}
          /\ handlers' = handlers \cup MethodsOf(s)
          /\ UNCHANGED <<prog, fields, phase, restGroups, mcpOnly, mcpTools,
                         pushEvents, groupEnums, sharedEnums, reserved,
                         errorCodes, errorMapped>>
      BY <1>1, <2>2 DEF Register, UnchangedCodegen, UnchangedErrors
    <3>2. RegTypeOK'
      BY <1>1, <1>a, <3>1, WireMethodFacts DEF RegInv, RegTypeOK, Register
    <3>3. \A w \in handlers' : w[1] \in socketGroups'
      BY <3>1, WireMethodFacts DEF RegInv
    <3> QED
      BY <3>1, <3>2, <3>3 DEF RegInv, NoStreamHandlers
  <2> QED
    BY <2>1, <2>2
<1>2. ASSUME NEW s \in Structs, RegisterREST(s) PROVE RegInv'
  <2>1. CASE Panic
    BY <1>2, <2>1, PanicKeepsRegInv DEF RegisterREST
  <2>2. CASE ~Panic
    <3>1. /\ NoStreamHandlers(s)
          /\ groups' = groups \cup {s} /\ restGroups' = restGroups \cup {s}
          /\ UNCHANGED <<prog, fields, phase, socketGroups, handlers, mcpOnly,
                         mcpTools, pushEvents, groupEnums, sharedEnums,
                         reserved, errorCodes, errorMapped>>
      BY <1>2, <2>2 DEF RegisterREST, UnchangedCodegen, UnchangedErrors
    <3>2. RegTypeOK'
      BY <1>2, <1>a, <3>1 DEF RegInv, RegTypeOK, RegisterREST
    <3> QED
      BY <3>1, <3>2 DEF RegInv, NoStreamHandlers
  <2> QED
    BY <2>1, <2>2
<1>3. ASSUME NEW s \in Structs, RegisterMCP(s) PROVE RegInv'
  <2>1. CASE Panic
    BY <1>3, <2>1, PanicKeepsRegInv DEF RegisterMCP
  <2>2. CASE ~Panic
    <3>1. /\ groups' = groups \cup {s} /\ mcpOnly' = mcpOnly \cup {s}
          /\ UNCHANGED <<prog, fields, phase, socketGroups, handlers,
                         restGroups, mcpTools, pushEvents, groupEnums,
                         sharedEnums, reserved, errorCodes, errorMapped>>
      BY <1>3, <2>2 DEF RegisterMCP, UnchangedCodegen, UnchangedErrors
    <3>2. RegTypeOK'
      BY <1>3, <1>a, <3>1 DEF RegInv, RegTypeOK, RegisterMCP
    <3> QED
      BY <3>1, <3>2 DEF RegInv, NoStreamHandlers
  <2> QED
    BY <2>1, <2>2
<1>4. ASSUME NEW s \in Structs, EnableREST(s) PROVE RegInv'
  <2>1. CASE Panic
    BY <1>4, <2>1, PanicKeepsRegInv DEF EnableREST
  <2>2. CASE ~Panic
    <3>1. /\ s \in groups /\ NoStreamHandlers(s)
          /\ restGroups' = restGroups \cup {s}
          /\ UNCHANGED <<prog, fields, phase, groups, socketGroups, handlers,
                         mcpOnly, mcpTools, pushEvents, groupEnums,
                         sharedEnums, reserved, errorCodes, errorMapped>>
      BY <1>4, <2>2 DEF EnableREST, UnchangedCodegen, UnchangedErrors
    <3>2. RegTypeOK'
      BY <1>4, <1>a, <3>1 DEF RegInv, RegTypeOK, EnableREST
    <3> QED
      BY <3>1, <3>2 DEF RegInv, NoStreamHandlers
  <2> QED
    BY <2>1, <2>2
<1>5. ASSUME NEW s \in Structs, NEW m \in DOMAIN Decl[s], EnableMCP(s, m)
      PROVE  RegInv'
  <2>1. CASE Panic
    BY <1>5, <2>1, PanicKeepsRegInv DEF EnableMCP
  <2>2. CASE ~Panic
    <3>1. /\ <<s, m>> \in MethodsOf(s) /\ Unary(<<s, m>>)
          /\ mcpTools' = mcpTools \cup {<<s, m>>}
          /\ UNCHANGED <<prog, fields, phase, groups, socketGroups, handlers,
                         restGroups, mcpOnly, pushEvents, groupEnums,
                         sharedEnums, reserved, errorCodes, errorMapped>>
      BY <1>5, <2>2 DEF EnableMCP, UnchangedCodegen, UnchangedErrors
    <3>2. RegTypeOK'
      BY <1>5, <1>a, <3>1, WireMethodFacts DEF RegInv, RegTypeOK, EnableMCP
    <3> QED
      BY <3>1, <3>2 DEF RegInv, NoStreamHandlers
  <2> QED
    BY <2>1, <2>2
<1>6. ASSUME NEW s \in Structs, NEW t \in Types, RegisterPushEventFor(s, t)
      PROVE  RegInv'
  <2>1. CASE Panic
    BY <1>6, <2>1, PanicKeepsRegInv DEF RegisterPushEventFor
  <2>2. CASE ~Panic
    <3>1. pushEvents' \in Seq(Structs \X Types)
      <4>1. pushEvents \in Seq(Structs \X Types) /\ <<s, t>> \in Structs \X Types
        BY DEF RegInv, RegTypeOK
      <4>2. pushEvents' = Append(pushEvents, <<s, t>>)
        BY <1>6, <2>2 DEF RegisterPushEventFor
      <4> QED
        BY <4>1, <4>2
    <3> QED
      BY <1>6, <1>a, <2>2, <3>1
      DEF RegisterPushEventFor, UnchangedGroups, UnchangedErrors, RegInv,
          RegTypeOK, NoStreamHandlers
  <2> QED
    BY <2>1, <2>2
<1>7. ASSUME NEW s \in Structs, NEW e \in Types, RegisterEnumFor(s, e)
      PROVE  RegInv'
  <2>1. CASE Panic
    BY <1>7, <2>1, PanicKeepsRegInv DEF RegisterEnumFor
  <2>2. CASE ~Panic
    BY <1>7, <1>a, <2>2
    DEF RegisterEnumFor, UnchangedGroups, UnchangedErrors, RegInv, RegTypeOK,
        NoStreamHandlers
  <2> QED
    BY <2>1, <2>2
<1>8. ASSUME NEW e \in Types, RegisterEnum(e) PROVE RegInv'
  <2>1. CASE Panic
    BY <1>8, <2>1, PanicKeepsRegInv DEF RegisterEnum
  <2>2. CASE ~Panic
    BY <1>8, <1>a, <2>2
    DEF RegisterEnum, UnchangedGroups, UnchangedErrors, RegInv, RegTypeOK,
        NoStreamHandlers
  <2> QED
    BY <2>1, <2>2
<1>9. ASSUME NEW n \in ErrorNames, NEW b \in BOOLEAN, RegisterError(n, b)
      PROVE  RegInv'
  BY <1>9, <1>a
  DEF RegisterError, UnchangedGroups, UnchangedCodegen, RegInv, RegTypeOK,
      NoStreamHandlers
<1>10. ASSUME NEW b \in Bases, ReserveClientFile(b) PROVE RegInv'
  BY <1>10, <1>a
  DEF ReserveClientFile, UnchangedGroups, UnchangedErrors, RegInv, RegTypeOK,
      NoStreamHandlers
<1> QED
  BY <1>1, <1>2, <1>3, <1>4, <1>5, <1>6, <1>7, <1>8, <1>9, <1>10 DEF RegNext

\* What is exposed stays exposed while the program registers more.
LEMMA RegistryOnlyGrows ==
    ASSUME RegNext
    PROVE  restGroups \subseteq restGroups' /\ mcpTools \subseteq mcpTools'
BY DEF RegNext, Register, RegisterREST, RegisterMCP, EnableREST, EnableMCP,
       RegisterPushEventFor, RegisterEnumFor, RegisterEnum, RegisterError,
       ReserveClientFile, Panic, UnchangedGroups

-----------------------------------------------------------------------------
(* The chain.                                                              *)

\* Has(r, l): the layer l is among those that ran.
Has(r, l) == \E i \in DOMAIN r : r[i] = l

\* A layer of a joined chain is a layer of one of its parts.
LEMMA HasConcat ==
    ASSUME NEW s \in Seq(Layers), NEW t \in Seq(Layers), NEW l,
           ~Has(s, l), ~Has(t, l)
    PROVE  ~Has(s \o t, l)
<1>1. /\ Len(s) \in Nat /\ DOMAIN s = 1..Len(s)
      /\ Len(t) \in Nat /\ DOMAIN t = 1..Len(t)
  BY LenProperties
<1>2. DOMAIN (s \o t) = 1..(Len(s) + Len(t))
  BY ConcatProperties, LenProperties
<1>3. ASSUME NEW i \in 1..(Len(s) + Len(t)) PROVE (s \o t)[i] # l
  <2>1. CASE i <= Len(s)
    BY <1>1, <2>1, ConcatProperties DEF Has
  <2>2. CASE i > Len(s)
    <3>1. i - Len(s) \in 1..Len(t) /\ (s \o t)[i] = t[i - Len(s)]
      BY <1>1, <2>2, ConcatProperties
    <3> QED
      BY <1>1, <3>1 DEF Has
  <2> QED
    BY <1>1, <2>1, <2>2
<1> QED
  BY <1>2, <1>3 DEF Has

\* A single layer has no other.
LEMMA HasSingle ==
    /\ \A l : ~Has(<<>>, l)
    /\ \A k, l : k # l => ~Has(<<k>>, l)
<1>1. DOMAIN <<>> = {} /\ \A k : DOMAIN <<k>> = 1..1
  OBVIOUS
<1>2. \A k : <<k>>[1] = k
  OBVIOUS
<1> QED
  BY <1>1, <1>2 DEF Has

\* Appending the handler to the chain in front of it gives the whole chain.
LEMMA AppendToConcat ==
    ASSUME NEW s \in Seq(Layers), NEW g \in Layers, NEW h \in Layers
    PROVE  Append(s \o <<g>>, h) = s \o <<g, h>>
<1>0. <<g>> \in Seq(Layers) /\ <<h>> \in Seq(Layers) /\ <<g, h>> \in Seq(Layers)
  OBVIOUS
<1>1. s \o <<g>> \in Seq(Layers)
  BY <1>0, ConcatProperties
<1>2. Append(s \o <<g>>, h) = (s \o <<g>>) \o <<h>>
  BY <1>1, AppendIsConcat
<1>3. (s \o <<g>>) \o <<h>> = s \o (<<g>> \o <<h>>)
  BY <1>0, ConcatAssociative
<1>4. <<g>> \o <<h>> = Append(<<g>>, h)
  BY <1>0, AppendIsConcat
<1>5. Append(<<g>>, h) = <<g, h>>
  <2>1. Append(<<g>>, h) \in Seq(Layers)
    BY <1>0, AppendProperties
  <2>2. Len(Append(<<g>>, h)) = 2 /\ Len(<<g, h>>) = 2
    OBVIOUS
  <2>3. /\ Append(<<g>>, h)[1] = g /\ Append(<<g>>, h)[2] = h
        /\ <<g, h>>[1] = g /\ <<g, h>>[2] = h
    OBVIOUS
  <2>4. \A i \in 1..2 : Append(<<g>>, h)[i] = <<g, h>>[i]
    BY <2>3
  <2> QED
    BY <1>0, <2>1, <2>2, <2>4, SeqEqual
<1> QED
  BY <1>2, <1>3, <1>4, <1>5

\* The chains in front of every layer are sequences of layers.
LEMMA ChainTypes ==
    ASSUME NEW c
    PROVE  /\ Outermost(c) \in Seq(Layers) /\ ToGroup(c) \in Seq(Layers)
           /\ ToHandler(c) \in Seq(Layers) /\ Whole(c) \in Seq(Layers)
<1>1. /\ <<>> \in Seq(Layers) /\ <<"adapter">> \in Seq(Layers)
      /\ <<"server">> \in Seq(Layers) /\ <<"group">> \in Seq(Layers)
      /\ <<"group", "handler">> \in Seq(Layers)
  BY DEF Layers
<1>2. Outermost(c) \in Seq(Layers)
  BY <1>1 DEF Outermost
<1>3. ToGroup(c) \in Seq(Layers)
  BY <1>1, <1>2, ConcatProperties DEF ToGroup
<1>4. ToHandler(c) \in Seq(Layers) /\ Whole(c) \in Seq(Layers)
  BY <1>1, <1>3, ConcatProperties DEF ToHandler, Whole
<1> QED
  BY <1>2, <1>3, <1>4

\* The REST adapter's middleware is the outermost.
LEMMA AdapterExtends ==
    ASSUME NEW c, c.via = "rest"
    PROVE  <<>> \o <<"adapter">> = Outermost(c)
<1>1. <<"adapter">> \in Seq(Layers)
  BY DEF Layers
<1> QED
  BY <1>1, ConcatEmptySeq DEF Outermost

\* The server's middleware, where there is a server, comes before the group's.
LEMMA ServerExtends ==
    ASSUME NEW c
    PROVE  /\ server => Outermost(c) \o <<"server">> = ToGroup(c)
           /\ ~server => ToGroup(c) = Outermost(c)
<1>1. ~server => ToGroup(c) = Outermost(c)
  BY ChainTypes, ConcatEmptySeq DEF ToGroup
<1> QED
  BY <1>1 DEF ToGroup

\* The handler comes after its group's middleware and ends the chain.
LEMMA HandlerExtends ==
    ASSUME NEW c
    PROVE  /\ ToGroup(c) \o <<"group">> = ToHandler(c)
           /\ Append(ToHandler(c), "handler") = Whole(c)
<1>1. "group" \in Layers /\ "handler" \in Layers
  BY DEF Layers
<1> QED
  BY <1>1, ChainTypes, AppendToConcat DEF ToHandler, Whole

\* Only the whole chain ends in the handler, and nothing of the server runs
\* before its own layer.
LEMMA ChainContents ==
    ASSUME NEW c
    PROVE  /\ ~Has(<<>>, "handler") /\ ~Has(<<>>, "server")
           /\ ~Has(Outermost(c), "handler") /\ ~Has(Outermost(c), "server")
           /\ ~Has(ToGroup(c), "handler") /\ ~Has(ToHandler(c), "handler")
<1>1. /\ <<>> \in Seq(Layers) /\ <<"server">> \in Seq(Layers)
      /\ <<"group">> \in Seq(Layers)
  BY DEF Layers
<1>2. ~Has(<<"server">>, "handler") /\ ~Has(<<"group">>, "handler")
  BY HasSingle
<1>3. ~Has(Outermost(c), "handler") /\ ~Has(Outermost(c), "server")
  BY HasSingle DEF Outermost
<1>4. ~Has(ToGroup(c), "handler")
  <2>1. Outermost(c) \in Seq(Layers)
    BY ChainTypes
  <2>2. CASE server
    <3>1. ~Has(Outermost(c) \o <<"server">>, "handler")
      BY <1>1, <1>2, <1>3, <2>1, HasConcat
    <3> QED
      BY <2>2, <3>1 DEF ToGroup
  <2>3. CASE ~server
    BY <1>3, <2>3, ServerExtends
  <2> QED
    BY <2>2, <2>3
<1>5. ~Has(ToHandler(c), "handler")
  <2>1. ToGroup(c) \in Seq(Layers)
    BY ChainTypes
  <2>2. ~Has(ToGroup(c) \o <<"group">>, "handler")
    BY <1>1, <1>2, <1>4, <2>1, HasConcat
  <2> QED
    BY <2>2 DEF ToHandler
<1> QED
  BY <1>3, <1>4, <1>5, HasSingle

-----------------------------------------------------------------------------
(* Facts about calls.                                                      *)

\* The fields that tell which call it is, who makes it and how far it came.
SameCourse(c, d) ==
    /\ d.via = c.via /\ d.w = c.w /\ d.ran = c.ran /\ d.failed = c.failed
    /\ d.given = c.given /\ d.box = c.box /\ d.runs = c.runs
    /\ d.rq = c.rq /\ d.queued = c.queued

\* Once the chain is left, nothing that guards the handler changes any more.
LEMMA LeavingKeeps ==
    ASSUME NEW c, NEW d \in Calls, SameCourse(c, d),
           Exposed(c) \/ (d.pc = "done" /\ c.ran = <<>>),
           CourseInv(c), AnswerInv(d),
           d.pc \in {"unwind", "returned", "finish", "outer", "done"}
    PROVE  CallOK(d)
<1>1. Exposed(c) => Exposed(d)
  BY DEF SameCourse, Exposed, lookupMethod
<1>2. Outermost(d) = Outermost(c)
  BY DEF SameCourse, Outermost
<1>3. ToGroup(d) = ToGroup(c)
  BY <1>2 DEF ToGroup
<1>4. ToHandler(d) = ToHandler(c) /\ Whole(d) = Whole(c)
  BY <1>3 DEF ToHandler, Whole
<1>5. CourseInv(d)
  BY <1>2, <1>3, <1>4 DEF SameCourse, CourseInv, QueueInv
<1>6. ChainInv(d) /\ PrincipalInv(d)
  BY DEF ChainInv, PrincipalInv
<1> QED
  BY <1>1, <1>5, <1>6 DEF CallOK, SameCourse

\* Updating one field of a call with a value of its type gives a call.
LEMMA CallUpdates ==
    ASSUME NEW c \in Calls
    PROVE  /\ \A v \in Boxes : [c EXCEPT !.box = v] \in Calls
           /\ \A v \in {0, 1} : [c EXCEPT !.runs = v] \in Calls
           /\ \A v \in BOOLEAN : [c EXCEPT !.failed = v] \in Calls
           /\ \A v \in Seq(Layers) : [c EXCEPT !.ran = v] \in Calls
           /\ \A v \in BOOLEAN : [c EXCEPT !.queued = v] \in Calls
           /\ \A v \in {0, 1} : [c EXCEPT !.flushed = v] \in Calls
           /\ \A v \in Outcomes : [c EXCEPT !.out = v] \in Calls
           /\ \A v \in Encodings : [c EXCEPT !.encode = v] \in Calls
           /\ \A v \in {0, 1} : [c EXCEPT !.answers = v] \in Calls
           /\ \A v \in Codes : [c EXCEPT !.answer = v] \in Calls
           /\ \A v \in Codes : [c EXCEPT !.reported = v] \in Calls
           /\ \A v \in Pcs : [c EXCEPT !.pc = v] \in Calls
           /\ \A v \in Queues : [c EXCEPT !.rq = v] \in Calls
           /\ \A v \in {"none", "ok", "fails"} : [c EXCEPT !.outer = v] \in Calls
<1>1. ASSUME NEW v \in Boxes PROVE [c EXCEPT !.box = v] \in Calls
  BY DEF Calls
<1>2. ASSUME NEW v \in {0, 1} PROVE [c EXCEPT !.runs = v] \in Calls
  BY DEF Calls
<1>3. ASSUME NEW v \in BOOLEAN PROVE [c EXCEPT !.failed = v] \in Calls
  BY DEF Calls
<1>4. ASSUME NEW v \in Seq(Layers) PROVE [c EXCEPT !.ran = v] \in Calls
  BY DEF Calls
<1>5. ASSUME NEW v \in BOOLEAN PROVE [c EXCEPT !.queued = v] \in Calls
  BY DEF Calls
<1>6. ASSUME NEW v \in {0, 1} PROVE [c EXCEPT !.flushed = v] \in Calls
  BY DEF Calls
<1>7. ASSUME NEW v \in Outcomes PROVE [c EXCEPT !.out = v] \in Calls
  BY DEF Calls
<1>8. ASSUME NEW v \in Encodings PROVE [c EXCEPT !.encode = v] \in Calls
  BY DEF Calls
<1>9. ASSUME NEW v \in {0, 1} PROVE [c EXCEPT !.answers = v] \in Calls
  BY DEF Calls
<1>10. ASSUME NEW v \in Codes PROVE [c EXCEPT !.answer = v] \in Calls
  BY DEF Calls
<1>11. ASSUME NEW v \in Codes PROVE [c EXCEPT !.reported = v] \in Calls
  BY DEF Calls
<1>12. ASSUME NEW v \in Pcs PROVE [c EXCEPT !.pc = v] \in Calls
  BY DEF Calls
<1>13. ASSUME NEW v \in Queues PROVE [c EXCEPT !.rq = v] \in Calls
  BY DEF Calls
<1>14. ASSUME NEW v \in {"none", "ok", "fails"} PROVE [c EXCEPT !.outer = v] \in Calls
  BY DEF Calls
<1> QED
  BY <1>1, <1>2, <1>3, <1>4, <1>5, <1>6, <1>7, <1>8, <1>9, <1>10, <1>11, <1>12,
     <1>13, <1>14

\* The answer that ends a call, with and without a report to the observer.
LEMMA AnsweredFields ==
    ASSUME NEW c \in Calls, NEW code \in Codes, c.answers = 0
    PROVE  /\ Answered(c, code) \in Calls
           /\ Answered(c, code).answers = 1 /\ Answered(c, code).answer = code
           /\ Answered(c, code).pc = "done"
           /\ Answered(c, code).encode = c.encode
           /\ Answered(c, code).queued = c.queued
           /\ Answered(c, code).flushed = c.flushed
           /\ Answered(c, code).out = c.out
           /\ SameCourse(c, Answered(c, code))
           /\ Reported(c, code) \in Calls
           /\ Reported(c, code).answers = 1 /\ Reported(c, code).answer = code
           /\ Reported(c, code).reported = code
           /\ Reported(c, code).pc = "done"
           /\ Reported(c, code).encode = c.encode
           /\ Reported(c, code).queued = c.queued
           /\ Reported(c, code).flushed = c.flushed
           /\ Reported(c, code).out = c.out
           /\ SameCourse(c, Reported(c, code))
<1> DEFINE d == Answered(c, code)
<1>1. d \in Calls
  <2>1. d = [[[c EXCEPT !.answers = 1] EXCEPT !.answer = code] EXCEPT !.pc = "done"]
    BY DEF Answered, Calls
  <2>2. [c EXCEPT !.answers = 1] \in Calls
    BY CallUpdates
  <2>3. [[c EXCEPT !.answers = 1] EXCEPT !.answer = code] \in Calls
    BY <2>2, CallUpdates
  <2> QED
    BY <2>1, <2>3, CallUpdates DEF Pcs
<1>2. /\ d.answers = 1 /\ d.answer = code /\ d.pc = "done"
      /\ d.encode = c.encode /\ d.queued = c.queued /\ d.flushed = c.flushed
      /\ d.out = c.out /\ SameCourse(c, d)
  BY DEF Answered, Calls, SameCourse
<1>3. Reported(c, code) = [d EXCEPT !.reported = code]
  BY DEF Reported
<1> HIDE DEF d
<1>4. [d EXCEPT !.reported = code] \in Calls
  BY <1>1, CallUpdates
<1> DEFINE r == [d EXCEPT !.reported = code]
<1>5. /\ r.answers = d.answers /\ r.answer = d.answer /\ r.pc = d.pc
      /\ r.encode = d.encode /\ r.queued = d.queued /\ r.flushed = d.flushed
      /\ r.out = d.out /\ r.reported = code
  BY <1>1 DEF Calls
<1>6. SameCourse(c, r)
  BY <1>1, <1>2 DEF Calls, SameCourse
<1>7. Reported(c, code) = r
  BY <1>3
<1> HIDE DEF r
<1>8. /\ Reported(c, code) \in Calls /\ Reported(c, code).answers = 1
      /\ Reported(c, code).answer = code /\ Reported(c, code).reported = code
      /\ Reported(c, code).pc = "done" /\ Reported(c, code).encode = c.encode
      /\ Reported(c, code).queued = c.queued
      /\ Reported(c, code).flushed = c.flushed
      /\ Reported(c, code).out = c.out /\ SameCourse(c, Reported(c, code))
  BY <1>2, <1>4, <1>5, <1>6, <1>7 DEF r
<1> QED
  BY <1>1, <1>2, <1>8 DEF d

\* Flushing counts the flush and changes nothing else.
LEMMA FlushFields ==
    ASSUME NEW c \in Calls, c.flushed = 0
    PROVE  /\ Flush(c) \in Calls /\ SameCourse(c, Flush(c))
           /\ Flush(c).flushed = IF c.queued THEN 1 ELSE 0
           /\ Flush(c).queued = c.queued /\ Flush(c).out = c.out
           /\ Flush(c).pc = c.pc /\ Flush(c).answers = c.answers
           /\ Flush(c).answer = c.answer /\ Flush(c).reported = c.reported
           /\ Flush(c).encode = c.encode
BY DEF Flush, Calls, SameCourse

\* An answer over REST, MCP or in process ends the call well when what was
\* flushed fits it.
LEMMA AnsweredOK ==
    ASSUME NEW c \in Calls, NEW code \in Codes, c.answers = 0,
           Exposed(c) \/ c.ran = <<>>, CourseInv(c),
           c.via # "socket", c.out # "escapes",
           c.queued =>
             /\ c.rq # "outer"
             /\ code = "ok" => c.flushed = 1
             /\ code # "ok" /\ c.encode = "no" => c.flushed = 0
    PROVE  CallOK(Answered(c, code))
<1> DEFINE d == Answered(c, code)
<1>1. /\ d \in Calls /\ d.answers = 1 /\ d.answer = code /\ d.pc = "done"
      /\ d.encode = c.encode /\ d.queued = c.queued /\ d.flushed = c.flushed
      /\ d.out = c.out /\ SameCourse(c, d)
  BY AnsweredFields
<1>2. AnswerInv(d)
  BY <1>1 DEF AnswerInv, SameCourse
<1> QED
  BY <1>1, <1>2, LeavingKeeps

\* An answer over the socket that is reported as it is sent.
LEMMA ReportedOK ==
    ASSUME NEW c \in Calls, NEW code \in Codes, c.answers = 0,
           Exposed(c) \/ c.ran = <<>>, CourseInv(c),
           c.via = "socket", c.encode = "no", code # "ok", c.flushed = 0
    PROVE  CallOK(Reported(c, code))
<1> DEFINE d == Reported(c, code)
<1>1. /\ d \in Calls /\ d.answers = 1 /\ d.answer = code /\ d.pc = "done"
      /\ d.encode = c.encode /\ d.queued = c.queued /\ d.flushed = c.flushed
      /\ d.out = c.out /\ d.reported = code /\ SameCourse(c, d)
  BY AnsweredFields
<1>2. AnswerInv(d)
  BY <1>1 DEF AnswerInv, SameCourse, CourseInv, QueueInv
<1> QED
  BY <1>1, <1>2, LeavingKeeps

\* The state around a call does not change while it runs.
LEMMA CallStep ==
    ASSUME IInv, phase = "serving", CallOK(call'),
           UNCHANGED <<regVars, server, mounted, routes, tools>>
    PROVE  IInv'
<1>1. RegInv'
  BY DEF IInv, RegInv, RegTypeOK, NoStreamHandlers, regVars
<1>2. SetupInv'
  BY DEF IInv, SetupInv, regVars
<1>3. Exposed(call')  <=> Exposed(call)'
  BY DEF Exposed, lookupMethod, regVars
<1>4. /\ Outermost(call') = Outermost(call)' /\ ToGroup(call') = ToGroup(call)'
      /\ ToHandler(call') = ToHandler(call)' /\ Whole(call') = Whole(call)'
  BY DEF Outermost, ToGroup, ToHandler, Whole
<1>5. /\ ChainInv(call') <=> ChainInv(call)'
      /\ CourseInv(call') <=> CourseInv(call)'
  BY <1>4 DEF ChainInv, CourseInv, QueueInv
<1>6. CallOK(call)'
  BY <1>3, <1>5 DEF CallOK, PrincipalInv, AnswerInv
<1> QED
  BY <1>1, <1>2, <1>6 DEF IInv, CallInv, regVars

-----------------------------------------------------------------------------
(* Building the server and the adapters.                                   *)

\* While the program still sets up, no call is under way.
LEMMA NoCallInSetup ==
    ASSUME IInv, phase = "setup"
    PROVE  call = Idle
BY DEF IInv, CallInv

\* A call on the registry keeps the invariant.
LEMMA RegistryStep ==
    ASSUME IInv, RegNext, UNCHANGED invVars
    PROVE  IInv'
<1>1. RegInv'
  BY RegistryKeepsRegInv DEF IInv
<1>2. SetupInv'
  BY RegistryOnlyGrows DEF IInv, SetupInv, invVars
<1>3. call' = Idle
  BY NoCallInSetup DEF RegNext, CanOp, invVars
<1> QED
  BY <1>1, <1>2, <1>3 DEF IInv, CallInv, Idle

\* Building the server, an adapter, or starting to serve keeps it: what an
\* adapter serves is computed from what is registered for it by then.
LEMMA SetupStep ==
    ASSUME IInv, NewServer \/ NewRESTAdapter \/ NewMCPAdapter \/ Serve
    PROVE  IInv'
<1>1. phase = "setup"
  BY DEF NewServer, NewRESTAdapter, NewMCPAdapter, Serve, Setup
<1>2. call' = Idle
  BY <1>1, NoCallInSetup
  DEF NewServer, NewRESTAdapter, NewMCPAdapter, Serve, Refuse, invVars
<1>3. /\ UNCHANGED <<prog, fields, groups, socketGroups, handlers, restGroups,
                     mcpOnly, mcpTools, pushEvents, groupEnums, sharedEnums,
                     errorCodes, errorMapped, reserved, ops>>
      /\ phase' \in {"setup", "panic", "serving"}
  BY <1>1 DEF NewServer, NewRESTAdapter, NewMCPAdapter, Serve, Refuse, Panic, regVars
<1>4. RegInv'
  BY <1>3 DEF IInv, RegInv, RegTypeOK, NoStreamHandlers
<1>5. SetupInv'
  <2>1. CASE NewServer
    BY <1>3, <2>1 DEF IInv, SetupInv, NewServer
  <2>2. CASE NewRESTAdapter
    <3>1. \A w \in buildRoutes : w \in WireMethods /\ w[1] \in restGroups
      BY WireMethodFacts DEF buildRoutes, IInv, RegInv, RegTypeOK
    <3>2. /\ server' = server /\ tools' = tools
          /\ mounted' \in {mounted, mounted \cup {"rest"}}
          /\ routes' \in {routes, buildRoutes}
      BY <2>2 DEF NewRESTAdapter, Refuse, invVars
    <3>3. \A w \in routes' : w \in WireMethods /\ w[1] \in restGroups
      BY <3>1, <3>2 DEF IInv, SetupInv
    <3> QED
      BY <1>3, <3>2, <3>3 DEF IInv, SetupInv
  <2>3. CASE NewMCPAdapter
    BY <1>3, <2>3 DEF IInv, SetupInv, NewMCPAdapter, Refuse, invVars
  <2>4. CASE Serve
    BY <1>3, <2>4 DEF IInv, SetupInv, Serve, invVars
  <2> QED
    BY <2>1, <2>2, <2>3, <2>4
<1> QED
  BY <1>2, <1>4, <1>5 DEF IInv, CallInv, Idle

\* A generator command that goes on to generate keeps it.
LEMMA GeneratorStep ==
    ASSUME IInv, Generator, Finished, UNCHANGED invVars
    PROVE  IInv'
<1>1. call' = Idle
  BY NoCallInSetup DEF Generator, invVars
<1>2. RegInv'
  BY DEF IInv, RegInv, RegTypeOK, NoStreamHandlers, Finished
<1>3. SetupInv'
  BY DEF IInv, SetupInv, Finished, invVars
<1> QED
  BY <1>1, <1>2, <1>3 DEF IInv, CallInv, Idle

-----------------------------------------------------------------------------
(* Arrival.                                                                *)

\* A new call has run nothing and been told nothing.
IsNew(c, via, w, pc) ==
    /\ c \in Calls /\ c.via = via /\ c.w = w /\ c.pc = pc
    /\ c.ran = <<>> /\ c.runs = 0 /\ c.failed = FALSE /\ c.box = c.given
    /\ c.queued = FALSE /\ c.flushed = 0 /\ c.answers = 0
    /\ c.encode = "no" /\ c.answer = "none" /\ c.out = "none"
    /\ QueueInv(c)

\* NewCall makes a new call.
LEMMA NewCallIsNew ==
    ASSUME NEW via \in {"socket", "rest", "mcp", "invoke"},
           NEW w \in WireMethods, NEW arr \in Args, NEW box \in Boxes,
           NEW conn \in BOOLEAN, NEW rq \in Queues,
           NEW pc \in {"principal", "adapter", "invoke"},
           via = "socket" => rq = "call",
           via = "rest" => rq = IF server THEN "call" ELSE "none",
           via = "mcp" => rq = "none",
           via = "invoke" => rq \in {"none", "outer"}
    PROVE  IsNew(NewCall(via, w, arr, box, conn, rq, pc), via, w, pc)
<1>1. <<>> \in Seq(Layers)
  OBVIOUS
<1>2. 0 \in {0, 1} /\ FALSE \in BOOLEAN /\ "no" \in Encodings
      /\ "none" \in Outcomes /\ "none" \in Codes /\ pc \in Pcs
      /\ "none" \in {"none", "ok", "fails"}
  BY DEF Outcomes, Codes, Pcs, Encodings
<1>3. NewCall(via, w, arr, box, conn, rq, pc) \in Calls
  BY <1>1, <1>2 DEF NewCall, Calls
<1> QED
  BY <1>3 DEF NewCall, IsNew, QueueInv

\* What holds of every call that arrives and is not refused.
LEMMA ArrivalOK ==
    ASSUME NEW c, NEW w, Exposed(c), server \in BOOLEAN,
           \/ IsNew(c, "socket", w, "principal")
           \/ IsNew(c, "rest", w, "adapter")
           \/ IsNew(c, "mcp", w, "invoke") \/ IsNew(c, "invoke", w, "invoke")
    PROVE  CallOK(c)
<1>1. c.via \in {"mcp", "invoke"} => c.ran = Outermost(c) /\ server
  BY DEF Outermost, Exposed, IsNew
<1>2. ChainInv(c)
  BY <1>1 DEF ChainInv, IsNew
<1>3. PrincipalInv(c) /\ CourseInv(c) /\ AnswerInv(c)
  BY DEF PrincipalInv, CourseInv, AnswerInv, IsNew
<1> QED
  BY <1>2, <1>3 DEF CallOK, IsNew

\* A call that is refused on arrival is answered and nothing else.
LEMMA RefusedOK ==
    ASSUME NEW c, NEW w, NEW code \in Codes, code # "ok",
           \/ IsNew(c, "socket", w, "principal")
           \/ IsNew(c, "rest", w, "adapter")
           \/ server /\ IsNew(c, "mcp", w, "invoke")
           \/ server /\ IsNew(c, "invoke", w, "invoke")
    PROVE  /\ c.via = "socket" => CallOK(Reported(c, code))
           /\ c.via # "socket" => CallOK(Answered(c, code))
<1>1. CourseInv(c)
  BY DEF CourseInv, IsNew
<1> QED
  BY <1>1, ReportedOK, AnsweredOK DEF IsNew

\* A frame on the socket: exposed if the dispatch map has its method.
LEMMA SocketRequestStep ==
    ASSUME IInv, NEW w \in WireMethods, NEW full \in BOOLEAN, NEW box \in Boxes,
           SocketRequest(w, full, box)
    PROVE  IInv'
<1> DEFINE c == NewCall("socket", w, Positional(w, full), box, TRUE, "call", "principal")
<1>0. Positional(w, full) \in Args
  BY DEF Args, ArgsOf
<1>1. IsNew(c, "socket", w, "principal")
  BY <1>0, NewCallIsNew DEF Queues
<1>2. /\ phase = "serving" /\ server = TRUE
      /\ call' = IF Get(w) THEN c ELSE Reported(c, "methodNotFound")
      /\ UNCHANGED <<regVars, server, mounted, routes, tools>>
  BY DEF SocketRequest, CanArrive, IInv, SetupInv
<1> HIDE DEF c
<1>3. CASE Get(w)
  <2>1. Exposed(c)
    BY <1>1, <1>2, <1>3 DEF IsNew, Exposed, Get, lookupMethod, IInv, RegInv
  <2>2. CallOK(c)
    BY <1>1, <1>2, <2>1, ArrivalOK
  <2> QED
    BY <1>2, <1>3, <2>2, CallStep
<1>4. CASE ~Get(w)
  <2>1. "methodNotFound" \in Codes
    BY DEF Codes, Errors
  <2>2. CallOK(Reported(c, "methodNotFound"))
    BY <1>1, <2>1, RefusedOK DEF IsNew
  <2> QED
    BY <1>2, <1>4, <2>2, CallStep
<1> QED
  BY <1>3, <1>4

\* A request to the REST adapter: its routes are the methods of the groups
\* that opted into REST, none of which streams.
LEMMA RESTRequestStep ==
    ASSUME IInv, NEW w \in WireMethods, NEW full \in BOOLEAN,
           NEW converts \in BOOLEAN, NEW box \in Boxes, NEW conn \in BOOLEAN,
           RESTRequest(w, full, converts, box, conn)
    PROVE  IInv'
<1> DEFINE c == NewCall("rest", w, restParams(w, full), box, conn,
                        IF server THEN "call" ELSE "none", "adapter")
           refused == \/ ~converts /\ Ins(w) # <<>>
                      \/ HasBody(w) /\ ~full /\ inferHTTPMethod(w) # "GET"
<1>0. restParams(w, full) \in Args
  BY DEF Args, ArgsOf
<1>1. IsNew(c, "rest", w, "adapter")
  BY <1>0, NewCallIsNew DEF Queues
<1>2. /\ phase = "serving" /\ server \in BOOLEAN /\ w \in routes
      /\ call' = IF refused THEN Answered(c, "invalidParams") ELSE c
      /\ UNCHANGED <<regVars, server, mounted, routes, tools>>
  BY DEF RESTRequest, CanArrive, IInv, SetupInv
<1> HIDE DEF c, refused
<1>3. CASE ~refused
  <2>1. w[1] \in restGroups /\ w \in MethodsOf(w[1]) /\ w[1] \in groups
    BY <1>2, WireMethodFacts DEF IInv, SetupInv, RegInv, RegTypeOK
  <2>2. Unary(w)
    BY <2>1 DEF IInv, RegInv, NoStreamHandlers
  <2>3. Exposed(c)
    BY <1>1, <2>1, <2>2 DEF IsNew, Exposed, lookupMethod
  <2>4. CallOK(c)
    BY <1>1, <1>2, <2>3, ArrivalOK
  <2> QED
    BY <1>2, <1>3, <2>4, CallStep
<1>4. CASE refused
  <2>1. "invalidParams" \in Codes
    BY DEF Codes, Errors
  <2>2. CallOK(Answered(c, "invalidParams"))
    BY <1>1, <2>1, RefusedOK DEF IsNew
  <2> QED
    BY <1>2, <1>4, <2>2, CallStep
<1> QED
  BY <1>3, <1>4

\* Server.Invoke's checks: what passes them is registered and unary.
LEMMA InvokeChecksOK ==
    ASSUME server \in BOOLEAN, server, NEW c, NEW w,
           \/ IsNew(c, "mcp", w, "invoke") /\ w \in mcpTools
           \/ IsNew(c, "invoke", w, "invoke")
    PROVE  CallOK(InvokeChecks(c))
<1>1. "methodNotFound" \in Codes /\ "invalidRequest" \in Codes
  BY DEF Codes, Errors
<1>2. CASE ~lookupMethod(c.w)
  BY <1>1, <1>2, RefusedOK DEF InvokeChecks, IsNew
<1>3. CASE lookupMethod(c.w) /\ ~Unary(c.w)
  BY <1>1, <1>3, RefusedOK DEF InvokeChecks, IsNew
<1>4. CASE lookupMethod(c.w) /\ Unary(c.w)
  <2>1. Exposed(c)
    BY <1>4 DEF Exposed, IsNew
  <2>2. InvokeChecks(c) = c
    BY <1>4 DEF InvokeChecks
  <2> QED
    BY <2>1, <2>2, ArrivalOK
<1> QED
  BY <1>2, <1>3, <1>4

\* A tools/call of the MCP adapter: only its own tools reach Invoke.
LEMMA MCPRequestStep ==
    ASSUME IInv, NEW w \in WireMethods, NEW full \in BOOLEAN, NEW box \in Boxes,
           NEW conn \in BOOLEAN, MCPRequest(w, full, box, conn)
    PROVE  IInv'
<1> DEFINE c == NewCall("mcp", w, bindArguments(w, full), box, conn, "none",
                        "invoke")
           missing == ~full /\ Ins(w) # <<>> /\ Required(w, Len(Ins(w)))
<1>0. bindArguments(w, full) \in Args
  BY DEF Args, ArgsOf
<1>1. IsNew(c, "mcp", w, "invoke")
  BY <1>0, NewCallIsNew DEF Queues
<1>2. /\ phase = "serving" /\ server = TRUE
      /\ call' = IF w \notin tools \/ missing THEN Answered(c, "rpcInvalid")
                 ELSE InvokeChecks(c)
      /\ UNCHANGED <<regVars, server, mounted, routes, tools>>
  BY DEF MCPRequest, CanArrive, IInv, SetupInv
<1> HIDE DEF c, missing
<1>3. CASE w \in tools /\ ~missing
  <2>1. w \in mcpTools
    BY <1>3 DEF IInv, SetupInv
  <2>2. CallOK(InvokeChecks(c))
    BY <1>1, <1>2, <2>1, InvokeChecksOK
  <2> QED
    BY <1>2, <1>3, <2>2, CallStep
<1>4. CASE w \notin tools \/ missing
  <2>1. "rpcInvalid" \in Codes
    BY DEF Codes
  <2>2. CallOK(Answered(c, "rpcInvalid"))
    BY <1>1, <1>2, <2>1, RefusedOK DEF IsNew
  <2> QED
    BY <1>2, <1>4, <2>2, CallStep
<1> QED
  BY <1>3, <1>4

\* A call of Server.Invoke by the program itself or inside another call.
LEMMA InProcessStep ==
    ASSUME IInv, NEW w \in WireMethods, NEW full \in BOOLEAN, NEW box \in Boxes,
           NEW conn \in BOOLEAN, NEW nested \in BOOLEAN,
           InProcess(w, full, box, conn, nested)
    PROVE  IInv'
<1> DEFINE c == NewCall("invoke", w, Positional(w, full), box, conn,
                        IF nested THEN "outer" ELSE "none", "invoke")
<1>0. Positional(w, full) \in Args
  BY DEF Args, ArgsOf
<1>1. IsNew(c, "invoke", w, "invoke")
  BY <1>0, NewCallIsNew DEF Queues
<1>2. /\ phase = "serving" /\ server = TRUE /\ call' = InvokeChecks(c)
      /\ UNCHANGED <<regVars, server, mounted, routes, tools>>
  BY DEF InProcess, CanArrive, IInv, SetupInv
<1> HIDE DEF c
<1>3. CallOK(InvokeChecks(c))
  BY <1>1, <1>2, InvokeChecksOK
<1> QED
  BY <1>2, <1>3, CallStep

-----------------------------------------------------------------------------
(* The principal.                                                          *)

\* A call that has not ended is exposed on the transport it came by.
LEMMA LiveCall ==
    ASSUME IInv, call.pc # "idle", call.pc # "done"
    PROVE  /\ phase = "serving" /\ call \in Calls /\ Exposed(call)
           /\ ChainInv(call) /\ PrincipalInv(call) /\ CourseInv(call)
           /\ AnswerInv(call) /\ server \in BOOLEAN
BY DEF IInv, CallInv, CallOK, Idle, SetupInv

\* d is the call c after a provider ran or was not there.
Resolved(c, d) ==
    /\ d \in Calls /\ d.via = c.via /\ d.w = c.w /\ d.ran = c.ran
    /\ d.given = c.given /\ d.pc = c.pc /\ d.queued = c.queued
    /\ d.flushed = c.flushed /\ d.answers = c.answers
    /\ d.encode = c.encode /\ d.answer = c.answer /\ d.rq = c.rq
    /\ d.failed => d.out \in {"app", "internal"}
    /\ d.runs = 0 \/ d.failed \/ d.box # "unset"

\* The provider either is not there, supplies a principal, or fails the call.
LEMMA ResolveFields ==
    ASSUME NEW c \in Calls, NEW p \in Providers, c.runs = 0, c.failed = FALSE
    PROVE  Resolved(c, resolvePrincipal(c, p))
<1>0. /\ "app" \in Outcomes /\ "internal" \in Outcomes
      /\ "nil" \in Boxes /\ "provider" \in Boxes
  BY DEF Outcomes, Errors, Boxes
<1>1. CASE p = "none"
  BY <1>1 DEF resolvePrincipal, Resolved
<1>2. CASE p \in {"nil", "provider"}
  <2> DEFINE d == [[c EXCEPT !.box = p] EXCEPT !.runs = 1]
  <2>1. resolvePrincipal(c, p) = d
    BY <1>2 DEF resolvePrincipal, Calls
  <2>2. [c EXCEPT !.box = p] \in Calls
    BY <1>0, <1>2, CallUpdates
  <2>3. d \in Calls
    BY <2>2, CallUpdates
  <2>4. /\ d.via = c.via /\ d.w = c.w /\ d.ran = c.ran
        /\ d.given = c.given /\ d.pc = c.pc /\ d.queued = c.queued
        /\ d.flushed = c.flushed /\ d.answers = c.answers
        /\ d.encode = c.encode /\ d.answer = c.answer /\ d.rq = c.rq
        /\ d.out = c.out /\ d.failed = c.failed
        /\ d.box = p
    BY DEF Calls
  <2> HIDE DEF d
  <2> QED
    BY <1>2, <2>1, <2>3, <2>4 DEF Resolved
<1>3. CASE p \in {"fails", "panics"}
  <2> DEFINE o == IF p = "fails" THEN "app" ELSE "internal"
             d == [[[c EXCEPT !.runs = 1] EXCEPT !.failed = TRUE] EXCEPT !.out = o]
  <2>1. resolvePrincipal(c, p) = d
    <3>1. CASE p = "fails"
      BY <3>1 DEF resolvePrincipal, Calls
    <3>2. CASE p = "panics"
      BY <3>2 DEF resolvePrincipal, Calls
    <3> QED
      BY <1>3, <3>1, <3>2
  <2>2. [c EXCEPT !.runs = 1] \in Calls
    BY CallUpdates
  <2>3. [[c EXCEPT !.runs = 1] EXCEPT !.failed = TRUE] \in Calls
    BY <2>2, CallUpdates
  <2>4. d \in Calls
    BY <1>0, <2>3, CallUpdates
  <2>5. /\ d.via = c.via /\ d.w = c.w /\ d.ran = c.ran
        /\ d.given = c.given /\ d.pc = c.pc /\ d.queued = c.queued
        /\ d.flushed = c.flushed /\ d.answers = c.answers
        /\ d.encode = c.encode /\ d.answer = c.answer /\ d.rq = c.rq
        /\ d.out = o /\ d.failed = TRUE
    BY DEF Calls
  <2>6. o \in {"app", "internal"}
    OBVIOUS
  <2> HIDE DEF d, o
  <2> QED
    BY <2>1, <2>4, <2>5, <2>6 DEF Resolved
<1> QED
  BY <1>1, <1>2, <1>3 DEF Providers

\* A call may go on to a layer of its chain when the layers before it ran.
LEMMA RunningOK ==
    ASSUME NEW d \in Calls, Exposed(d), ~d.failed, server \in BOOLEAN, QueueInv(d),
           d.answers = 0, d.encode = "no", d.answer = "none", d.flushed = 0,
           d.via # "socket" /\ d.given # "unset" => d.box = d.given /\ d.runs = 0,
           \/ /\ d.pc = "invoke" /\ d.ran = Outermost(d) /\ server
              /\ d.runs = 0 \/ d.box # "unset"
           \/ d.pc = "server" /\ d.ran = Outermost(d) /\ server
           \/ d.pc = "group" /\ d.ran = ToGroup(d)
           \/ d.pc = "handler" /\ d.ran = ToHandler(d)
    PROVE  CallOK(d)
<1>1. ChainInv(d)
  BY DEF ChainInv
<1>2. PrincipalInv(d)
  BY DEF PrincipalInv
<1>3. CourseInv(d)
  BY DEF CourseInv
<1>4. AnswerInv(d)
  BY DEF AnswerInv
<1> QED
  BY <1>1, <1>2, <1>3, <1>4 DEF CallOK

\* What is exposed depends on the transport and the method alone.
LEMMA SameExposed ==
    ASSUME NEW c, NEW d, d.via = c.via, d.w = c.w, Exposed(c)
    PROVE  Exposed(d) /\ Outermost(d) = Outermost(c) /\ ToGroup(d) = ToGroup(c)
           /\ ToHandler(d) = ToHandler(c) /\ Whole(d) = Whole(c)
<1>1. Outermost(d) = Outermost(c)
  BY DEF Outermost
<1>2. ToGroup(d) = ToGroup(c)
  BY <1>1 DEF ToGroup
<1> QED
  BY <1>1, <1>2 DEF Exposed, lookupMethod, ToHandler, Whole

\* d is the call c, moved to pc.
Moved(c, d, pc) ==
    /\ d \in Calls /\ d.pc = pc /\ SameCourse(c, d)
    /\ d.queued = c.queued /\ d.flushed = c.flushed /\ d.out = c.out
    /\ d.answers = c.answers /\ d.encode = c.encode
    /\ d.answer = c.answer /\ d.reported = c.reported

\* Moving the program counter changes nothing else.
LEMMA MoveFields ==
    ASSUME NEW c \in Calls, NEW pc \in Pcs
    PROVE  Moved(c, [c EXCEPT !.pc = pc], pc)
<1>1. [c EXCEPT !.pc = pc] \in Calls
  BY CallUpdates
<1> QED
  BY <1>1 DEF Calls, SameCourse, Moved

\* handleRequest resolves the principal before the chain; a provider that
\* fails ends the call.
LEMMA SocketPrincipalStep ==
    ASSUME IInv, NEW p \in Providers, NEW cancelled \in BOOLEAN,
           SocketPrincipal(p, cancelled)
    PROVE  IInv'
<1> DEFINE c == resolvePrincipal(call, p)
           pc == IF Unary(c.w) THEN "invoke" ELSE "server"
           code == IF cancelled /\ p = "fails" THEN "canceled" ELSE c.out
<1>1. /\ call.pc = "principal"
      /\ call' = IF ~c.failed THEN [c EXCEPT !.pc = pc] ELSE Reported(c, code)
      /\ UNCHANGED <<regVars, server, mounted, routes, tools>>
  BY DEF SocketPrincipal
<1>2. /\ phase = "serving" /\ call \in Calls /\ Exposed(call)
      /\ ChainInv(call) /\ PrincipalInv(call) /\ CourseInv(call)
      /\ AnswerInv(call) /\ server \in BOOLEAN
  BY <1>1, LiveCall
<1>3. /\ call.runs = 0 /\ call.failed = FALSE /\ call.ran = <<>>
      /\ call.via = "socket" /\ call.answers = 0 /\ call.encode = "no"
      /\ call.answer = "none"
      /\ call.flushed = 0 /\ call.rq = "call"
  BY <1>1, <1>2 DEF ChainInv, PrincipalInv, AnswerInv, CourseInv, QueueInv, Calls
<1>4. /\ c \in Calls /\ c.via = "socket" /\ c.w = call.w /\ c.ran = <<>>
      /\ c.flushed = 0 /\ c.answers = 0 /\ c.encode = "no" /\ c.answer = "none"
      /\ c.failed => c.out \in {"app", "internal"}
      /\ c.runs = 0 \/ c.failed \/ c.box # "unset"
      /\ QueueInv(c)
  <2>1. Resolved(call, c)
    BY <1>2, <1>3, ResolveFields
  <2> QED
    BY <1>3, <2>1 DEF Resolved, QueueInv
<1>5. pc \in {"invoke", "server"}
  OBVIOUS
<1>6. Exposed(c) /\ Outermost(c) = <<>>
  BY <1>2, <1>3, <1>4, SameExposed DEF Outermost
<1> HIDE DEF c, pc
<1>7. CASE ~c.failed
  <2> DEFINE d == [c EXCEPT !.pc = pc]
  <2>1. /\ d \in Calls /\ d.pc = pc /\ SameCourse(c, d)
        /\ d.flushed = 0 /\ d.answers = 0 /\ d.encode = "no" /\ d.answer = "none"
    <3>1. pc \in Pcs
      BY <1>5 DEF Pcs
    <3>2. Moved(c, d, pc)
      BY <1>4, <3>1, MoveFields
    <3> QED
      BY <1>4, <3>2 DEF Moved
  <2>2. call' = d
    BY <1>1, <1>7
  <2> HIDE DEF d
  <2>3. Exposed(d) /\ Outermost(d) = <<>>
    BY <1>6, <2>1, SameExposed DEF SameCourse
  <2>4. server
    BY <1>4, <1>6 DEF Exposed
  <2>5. CallOK(d)
    <3>1. QueueInv(d)
      BY <1>4, <2>1 DEF QueueInv, SameCourse
    <3> QED
      BY <1>2, <1>4, <1>5, <1>7, <2>1, <2>3, <2>4, <3>1, RunningOK DEF SameCourse
  <2> QED
    BY <1>1, <1>2, <2>2, <2>5, CallStep
<1>8. CASE c.failed
  <2>1. code \in Codes /\ code # "ok"
    BY <1>4, <1>8 DEF Codes, Errors
  <2>2. CourseInv(c)
    BY <1>4 DEF CourseInv
  <2> HIDE DEF code
  <2>3. CallOK(Reported(c, code))
    BY <1>4, <2>1, <2>2, ReportedOK
  <2> QED
    BY <1>1, <1>2, <1>8, <2>3, CallStep
<1> QED
  BY <1>7, <1>8

\* invoke resolves the principal where no one did, and a provider that fails
\* leaves before the server's middleware.
LEMMA InvokeEntryStep ==
    ASSUME IInv, NEW p \in Providers, invokeEntry(p)
    PROVE  IInv'
<1> DEFINE c == IF principalResolved(call) \/ ~call.conn THEN call
                ELSE resolvePrincipal(call, p)
           pc == IF c.failed THEN AfterInvoke(c) ELSE "server"
           q == IF c.failed \/ c.rq # "none" THEN c.rq ELSE "own"
           m == [c EXCEPT !.rq = q]
           d == [m EXCEPT !.pc = pc]
<1>1. /\ call.pc = "invoke"
      /\ call' = IF c.failed THEN [c EXCEPT !.pc = AfterInvoke(c)]
                 ELSE [c EXCEPT !.rq = IF @ = "none" THEN "own" ELSE @,
                                !.pc = "server"]
      /\ UNCHANGED <<regVars, server, mounted, routes, tools>>
  BY DEF invokeEntry
<1>2. /\ phase = "serving" /\ call \in Calls /\ Exposed(call)
      /\ ChainInv(call) /\ PrincipalInv(call) /\ CourseInv(call)
      /\ AnswerInv(call) /\ server \in BOOLEAN
  BY <1>1, LiveCall
<1>3. /\ call.runs = 0 \/ call.box # "unset"
      /\ call.failed = FALSE /\ call.ran = Outermost(call) /\ server
      /\ call.answers = 0 /\ call.encode = "no"
      /\ call.answer = "none" /\ call.flushed = 0
  BY <1>1, <1>2 DEF ChainInv, PrincipalInv, AnswerInv, Calls
<1>4. /\ c \in Calls /\ c.via = call.via /\ c.w = call.w /\ c.ran = call.ran
      /\ c.flushed = 0 /\ c.answers = 0 /\ c.encode = "no" /\ c.answer = "none"
      /\ c.via # "socket" /\ c.given # "unset" => c.box = c.given /\ c.runs = 0
      /\ c.rq = call.rq /\ c.queued = call.queued
  <2>1. CASE principalResolved(call) \/ ~call.conn
    BY <1>2, <1>3, <2>1 DEF CourseInv
  <2>2. CASE ~(principalResolved(call) \/ ~call.conn)
    <3>1. call.box = "unset" /\ call.runs = 0
      BY <1>3, <2>2 DEF principalResolved
    <3>2. c = resolvePrincipal(call, p)
      BY <2>2
    <3>3. call.via # "socket" => call.given = "unset"
      BY <1>2, <3>1 DEF CourseInv
    <3>4. Resolved(call, c)
      BY <1>2, <1>3, <3>1, <3>2, ResolveFields
    <3> QED
      BY <1>3, <3>3, <3>4 DEF Resolved
  <2> QED
    BY <2>1, <2>2
<1>5. /\ Exposed(c) /\ c.ran = Outermost(c)
  BY <1>2, <1>3, <1>4, SameExposed
<1>6. pc \in {"server", "unwind", "returned"} /\ (c.failed <=> pc # "server")
  BY DEF AfterInvoke
<1>a. QueueInv(c) /\ QueueInv(m) /\ m \in Calls
  <2>1. QueueInv(c)
    BY <1>2, <1>4 DEF CourseInv, QueueInv
  <2> HIDE DEF c
  <2>2. q \in Queues
    BY <1>4 DEF Calls, Queues
  <2>3. m \in Calls
    BY <1>4, <2>2, CallUpdates
  <2>4. m.rq = q /\ m.via = c.via /\ m.queued = c.queued
    BY <1>4 DEF Calls
  <2>5. c.via \in {"socket", "rest", "mcp", "invoke"}
    BY <1>4 DEF Calls
  <2> HIDE DEF m
  <2>6. QueueInv(m)
    BY <1>3, <2>1, <2>4, <2>5 DEF QueueInv
  <2> QED
    BY <2>1, <2>3, <2>6
<1>b. /\ m.via = c.via /\ m.w = c.w /\ m.ran = c.ran /\ m.failed = c.failed
      /\ m.given = c.given /\ m.box = c.box /\ m.runs = c.runs
      /\ m.flushed = 0 /\ m.answers = 0 /\ m.encode = "no" /\ m.answer = "none"
  <2> HIDE DEF c
  <2> QED
    BY <1>4 DEF Calls
<1>c. call' = d
  <2> HIDE DEF c
  <2>1. CASE c.failed
    BY <1>1, <1>4, <2>1 DEF Calls
  <2>2. CASE ~c.failed
    BY <1>1, <1>4, <2>2 DEF Calls
  <2> QED
    BY <2>1, <2>2
<1> HIDE DEF c, pc, q, m
<1>7. /\ d \in Calls /\ d.pc = pc /\ SameCourse(m, d)
      /\ d.flushed = 0 /\ d.answers = 0 /\ d.encode = "no" /\ d.answer = "none"
  <2>1. pc \in Pcs
    BY <1>6 DEF Pcs
  <2>2. Moved(m, d, pc)
    BY <1>a, <2>1, MoveFields
  <2> QED
    BY <1>b, <2>2 DEF Moved
<1> HIDE DEF d
<1>8. Exposed(d) /\ d.ran = Outermost(d)
  BY <1>5, <1>7, <1>b, SameExposed DEF SameCourse
<1>9. CASE ~c.failed
  <2>1. CallOK(d)
    <3>1. QueueInv(d)
      BY <1>7, <1>a DEF QueueInv, SameCourse
    <3> QED
      BY <1>2, <1>3, <1>4, <1>6, <1>7, <1>8, <1>9, <1>b, <3>1, RunningOK
      DEF SameCourse
  <2> QED
    BY <1>1, <1>2, <1>c, <2>1, CallStep
<1>10. CASE c.failed
  <2>1. CourseInv(m) /\ Exposed(m)
    BY <1>4, <1>5, <1>a, <1>b, SameExposed DEF CourseInv
  <2>2. AnswerInv(d)
    BY <1>6, <1>7, <1>10 DEF AnswerInv
  <2>3. CallOK(d)
    BY <1>6, <1>7, <1>10, <2>1, <2>2, LeavingKeeps
  <2> QED
    BY <1>1, <1>2, <1>c, <2>3, CallStep
<1> QED
  BY <1>9, <1>10

-----------------------------------------------------------------------------
(* The chain of middleware and the handler.                                *)

\* d is the call c at pc, after the layers r.
RanTo(c, d, pc, r) ==
    /\ d \in Calls /\ d.pc = pc /\ d.ran = r /\ d.via = c.via
    /\ d.w = c.w /\ d.failed = c.failed /\ d.given = c.given
    /\ d.box = c.box /\ d.runs = c.runs /\ d.flushed = c.flushed
    /\ d.answers = c.answers /\ d.encode = c.encode /\ d.answer = c.answer
    /\ d.rq = c.rq /\ (d.queued => c.queued \/ c.rq # "none")

\* A call that ran on still has the queue it came with.
LEMMA RanKeepsQueue ==
    ASSUME NEW c, NEW d, NEW pc, NEW r, RanTo(c, d, pc, r), QueueInv(c)
    PROVE  QueueInv(d)
BY DEF RanTo, QueueInv

\* A layer runs its middleware and goes on, or leaves with an error.
LEMMA LayerFields ==
    ASSUME NEW c \in Calls, NEW names \in Seq(Layers), NEW pc \in Pcs,
           NEW r \in Seq(Layers), c.ran \o names = r
    PROVE  /\ RanTo(c, [[c EXCEPT !.ran = @ \o names] EXCEPT !.pc = pc], pc, r)
           /\ RanTo(c, [[c EXCEPT !.ran = @ \o names]
                          EXCEPT !.out = "app", !.pc = "unwind"], "unwind", r)
<1> DEFINE m == [c EXCEPT !.ran = r]
           d == [m EXCEPT !.pc = pc]
           e == [[m EXCEPT !.out = "app"] EXCEPT !.pc = "unwind"]
<1>1. "app" \in Outcomes /\ "unwind" \in Pcs
  BY DEF Outcomes, Errors, Pcs
<1>2. m \in Calls
  BY CallUpdates
<1>3. d \in Calls /\ [m EXCEPT !.out = "app"] \in Calls
  BY <1>1, <1>2, CallUpdates
<1>4. e \in Calls
  BY <1>1, <1>3, CallUpdates
<1>5. [[c EXCEPT !.ran = @ \o names] EXCEPT !.pc = pc] = d
  BY DEF Calls
<1>6. [[c EXCEPT !.ran = @ \o names] EXCEPT !.out = "app", !.pc = "unwind"] = e
  BY DEF Calls
<1>7. /\ d.pc = pc /\ d.ran = r /\ d.via = c.via
      /\ d.w = c.w /\ d.failed = c.failed /\ d.given = c.given
      /\ d.box = c.box /\ d.runs = c.runs /\ d.flushed = c.flushed
      /\ d.answers = c.answers /\ d.encode = c.encode /\ d.answer = c.answer
      /\ d.rq = c.rq /\ d.queued = c.queued
  BY DEF Calls
<1>8. /\ e.pc = "unwind" /\ e.ran = r /\ e.via = c.via
      /\ e.w = c.w /\ e.failed = c.failed /\ e.given = c.given
      /\ e.box = c.box /\ e.runs = c.runs /\ e.flushed = c.flushed
      /\ e.answers = c.answers /\ e.encode = c.encode /\ e.answer = c.answer
      /\ e.rq = c.rq /\ e.queued = c.queued
  BY DEF Calls
<1> HIDE DEF d, e
<1>9. RanTo(c, d, pc, r) /\ RanTo(c, e, "unwind", r)
  BY <1>3, <1>4, <1>7, <1>8 DEF RanTo
<1> QED
  BY <1>5, <1>6, <1>9

\* A layer keeps the invariant when its middleware extends the chain to what
\* the next layer expects before it.
LEMMA LayerOK ==
    ASSUME IInv, call.pc \in {"adapter", "server", "group"},
           NEW names \in Seq(Layers), NEW next \in {"invoke", "group", "handler"},
           NEW r \in Seq(Layers), call.ran \o names = r,
           r \in {Outermost(call), ToGroup(call), ToHandler(call)},
           next = "invoke" => server /\ r = Outermost(call) /\ call.pc = "adapter",
           next = "group" => r = ToGroup(call),
           next = "handler" => r = ToHandler(call),
           Layer(names, next),
           UNCHANGED <<regVars, server, mounted, routes, tools>>
    PROVE  IInv'
<1> DEFINE d == [[call EXCEPT !.ran = @ \o names] EXCEPT !.pc = next]
           e == [[call EXCEPT !.ran = @ \o names] EXCEPT !.out = "app",
                                                         !.pc = "unwind"]
<1>1. /\ phase = "serving" /\ call \in Calls /\ Exposed(call)
      /\ ChainInv(call) /\ PrincipalInv(call) /\ CourseInv(call)
      /\ AnswerInv(call) /\ server \in BOOLEAN
  BY LiveCall
<1>2. /\ call.failed = FALSE /\ call.answers = 0 /\ call.encode = "no"
      /\ call.answer = "none"
      /\ call.flushed = 0
      /\ call.pc = "adapter" => call.runs = 0
  BY <1>1 DEF PrincipalInv, AnswerInv, Calls
<1>3. call' = d \/ call' = e
  BY DEF Layer
<1>4. next \in Pcs
  BY DEF Pcs
<1>5. RanTo(call, d, next, r) /\ RanTo(call, e, "unwind", r)
  BY <1>1, <1>4, LayerFields
<1> HIDE DEF d, e
<1>6. CallOK(d)
  <2>1. /\ Exposed(d) /\ Outermost(d) = Outermost(call)
        /\ ToGroup(d) = ToGroup(call) /\ ToHandler(d) = ToHandler(call)
    BY <1>1, <1>5, SameExposed DEF RanTo
  <2>2. d.via # "socket" /\ d.given # "unset" => d.box = d.given /\ d.runs = 0
    BY <1>1, <1>5 DEF CourseInv, RanTo
  <2>3. QueueInv(d)
    BY <1>1, <1>5, RanKeepsQueue DEF CourseInv
  <2> QED
    BY <1>1, <1>2, <1>5, <2>1, <2>2, <2>3, RunningOK DEF RanTo
<1>7. CallOK(e)
  <2>1. /\ Exposed(e) /\ Outermost(e) = Outermost(call)
        /\ ToGroup(e) = ToGroup(call) /\ ToHandler(e) = ToHandler(call)
    BY <1>1, <1>5, SameExposed DEF RanTo
  <2>2. CourseInv(e)
    <3>1. QueueInv(e)
      BY <1>1, <1>5, RanKeepsQueue DEF CourseInv
    <3> QED
      BY <1>1, <1>2, <1>5, <2>1, <3>1 DEF CourseInv, RanTo
  <2>3. AnswerInv(e)
    BY <1>2, <1>5 DEF AnswerInv, RanTo
  <2>4. SameCourse(e, e)
    BY DEF SameCourse
  <2> QED
    BY <1>5, <2>1, <2>2, <2>3, <2>4, LeavingKeeps DEF RanTo
<1> QED
  BY <1>1, <1>3, <1>6, <1>7, CallStep

\* The three layers of the chain, each behind the one before it.
LEMMA LayersStep ==
    ASSUME IInv, AdapterLayer \/ ServerLayer \/ GroupLayer
    PROVE  IInv'
<1>0. call.pc \in {"adapter", "server", "group"}
  BY DEF AdapterLayer, ServerLayer, GroupLayer
<1>1. /\ phase = "serving" /\ call \in Calls /\ Exposed(call)
      /\ ChainInv(call) /\ server \in BOOLEAN
  BY <1>0, LiveCall
<1>2. /\ <<"adapter">> \in Seq(Layers) /\ <<"server">> \in Seq(Layers)
      /\ <<"group">> \in Seq(Layers)
  BY DEF Layers
<1>3. /\ Outermost(call) \in Seq(Layers) /\ ToGroup(call) \in Seq(Layers)
      /\ ToHandler(call) \in Seq(Layers)
  BY ChainTypes
<1>4. CASE AdapterLayer
  <2>1. /\ call.pc = "adapter" /\ call.ran = <<>> /\ call.via = "rest"
        /\ UNCHANGED <<regVars, server, mounted, routes, tools>>
        /\ Layer(<<"adapter">>, IF server THEN "invoke" ELSE "group")
    BY <1>1, <1>4 DEF AdapterLayer, ChainInv
  <2>2. call.ran \o <<"adapter">> = Outermost(call)
    BY <2>1, AdapterExtends
  <2>3. CASE server
    BY <1>2, <1>3, <2>1, <2>2, <2>3, LayerOK
  <2>4. CASE ~server
    <3>1. ToGroup(call) = Outermost(call)
      BY <2>4, ServerExtends
    <3> QED
      BY <1>2, <1>3, <2>1, <2>2, <2>4, <3>1, LayerOK
  <2> QED
    BY <2>3, <2>4
<1>5. CASE ServerLayer
  <2>1. /\ call.pc = "server" /\ call.ran = Outermost(call) /\ server
        /\ UNCHANGED <<regVars, server, mounted, routes, tools>>
        /\ Layer(<<"server">>, "group")
    BY <1>1, <1>5 DEF ServerLayer, ChainInv
  <2>2. call.ran \o <<"server">> = ToGroup(call)
    BY <2>1, ServerExtends
  <2> QED
    BY <1>2, <1>3, <2>1, <2>2, LayerOK
<1>6. CASE GroupLayer
  <2>1. server => GetMiddleware(call.w)
    BY <1>1 DEF Exposed, GetMiddleware
  <2>2. /\ call.pc = "group" /\ call.ran = ToGroup(call)
        /\ UNCHANGED <<regVars, server, mounted, routes, tools>>
        /\ Layer(<<"group">>, "handler")
    BY <1>1, <1>6, <2>1 DEF GroupLayer, ChainInv
  <2>3. call.ran \o <<"group">> = ToHandler(call)
    BY <2>2, HandlerExtends
  <2> QED
    BY <1>2, <1>3, <2>2, <2>3, LayerOK
<1> QED
  BY <1>4, <1>5, <1>6

\* d is the call c, with the outcome o at pc.
Left(c, d, o, pc) ==
    /\ d \in Calls /\ d.pc = pc /\ d.out = o /\ SameCourse(c, d)
    /\ d.queued = c.queued /\ d.flushed = c.flushed
    /\ d.answers = c.answers /\ d.encode = c.encode /\ d.answer = c.answer

\* Leaving with an outcome changes nothing else.
LEMMA LeftFields ==
    ASSUME NEW c \in Calls, NEW o \in Outcomes, NEW pc \in Pcs
    PROVE  Left(c, [c EXCEPT !.out = o, !.pc = pc], o, pc)
<1> DEFINE d == [[c EXCEPT !.out = o] EXCEPT !.pc = pc]
<1>1. [c EXCEPT !.out = o, !.pc = pc] = d
  OBVIOUS
<1>2. [c EXCEPT !.out = o] \in Calls
  BY CallUpdates
<1>3. d \in Calls
  BY <1>2, CallUpdates
<1>4. /\ d.pc = pc /\ d.out = o /\ SameCourse(c, d)
      /\ d.queued = c.queued /\ d.flushed = c.flushed
      /\ d.answers = c.answers /\ d.encode = c.encode /\ d.answer = c.answer
  BY DEF Calls, SameCourse
<1> HIDE DEF d
<1> QED
  BY <1>1, <1>3, <1>4 DEF Left

\* A call that leaves the chain keeps its course.
LEMMA LeftOK ==
    ASSUME NEW c, NEW d, NEW o, NEW pc \in {"unwind", "returned"},
           Left(c, d, o, pc), Exposed(c), CourseInv(c),
           c.answers = 0, c.encode = "no", c.answer = "none", c.flushed = 0
    PROVE  CallOK(d)
<1>1. AnswerInv(d)
  BY DEF Left, AnswerInv
<1> QED
  BY <1>1, LeavingKeeps DEF Left

\* The handler appends itself to the chain, and may queue a trigger.
LEMMA HandlerFields ==
    ASSUME NEW c \in Calls, NEW b \in BOOLEAN, c.ran = ToHandler(c)
    PROVE  LET d == Triggers([c EXCEPT !.ran = Append(@, "handler")], b)
           IN RanTo(c, d, c.pc, Whole(c))
<1> DEFINE m == [c EXCEPT !.ran = Whole(c)]
           q == [m EXCEPT !.queued = TRUE]
<1>1. [c EXCEPT !.ran = Append(@, "handler")] = m
  BY HandlerExtends DEF Calls
<1>2. m \in Calls
  BY ChainTypes, CallUpdates
<1>3. q \in Calls
  BY <1>2, CallUpdates
<1>4. RanTo(c, m, c.pc, Whole(c))
  BY <1>2 DEF Calls, RanTo
<1>5. c.rq # "none" => RanTo(c, q, c.pc, Whole(c))
  BY <1>2, <1>3 DEF Calls, RanTo
<1>6. Triggers(m, b) = m \/ (c.rq # "none" /\ Triggers(m, b) = q)
  BY DEF Triggers, Calls
<1> HIDE DEF m, q
<1> QED
  BY <1>1, <1>4, <1>5, <1>6

\* What runs the handler: its arguments are refused or make it panic, or it
\* returns behind its whole chain.
LEMMA HandlerStep ==
    ASSUME IInv, NEW fault, NEW validator, NEW b \in BOOLEAN,
           HandlerRuns(fault, validator, b)
    PROVE  IInv'
<1> DEFINE c == Triggers([call EXCEPT !.ran = Append(@, "handler")], b)
<1>0. /\ call.pc = "handler"
      /\ UNCHANGED <<regVars, server, mounted, routes, tools>>
  BY DEF HandlerRuns
<1>1. /\ phase = "serving" /\ call \in Calls /\ Exposed(call)
      /\ ChainInv(call) /\ PrincipalInv(call) /\ CourseInv(call)
      /\ AnswerInv(call) /\ server \in BOOLEAN
  BY <1>0, LiveCall
<1>2. /\ call.failed = FALSE /\ call.answers = 0 /\ call.encode = "no"
      /\ call.answer = "none"
      /\ call.flushed = 0 /\ call.ran = ToHandler(call)
  BY <1>0, <1>1 DEF ChainInv, PrincipalInv, AnswerInv, Calls
<1>3. \/ \E o \in Outcomes : call' = [call EXCEPT !.out = o, !.pc = "unwind"]
      \/ \E o \in Outcomes : call' = [c EXCEPT !.out = o, !.pc = "unwind"]
  <2>1. /\ Recovered(call) \in Outcomes /\ "ok" \in Outcomes
        /\ "invalidParams" \in Outcomes /\ "validation" \in Outcomes
        /\ ErrorNames \subseteq Outcomes
    BY DEF Recovered, Outcomes, Errors
  <2> HIDE DEF c
  <2> QED
    BY <2>1 DEF HandlerRuns, c
<1>4. RanTo(call, c, "handler", Whole(call))
  BY <1>0, <1>1, <1>2, HandlerFields
<1>5. "unwind" \in Pcs
  BY DEF Pcs
<1> HIDE DEF c
<1>6. ASSUME NEW o \in Outcomes, call' = [call EXCEPT !.out = o, !.pc = "unwind"]
      PROVE  CallOK(call')
  <2>1. Left(call, call', o, "unwind")
    BY <1>1, <1>5, <1>6, LeftFields
  <2> QED
    BY <1>1, <1>2, <2>1, LeftOK
<1>7. ASSUME NEW o \in Outcomes, call' = [c EXCEPT !.out = o, !.pc = "unwind"]
      PROVE  CallOK(call')
  <2>1. Left(c, call', o, "unwind")
    BY <1>4, <1>5, <1>7, LeftFields DEF RanTo
  <2>2. Exposed(c) /\ Whole(c) = Whole(call)
    BY <1>1, <1>4, SameExposed DEF RanTo
  <2>3. CourseInv(c)
    <3>1. QueueInv(c)
      BY <1>1, <1>4, RanKeepsQueue DEF CourseInv
    <3> QED
      BY <1>1, <1>2, <1>4, <2>2, <3>1 DEF CourseInv, RanTo
  <2> QED
    BY <1>2, <1>4, <2>1, <2>2, <2>3, LeftOK DEF RanTo
<1> QED
  BY <1>0, <1>1, <1>3, <1>6, <1>7, CallStep

\* What leaves the chain.
LEMMA UnwindStep ==
    ASSUME IInv, Unwind
    PROVE  IInv'
<1>0. /\ call.pc = "unwind"
      /\ UNCHANGED <<regVars, server, mounted, routes, tools>>
  BY DEF Unwind
<1>1. /\ phase = "serving" /\ call \in Calls /\ Exposed(call)
      /\ CourseInv(call) /\ AnswerInv(call)
  BY <1>0, LiveCall
<1>2. call.answers = 0 /\ call.encode = "no"
                       /\ call.answer = "none" /\ call.flushed = 0
  BY <1>0, <1>1 DEF AnswerInv
<1>3. \E o \in Outcomes : call' = [call EXCEPT !.out = o, !.pc = "returned"]
  <2>1. /\ call.out \in Outcomes /\ "ok" \in Outcomes /\ "app" \in Outcomes
        /\ Recovered(call) \in Outcomes /\ "escapes" \in Outcomes
    BY <1>1 DEF Calls, Outcomes, Errors, Recovered
  <2> QED
    BY <2>1 DEF Unwind
<1>4. PICK o \in Outcomes : call' = [call EXCEPT !.out = o, !.pc = "returned"]
  BY <1>3
<1>5. "returned" \in Pcs
  BY DEF Pcs
<1>6. Left(call, call', o, "returned")
  BY <1>1, <1>4, <1>5, LeftFields
<1>7. CallOK(call')
  BY <1>1, <1>2, <1>6, LeftOK
<1> QED
  BY <1>0, <1>1, <1>7, CallStep

-----------------------------------------------------------------------------
(* The answer.                                                             *)

\* invoke flushes, on success, the queue that it made itself.
LEMMA InvokeReturnStep ==
    ASSUME IInv, invokeReturn
    PROVE  IInv'
<1> DEFINE owned == call.rq = "own"
           c == IF owned /\ call.out = "ok" THEN Flush(call) ELSE call
           d == [c EXCEPT !.pc = "finish"]
<1>0. /\ call.pc = "returned" /\ call' = d
      /\ UNCHANGED <<regVars, server, mounted, routes, tools>>
  BY DEF invokeReturn
<1>1. /\ phase = "serving" /\ call \in Calls /\ Exposed(call)
      /\ CourseInv(call) /\ AnswerInv(call)
  BY <1>0, LiveCall
<1>2. call.answers = 0 /\ call.encode = "no"
                       /\ call.answer = "none" /\ call.flushed = 0
  BY <1>0, <1>1 DEF AnswerInv
<1>3. /\ c \in Calls /\ SameCourse(call, c) /\ c.queued = call.queued
      /\ c.out = call.out /\ c.answers = 0 /\ c.encode = "no" /\ c.answer = "none"
      /\ c.flushed = IF owned /\ c.out = "ok" /\ c.queued THEN 1 ELSE 0
  <2>1. CASE owned /\ call.out = "ok"
    <3>1. /\ Flush(call) \in Calls /\ SameCourse(call, Flush(call))
          /\ Flush(call).flushed = IF call.queued THEN 1 ELSE 0
          /\ Flush(call).queued = call.queued /\ Flush(call).out = call.out
          /\ Flush(call).answers = call.answers
          /\ Flush(call).encode = call.encode
          /\ Flush(call).answer = call.answer
      BY <1>1, <1>2, FlushFields
    <3>2. c = Flush(call)
      BY <2>1
    <3> QED
      BY <1>2, <2>1, <3>1, <3>2
  <2>2. CASE ~(owned /\ call.out = "ok")
    <3>1. c = call
      BY <2>2
    <3> QED
      BY <1>1, <1>2, <2>2, <3>1 DEF SameCourse
  <2> QED
    BY <2>1, <2>2
<1> HIDE DEF c
<1>4. "finish" \in Pcs
  BY DEF Pcs
<1>5. Moved(c, d, "finish")
  BY <1>3, <1>4, MoveFields
<1> HIDE DEF d
<1>6. SameCourse(call, d)
  BY <1>3, <1>5 DEF Moved, SameCourse
<1>7. AnswerInv(d)
  BY <1>3, <1>5, <1>6 DEF Moved, AnswerInv, SameCourse
<1>8. CallOK(d)
  BY <1>1, <1>5, <1>6, <1>7, LeavingKeeps DEF Moved
<1> QED
  BY <1>0, <1>1, <1>8, CallStep

\* A call that waits for its answer.
LEMMA FinishingCall ==
    ASSUME IInv, call.pc = "finish"
    PROVE  /\ phase = "serving" /\ call \in Calls /\ Exposed(call)
           /\ CourseInv(call) /\ call.answers = 0 /\ call.encode = "no"
           /\ call.answer = "none"
           /\ call.out \in Outcomes
           /\ call.flushed =
                IF call.rq = "own" /\ call.out = "ok" /\ call.queued
                THEN 1 ELSE 0
           /\ call.via = "socket" => call.rq = "call"
           /\ call.via = "rest" => call.rq \in {"call", "none"}
           /\ call.via = "mcp" => call.rq \in {"none", "own"}
           /\ call.via = "invoke" => call.rq \in {"none", "outer", "own"}
           /\ call.queued => call.rq # "none"
BY LiveCall DEF AnswerInv, CourseInv, QueueInv, Calls

\* The codes of errors: those of a chain, or internal.
LEMMA ErrorCodes ==
    ASSUME NEW o \in Outcomes
    PROVE  /\ o \in Codes /\ errorCode(o) \in Codes
           /\ o # "ok" => errorCode(o) # "ok"
BY DEF Outcomes, Codes, Errors, errorCode

\* The socket's answer to a result, whatever becomes of its encoding.
LEMMA SendResponseOK ==
    ASSUME NEW c \in Calls, NEW e \in {"ok", "fail", "panic"}, Exposed(c),
           CourseInv(c), c.answers = 0, c.flushed = 0, c.via = "socket"
    PROVE  CallOK(sendResponse(c, e))
<1> DEFINE m == [c EXCEPT !.encode = e]
<1>1. m \in Calls
  BY CallUpdates DEF Encodings
<1>2. /\ SameCourse(c, m) /\ m.encode = e /\ m.answers = 0 /\ m.flushed = 0
      /\ m.queued = c.queued
  BY DEF Calls, SameCourse
<1>3. "ok" \in Codes /\ "internal" \in Codes
  BY DEF Codes, Errors
<1> HIDE DEF m
<1>4. ASSUME NEW code \in Codes
      PROVE  /\ Reported(m, code) \in Calls /\ Reported(m, code).answers = 1
             /\ Reported(m, code).answer = code
             /\ Reported(m, code).reported = code
             /\ Reported(m, code).pc = "done" /\ Reported(m, code).encode = e
             /\ Reported(m, code).queued = c.queued
             /\ Reported(m, code).flushed = 0 /\ SameCourse(c, Reported(m, code))
  <2>1. /\ Reported(m, code) \in Calls /\ Reported(m, code).answers = 1
        /\ Reported(m, code).answer = code /\ Reported(m, code).reported = code
        /\ Reported(m, code).pc = "done" /\ Reported(m, code).encode = m.encode
        /\ Reported(m, code).queued = m.queued
        /\ Reported(m, code).flushed = m.flushed /\ SameCourse(m, Reported(m, code))
    BY <1>1, <1>2, AnsweredFields
  <2> QED
    BY <1>2, <2>1 DEF SameCourse
<1>5. CASE e = "ok"
  <2> DEFINE r == Reported(m, "ok")
             d == Flush(r)
  <2>1. sendResponse(c, e) = d
    BY <1>5 DEF sendResponse, m
  <2>2. /\ r \in Calls /\ r.answers = 1 /\ r.answer = "ok" /\ r.reported = "ok"
        /\ r.pc = "done" /\ r.encode = e /\ r.queued = c.queued
        /\ r.flushed = 0 /\ SameCourse(c, r)
    BY <1>3, <1>4
  <2> HIDE DEF r
  <2>3. /\ d \in Calls /\ SameCourse(r, d)
        /\ d.flushed = IF r.queued THEN 1 ELSE 0
        /\ d.queued = r.queued /\ d.pc = r.pc /\ d.answers = r.answers
        /\ d.answer = r.answer /\ d.reported = r.reported /\ d.encode = r.encode
    BY <2>2, FlushFields
  <2> HIDE DEF d
  <2>4. SameCourse(c, d)
    BY <2>2, <2>3 DEF SameCourse
  <2>5. AnswerInv(d)
    BY <1>5, <2>2, <2>3, <2>4 DEF AnswerInv, SameCourse, CourseInv, QueueInv
  <2> QED
    BY <2>1, <2>2, <2>3, <2>4, <2>5, LeavingKeeps
<1>6. CASE e = "fail"
  <2> DEFINE i == Reported(m, "internal")
             r == [i EXCEPT !.reported = "ok"]
             d == Flush(r)
  <2>1. sendResponse(c, e) = d
    BY <1>6 DEF sendResponse, m
  <2>2. /\ i \in Calls /\ i.answers = 1 /\ i.answer = "internal"
        /\ i.pc = "done" /\ i.encode = e /\ i.queued = c.queued
        /\ i.flushed = 0 /\ SameCourse(c, i)
    BY <1>3, <1>4
  <2> HIDE DEF i
  <2>3. r \in Calls
    BY <1>3, <2>2, CallUpdates
  <2>4. /\ r.answers = 1 /\ r.answer = "internal" /\ r.reported = "ok"
        /\ r.pc = "done" /\ r.encode = e /\ r.queued = c.queued
        /\ r.flushed = 0 /\ SameCourse(c, r)
    BY <2>2 DEF Calls, SameCourse
  <2> HIDE DEF r
  <2>5. /\ d \in Calls /\ SameCourse(r, d)
        /\ d.flushed = IF r.queued THEN 1 ELSE 0
        /\ d.queued = r.queued /\ d.pc = r.pc /\ d.answers = r.answers
        /\ d.answer = r.answer /\ d.reported = r.reported /\ d.encode = r.encode
    BY <2>3, <2>4, FlushFields
  <2> HIDE DEF d
  <2>6. SameCourse(c, d)
    BY <2>4, <2>5 DEF SameCourse
  <2>7. AnswerInv(d)
    BY <1>6, <2>4, <2>5, <2>6 DEF AnswerInv, SameCourse, CourseInv, QueueInv
  <2> QED
    BY <2>1, <2>4, <2>5, <2>6, <2>7, LeavingKeeps
<1>7. CASE e = "panic"
  <2> DEFINE d == Reported(m, "internal")
  <2>1. sendResponse(c, e) = d
    BY <1>7 DEF sendResponse, m
  <2>2. /\ d \in Calls /\ d.answers = 1 /\ d.answer = "internal"
        /\ d.reported = "internal" /\ d.pc = "done" /\ d.encode = e
        /\ d.queued = c.queued /\ d.flushed = 0 /\ SameCourse(c, d)
    BY <1>3, <1>4
  <2> HIDE DEF d
  <2>3. AnswerInv(d)
    BY <1>7, <2>2 DEF AnswerInv, SameCourse, CourseInv, QueueInv
  <2> QED
    BY <2>1, <2>2, <2>3, LeavingKeeps
<1> QED
  BY <1>5, <1>6, <1>7

\* The socket's answer to a stream: flushed however the iteration ended.
LEMMA StreamAnswerOK ==
    ASSUME NEW c \in Calls, NEW code \in Codes, Exposed(c), CourseInv(c),
           c.answers = 0, c.flushed = 0, c.encode = "no", c.via = "socket",
           ~Unary(c.w)
    PROVE  CallOK(Flush(Reported(c, code)))
<1> DEFINE r == Reported(c, code)
           d == Flush(r)
<1>1. /\ r \in Calls /\ r.answers = 1 /\ r.answer = code /\ r.reported = code
      /\ r.pc = "done" /\ r.encode = "no" /\ r.queued = c.queued
      /\ r.flushed = 0 /\ SameCourse(c, r)
  BY AnsweredFields
<1> HIDE DEF r
<1>2. /\ d \in Calls /\ SameCourse(r, d)
      /\ d.flushed = IF r.queued THEN 1 ELSE 0
      /\ d.queued = r.queued /\ d.pc = r.pc /\ d.answers = r.answers
      /\ d.answer = r.answer /\ d.reported = r.reported /\ d.encode = r.encode
  BY <1>1, FlushFields
<1> HIDE DEF d
<1>3. SameCourse(c, d)
  BY <1>1, <1>2 DEF SameCourse
<1>4. AnswerInv(d)
  BY <1>1, <1>2, <1>3 DEF AnswerInv, SameCourse, CourseInv, QueueInv
<1> QED
  BY <1>1, <1>2, <1>3, <1>4, LeavingKeeps DEF r, d

\* handleRequest's answer.
LEMMA SocketAnswerStep ==
    ASSUME IInv, NEW e \in {"ok", "fail", "panic"}, NEW cancelled \in BOOLEAN,
           SocketAnswer(e, cancelled)
    PROVE  IInv'
<1>0. /\ call.pc = "finish" /\ call.via = "socket"
      /\ UNCHANGED <<regVars, server, mounted, routes, tools>>
  BY DEF SocketAnswer
<1>1. /\ phase = "serving" /\ call \in Calls /\ Exposed(call)
      /\ CourseInv(call) /\ call.answers = 0 /\ call.encode = "no"
      /\ call.answer = "none"
      /\ call.out \in Outcomes /\ call.flushed = 0
  BY <1>0, FinishingCall
<1>2. "ok" \in Codes /\ "internal" \in Codes /\ "canceled" \in Codes
  BY DEF Codes, Errors
<1>3. ASSUME NEW code \in Codes, code # "ok" PROVE CallOK(Reported(call, code))
  BY <1>0, <1>1, <1>3, ReportedOK
<1>4. CASE call.out = "escapes"
  <2>1. call' = Reported(call, "internal")
    BY <1>4 DEF SocketAnswer
  <2> QED
    BY <1>0, <1>1, <1>2, <1>3, <2>1, CallStep
<1>5. CASE call.out # "escapes" /\ cancelled
  <2>1. call' = Reported(call, "canceled")
    BY <1>5 DEF SocketAnswer
  <2> QED
    BY <1>0, <1>1, <1>2, <1>3, <2>1, CallStep
<1>6. CASE call.out # "escapes" /\ ~cancelled /\ call.out # "ok"
  <2>1. call' = Reported(call, errorCode(call.out))
    BY <1>6 DEF SocketAnswer, sendErrorFor
  <2>2. errorCode(call.out) \in Codes /\ errorCode(call.out) # "ok"
    BY <1>1, <1>6, ErrorCodes
  <2> QED
    BY <1>0, <1>1, <1>3, <2>1, <2>2, CallStep
<1>7. CASE ~cancelled /\ call.out = "ok" /\ Unary(call.w)
  <2>1. call' = sendResponse(call, e)
    BY <1>7 DEF SocketAnswer
  <2>2. CallOK(sendResponse(call, e))
    BY <1>0, <1>1, SendResponseOK
  <2> QED
    BY <1>0, <1>1, <2>1, <2>2, CallStep
<1>8. CASE ~cancelled /\ call.out = "ok" /\ ~Unary(call.w)
  <2> DEFINE code == IF e = "ok" THEN "ok" ELSE "internal"
  <2>1. call' = Flush(Reported(call, code))
    BY <1>8 DEF SocketAnswer
  <2>2. code \in Codes
    BY <1>2
  <2> HIDE DEF code
  <2>3. CallOK(Flush(Reported(call, code)))
    BY <1>0, <1>1, <1>8, <2>2, StreamAnswerOK
  <2> QED
    BY <1>0, <1>1, <2>1, <2>3, CallStep
<1> QED
  BY <1>4, <1>5, <1>6, <1>7, <1>8

\* A panic that escapes leaves a request-scoped caller without an answer.
LEMMA EscapesOK ==
    ASSUME NEW c \in Calls, Exposed(c), CourseInv(c), c.out = "escapes",
           c.via # "socket", c.answers = 0, c.answer = "none", c.flushed = 0,
           c.rq # "outer"
    PROVE  CallOK([c EXCEPT !.pc = "done"])
<1> DEFINE d == [c EXCEPT !.pc = "done"]
<1>1. "done" \in Pcs
  BY DEF Pcs
<1>2. Moved(c, d, "done")
  BY <1>1, MoveFields
<1> HIDE DEF d
<1>3. AnswerInv(d)
  BY <1>2 DEF Moved, AnswerInv, SameCourse
<1> QED
  BY <1>2, <1>3, LeavingKeeps DEF Moved, d

\* A result over REST: its triggers are flushed whether it encodes or not.
LEMMA FlushedAnswerOK ==
    ASSUME NEW c \in Calls, NEW code \in Codes, Exposed(c), CourseInv(c),
           c.answers = 0, c.flushed = 0, c.via = "rest", c.out # "escapes",
           code = "ok" \/ c.encode # "no"
    PROVE  CallOK(Flush(Answered(c, code)))
<1> DEFINE r == Answered(c, code)
           d == Flush(r)
<1>1. /\ r \in Calls /\ r.answers = 1 /\ r.answer = code /\ r.pc = "done"
      /\ r.encode = c.encode /\ r.queued = c.queued /\ r.flushed = 0
      /\ r.out = c.out /\ SameCourse(c, r)
  BY AnsweredFields
<1> HIDE DEF r
<1>2. /\ d \in Calls /\ SameCourse(r, d)
      /\ d.flushed = IF r.queued THEN 1 ELSE 0
      /\ d.queued = r.queued /\ d.pc = r.pc /\ d.answers = r.answers
      /\ d.answer = r.answer /\ d.encode = r.encode /\ d.out = r.out
  BY <1>1, FlushFields
<1> HIDE DEF d
<1>3. SameCourse(c, d)
  BY <1>1, <1>2 DEF SameCourse
<1>4. AnswerInv(d)
  BY <1>1, <1>2, <1>3 DEF AnswerInv, SameCourse, CourseInv, QueueInv
<1> QED
  BY <1>1, <1>2, <1>3, <1>4, LeavingKeeps DEF r, d

\* Noting how a result encodes changes nothing else.
LEMMA EncodeFields ==
    ASSUME NEW c \in Calls, NEW e \in {"ok", "fail", "panic"}
    PROVE  /\ [c EXCEPT !.encode = e] \in Calls
           /\ SameCourse(c, [c EXCEPT !.encode = e])
           /\ [c EXCEPT !.encode = e].encode = e
           /\ [c EXCEPT !.encode = e].answers = c.answers
           /\ [c EXCEPT !.encode = e].flushed = c.flushed
           /\ [c EXCEPT !.encode = e].queued = c.queued
           /\ [c EXCEPT !.encode = e].out = c.out
<1>1. [c EXCEPT !.encode = e] \in Calls
  BY CallUpdates DEF Encodings
<1> QED
  BY <1>1 DEF Calls, SameCourse

\* A call whose encoding was noted keeps its course.
LEMMA EncodeKeeps ==
    ASSUME NEW c, NEW d, SameCourse(c, d), Exposed(c), CourseInv(c)
    PROVE  Exposed(d) /\ CourseInv(d)
BY SameExposed DEF SameCourse, CourseInv, QueueInv

\* RESTAdapter.handleRequest's answer.
LEMMA RESTAnswerStep ==
    ASSUME IInv, NEW e \in {"ok", "fail", "panic"}, RESTAnswer(e)
    PROVE  IInv'
<1>0. /\ call.pc = "finish" /\ call.via = "rest"
      /\ UNCHANGED <<regVars, server, mounted, routes, tools>>
  BY DEF RESTAnswer
<1>1. /\ phase = "serving" /\ call \in Calls /\ Exposed(call)
      /\ CourseInv(call) /\ call.answers = 0 /\ call.encode = "no"
      /\ call.answer = "none" /\ call.out \in Outcomes /\ call.flushed = 0
      /\ call.rq # "outer"
  BY <1>0, FinishingCall
<1>2. "ok" \in Codes /\ "internal" \in Codes
  BY DEF Codes, Errors
<1>3. CASE call.out = "escapes"
  <2>1. call' = [call EXCEPT !.pc = "done"]
    BY <1>3 DEF RESTAnswer
  <2>2. CallOK([call EXCEPT !.pc = "done"])
    BY <1>0, <1>1, <1>3, EscapesOK
  <2> QED
    BY <1>0, <1>1, <2>1, <2>2, CallStep
<1>4. CASE call.out # "escapes" /\ call.out # "ok"
  <2>1. call' = Answered(call, errorCode(call.out))
    BY <1>4 DEF RESTAnswer
  <2>2. errorCode(call.out) \in Codes /\ errorCode(call.out) # "ok"
    BY <1>1, <1>4, ErrorCodes
  <2>3. CallOK(Answered(call, errorCode(call.out)))
    BY <1>0, <1>1, <1>4, <2>2, AnsweredOK
  <2> QED
    BY <1>0, <1>1, <2>1, <2>3, CallStep
<1>5. CASE call.out = "ok" /\ (KindOf(call.w) = "void" \/ e = "ok")
  <2>1. call' = Flush(Answered(call, "ok"))
    BY <1>5 DEF RESTAnswer
  <2>2. CallOK(Flush(Answered(call, "ok")))
    BY <1>0, <1>1, <1>2, <1>5, FlushedAnswerOK
  <2> QED
    BY <1>0, <1>1, <2>1, <2>2, CallStep
<1>6. CASE call.out = "ok" /\ ~(KindOf(call.w) = "void" \/ e = "ok")
  <2> DEFINE m == [call EXCEPT !.encode = e]
  <2>1. call' = Flush(Answered(m, "internal"))
    BY <1>6 DEF RESTAnswer
  <2>2. /\ m \in Calls /\ SameCourse(call, m) /\ m.encode = e
        /\ m.answers = call.answers /\ m.flushed = call.flushed
        /\ m.out = call.out
    BY <1>1, EncodeFields
  <2> HIDE DEF m
  <2>3. Exposed(m) /\ CourseInv(m)
    BY <1>1, <2>2, EncodeKeeps
  <2>4. m.via = "rest" /\ m.encode # "no"
    BY <1>0, <2>2 DEF SameCourse
  <2>5. CallOK(Flush(Answered(m, "internal")))
    BY <1>1, <1>2, <1>6, <2>2, <2>3, <2>4, FlushedAnswerOK
  <2> QED
    BY <1>0, <1>1, <2>1, <2>5, CallStep
<1> QED
  BY <1>3, <1>4, <1>5, <1>6

\* callTool's answer; invoke has flushed by then.
LEMMA MCPAnswerStep ==
    ASSUME IInv, NEW e \in {"ok", "fail", "panic"}, MCPAnswer(e)
    PROVE  IInv'
<1>0. /\ call.pc = "finish" /\ call.via = "mcp"
      /\ UNCHANGED <<regVars, server, mounted, routes, tools>>
  BY DEF MCPAnswer
<1>1. /\ phase = "serving" /\ call \in Calls /\ Exposed(call)
      /\ CourseInv(call) /\ call.answers = 0 /\ call.encode = "no"
      /\ call.answer = "none" /\ call.out \in Outcomes
      /\ call.flushed = IF call.out = "ok" /\ call.queued THEN 1 ELSE 0
      /\ call.rq # "outer"
  BY <1>0, FinishingCall
<1>2. /\ "ok" \in Codes /\ "isError" \in Codes /\ "rpcInvalid" \in Codes
      /\ "rpcInternal" \in Codes
  BY DEF Codes
<1>3. CASE call.out = "escapes"
  <2>1. call' = [call EXCEPT !.pc = "done"]
    BY <1>3 DEF MCPAnswer
  <2>2. CallOK([call EXCEPT !.pc = "done"])
    BY <1>0, <1>1, <1>3, EscapesOK
  <2> QED
    BY <1>0, <1>1, <2>1, <2>2, CallStep
<1>4. CASE call.out # "escapes" /\ call.out # "ok"
  <2>1. \E code \in {"rpcInvalid", "isError"} : call' = Answered(call, code)
    BY <1>4 DEF MCPAnswer
  <2>2. PICK code \in {"rpcInvalid", "isError"} : call' = Answered(call, code)
    BY <2>1
  <2>3. CallOK(Answered(call, code))
    BY <1>0, <1>1, <1>2, <1>4, AnsweredOK
  <2> QED
    BY <1>0, <1>1, <2>2, <2>3, CallStep
<1>5. CASE call.out = "ok" /\ (KindOf(call.w) = "void" \/ e = "ok")
  <2>1. call' = Answered(call, "ok")
    BY <1>5 DEF MCPAnswer
  <2>2. CallOK(Answered(call, "ok"))
    BY <1>0, <1>1, <1>2, <1>5, AnsweredOK
  <2> QED
    BY <1>0, <1>1, <2>1, <2>2, CallStep
<1>6. CASE call.out = "ok" /\ ~(KindOf(call.w) = "void" \/ e = "ok")
  <2> DEFINE m == [call EXCEPT !.encode = e]
             code == IF e = "fail" THEN "isError" ELSE "rpcInternal"
  <2>1. call' = Answered(m, code)
    BY <1>6 DEF MCPAnswer
  <2>2. /\ m \in Calls /\ SameCourse(call, m) /\ m.encode = e
        /\ m.answers = call.answers /\ m.flushed = call.flushed
        /\ m.out = call.out
    BY <1>1, EncodeFields
  <2>3. code \in Codes /\ code # "ok"
    BY <1>2
  <2> HIDE DEF m, code
  <2>4. Exposed(m) /\ CourseInv(m)
    BY <1>1, <2>2, EncodeKeeps
  <2>5. m.via # "socket" /\ m.encode # "no" /\ m.rq # "outer"
    BY <1>0, <1>1, <2>2 DEF SameCourse
  <2>6. CallOK(Answered(m, code))
    BY <1>1, <1>6, <2>2, <2>3, <2>4, <2>5, AnsweredOK
  <2> QED
    BY <1>0, <1>1, <2>1, <2>6, CallStep
<1> QED
  BY <1>3, <1>4, <1>5, <1>6

\* What Invoke returns to the program, or to a handler that goes on with the
\* triggers in its own queue.
LEMMA InProcessReturnsStep ==
    ASSUME IInv, InProcessReturns
    PROVE  IInv'
<1>0. /\ call.pc = "finish" /\ call.via = "invoke"
      /\ UNCHANGED <<regVars, server, mounted, routes, tools>>
  BY DEF InProcessReturns
<1>1. /\ phase = "serving" /\ call \in Calls /\ Exposed(call)
      /\ CourseInv(call) /\ call.answers = 0 /\ call.encode = "no"
      /\ call.answer = "none" /\ call.out \in Outcomes
      /\ call.flushed =
           IF call.rq = "own" /\ call.out = "ok" /\ call.queued THEN 1 ELSE 0
      /\ call.queued => call.rq \in {"outer", "own"}
  BY <1>0, FinishingCall
<1>2. call.out \in Codes /\ "outer" \in Pcs /\ "done" \in Pcs
  BY <1>1, ErrorCodes DEF Pcs
<1>3. CASE call.rq = "outer"
  <2> DEFINE c == IF call.out = "escapes" THEN call ELSE Answered(call, call.out)
             d == [c EXCEPT !.pc = "outer"]
  <2>1. call' = d
    BY <1>3 DEF InProcessReturns
  <2>2. /\ c \in Calls /\ SameCourse(call, c) /\ c.encode = "no" /\ c.flushed = 0
        /\ c.out = call.out
        /\ c.answers = IF call.out = "escapes" THEN 0 ELSE 1
    <3>1. CASE call.out = "escapes"
      BY <1>1, <1>3, <3>1 DEF SameCourse
    <3>2. CASE call.out # "escapes"
      BY <1>1, <1>2, <1>3, <3>2, AnsweredFields
    <3> QED
      BY <3>1, <3>2
  <2> HIDE DEF c
  <2>3. Moved(c, d, "outer")
    BY <1>2, <2>2, MoveFields
  <2> HIDE DEF d
  <2>4. SameCourse(call, d)
    BY <2>2, <2>3 DEF Moved, SameCourse
  <2>5. AnswerInv(d)
    BY <1>0, <1>3, <2>2, <2>3, <2>4 DEF Moved, AnswerInv, SameCourse
  <2>6. CallOK(d)
    BY <1>1, <2>3, <2>4, <2>5, LeavingKeeps DEF Moved
  <2> QED
    BY <1>0, <1>1, <2>1, <2>6, CallStep
<1>4. CASE call.rq # "outer" /\ call.out = "escapes"
  <2>1. call' = [call EXCEPT !.pc = "done"]
    BY <1>4 DEF InProcessReturns
  <2>2. CallOK([call EXCEPT !.pc = "done"])
    BY <1>0, <1>1, <1>4, EscapesOK
  <2> QED
    BY <1>0, <1>1, <2>1, <2>2, CallStep
<1>5. CASE call.rq # "outer" /\ call.out # "escapes"
  <2>1. call' = Answered(call, call.out)
    <3>1. [Answered(call, call.out) EXCEPT !.pc = "done"] = Answered(call, call.out)
      BY <1>1 DEF Answered, Calls
    <3> QED
      BY <1>5, <3>1 DEF InProcessReturns
  <2>2. CallOK(Answered(call, call.out))
    BY <1>0, <1>1, <1>2, <1>5, AnsweredOK
  <2> QED
    BY <1>0, <1>1, <2>1, <2>2, CallStep
<1> QED
  BY <1>3, <1>4, <1>5

\* The outer call ends and decides about the triggers.
LEMMA OuterReturnsStep ==
    ASSUME IInv, NEW o \in {"ok", "fails"}, OuterReturns(o)
    PROVE  IInv'
<1> DEFINE c == IF o = "ok" THEN Flush(call) ELSE call
           d == [[c EXCEPT !.outer = o] EXCEPT !.pc = "done"]
<1>0. /\ call.pc = "outer" /\ call' = d
      /\ UNCHANGED <<regVars, server, mounted, routes, tools>>
  BY DEF OuterReturns
<1>1. /\ phase = "serving" /\ call \in Calls /\ Exposed(call)
      /\ CourseInv(call) /\ AnswerInv(call)
  BY <1>0, LiveCall
<1>2. /\ call.encode = "no" /\ call.flushed = 0 /\ call.via = "invoke"
      /\ call.rq = "outer"
      /\ call.answers = IF call.out = "escapes" THEN 0 ELSE 1
  BY <1>0, <1>1 DEF AnswerInv
<1>3. /\ c \in Calls /\ SameCourse(call, c) /\ c.out = call.out
      /\ c.answers = call.answers
      /\ c.queued => (c.flushed = 1 <=> o = "ok")
  <2>1. CASE o = "ok"
    BY <1>1, <1>2, <2>1, FlushFields
  <2>2. CASE o = "fails"
    BY <1>1, <1>2, <2>2 DEF SameCourse
  <2> QED
    BY <2>1, <2>2
<1> HIDE DEF c
<1>4. [c EXCEPT !.outer = o] \in Calls /\ "done" \in Pcs
  BY <1>3, CallUpdates DEF Pcs
<1>5. d \in Calls
  BY <1>4, CallUpdates
<1>6. /\ SameCourse(c, d) /\ d.pc = "done" /\ d.out = c.out
      /\ d.answers = c.answers /\ d.flushed = c.flushed /\ d.outer = o
  BY <1>3 DEF Calls, SameCourse
<1> HIDE DEF d
<1>7. SameCourse(call, d)
  BY <1>3, <1>6 DEF SameCourse
<1>8. AnswerInv(d)
  BY <1>2, <1>3, <1>6, <1>7 DEF AnswerInv, SameCourse
<1>9. CallOK(d)
  BY <1>1, <1>5, <1>6, <1>7, <1>8, LeavingKeeps
<1> QED
  BY <1>0, <1>1, <1>9, CallStep

-----------------------------------------------------------------------------
(* The theorems.                                                           *)

\* IInv is inductive.
LEMMA IInvStep ==
    ASSUME IInv, [iNext]_iVars
    PROVE  IInv'
<1>1. CASE RegNext /\ UNCHANGED invVars
  BY <1>1, RegistryStep
<1>2. CASE Generator /\ Finished /\ UNCHANGED invVars
  BY <1>2, GeneratorStep
<1>3. CASE UNCHANGED iVars
  <2>1. RegInv'
    BY <1>3 DEF IInv, RegInv, RegTypeOK, NoStreamHandlers, iVars, regVars
  <2>2. SetupInv'
    BY <1>3 DEF IInv, SetupInv, iVars, regVars, invVars
  <2>3. CASE call = Idle
    BY <1>3, <2>1, <2>2, <2>3 DEF IInv, CallInv, iVars, invVars, Idle
  <2>4. CASE call # Idle
    <3>1. phase = "serving" /\ CallOK(call')
      BY <1>3, <2>4 DEF IInv, CallInv, iVars, invVars
    <3> QED
      BY <1>3, <3>1, CallStep DEF iVars, invVars
  <2> QED
    BY <2>3, <2>4
<1>4. CASE InvNext
  <2>1. CASE NewServer \/ NewRESTAdapter \/ NewMCPAdapter \/ Serve
    BY <2>1, SetupStep
  <2>2. ASSUME NEW w \in WireMethods, NEW full \in BOOLEAN, NEW id \in Identities,
               \/ SocketRequest(w, full, id[1])
               \/ \E b \in BOOLEAN : RESTRequest(w, full, b, id[1], id[2])
               \/ MCPRequest(w, full, id[1], id[2])
               \/ \E b \in BOOLEAN : InProcess(w, full, id[1], id[2], b)
        PROVE  IInv'
    <3>1. id[1] \in Boxes /\ id[2] \in BOOLEAN
      <4>1. CASE id = <<"unset", FALSE>>
        BY <4>1 DEF Boxes
      <4>2. CASE id = <<"unset", TRUE>>
        BY <4>2 DEF Boxes
      <4>3. CASE id = <<"nil", TRUE>>
        BY <4>3 DEF Boxes
      <4>4. CASE id = <<"wrapper", TRUE>>
        BY <4>4 DEF Boxes
      <4> QED
        BY <4>1, <4>2, <4>3, <4>4 DEF Identities
    <3> QED
      BY <2>2, <3>1, SocketRequestStep, RESTRequestStep, MCPRequestStep,
         InProcessStep
  <2>3. ASSUME NEW p \in Providers, NEW b \in BOOLEAN, SocketPrincipal(p, b)
        PROVE  IInv'
    BY <2>3, SocketPrincipalStep
  <2>4. ASSUME NEW p \in Providers, invokeEntry(p) PROVE IInv'
    BY <2>4, InvokeEntryStep
  <2>5. CASE AdapterLayer \/ ServerLayer \/ GroupLayer
    BY <2>5, LayersStep
  <2>6. ASSUME NEW f, NEW v, NEW b \in BOOLEAN, HandlerRuns(f, v, b)
        PROVE  IInv'
    BY <2>6, HandlerStep
  <2>7. CASE Unwind
    BY <2>7, UnwindStep
  <2>8. CASE invokeReturn
    BY <2>8, InvokeReturnStep
  <2>9. ASSUME NEW e \in {"ok", "fail", "panic"},
               \/ \E b \in BOOLEAN : SocketAnswer(e, b)
               \/ RESTAnswer(e) \/ MCPAnswer(e)
        PROVE  IInv'
    BY <2>9, SocketAnswerStep, RESTAnswerStep, MCPAnswerStep
  <2>10. CASE InProcessReturns
    BY <2>10, InProcessReturnsStep
  <2>11. ASSUME NEW o \in {"ok", "fails"}, OuterReturns(o) PROVE IInv'
    BY <2>11, OuterReturnsStep
  <2> QED
    BY <1>4, <2>1, <2>2, <2>3, <2>4, <2>5, <2>6, <2>7, <2>8, <2>9, <2>10,
       <2>11 DEF InvNext
<1> QED
  BY <1>1, <1>2, <1>3, <1>4 DEF iNext

\* The invariant holds in every state of the registry, the server and a call.
THEOREM CallInvariant == InvSpec => []IInv
<1>1. RegInit /\ InvInit => IInv
  BY RegInvInit DEF InvInit, IInv, SetupInv, CallInv
<1>2. IInv /\ [iNext]_iVars => IInv'
  BY IInvStep
<1> QED
  BY <1>1, <1>2, PTL DEF InvSpec, iNext, iVars

\* A handler runs only for the callers that its registration exposes it to
\* (Register, RegisterREST and EnableREST, EnableMCP), as the principal they
\* were given, and behind the whole chain of its middleware in order, for
\* every set of structs and signatures and every sequence of registrations.
THEOREM HandlersAreGuarded == InvSpec => []HandlerGuarded
<1>1. IInv => HandlerGuarded
  <2> SUFFICES ASSUME IInv PROVE HandlerGuarded
    OBVIOUS
  <2>1. CASE call = Idle
    <3>1. call.pc = "idle"
      BY <2>1 DEF Idle
    <3> QED
      BY <3>1 DEF HandlerGuarded, InvTypeOK, MiddlewareNeverBypassed,
                  ExposedWhereRegistered, PrincipalResolvedOnce, Ran, IInv,
                  RegInv, SetupInv, RegTypeOK
  <2>2. CASE call # Idle
    <3>1. CallOK(call)
      BY <2>2 DEF IInv, CallInv
    <3>2. call \in Calls /\ CourseInv(call) /\ server \in BOOLEAN
      BY <3>1 DEF CallOK, IInv, SetupInv
    <3>3. call.pc # "idle"
      BY <3>2 DEF Calls, Pcs
    <3>4. InvTypeOK
      BY <3>2 DEF InvTypeOK, IInv, RegInv, RegTypeOK, SetupInv, Calls, Outcomes
    <3>5. Ran("handler") => call.ran = Whole(call)
      BY <3>2, ChainContents DEF CourseInv, Ran, Has
    <3>6. MiddlewareNeverBypassed
      BY <3>5 DEF MiddlewareNeverBypassed, Whole, ToGroup, Outermost
    <3>7. Ran("handler") => Exposed(call)
      BY <3>1, ChainContents DEF CallOK, Ran, Has
    <3>8. ExposedWhereRegistered
      BY <3>7 DEF ExposedWhereRegistered, Exposed
    <3>9. call.failed => ~Ran("server") /\ ~Ran("handler")
      BY <3>2, ChainContents DEF CourseInv, Ran, Has
    <3>10. PrincipalResolvedOnce
      BY <3>2, <3>9 DEF PrincipalResolvedOnce, CourseInv, Calls
    <3> QED
      BY <3>4, <3>6, <3>8, <3>10 DEF HandlerGuarded
  <2> QED
    BY <2>1, <2>2
<1> QED
  BY <1>1, CallInvariant, PTL

\* Every call is answered exactly once unless a panic escapes it, the observer
\* hears what the socket's client receives, and refresh triggers are flushed
\* once with a success and dropped with an error, except those of a nested
\* Server.Invoke, which follow the outcome of the outer call.
THEOREM OutcomeIsConsistent == InvSpec => []OutcomeConsistent
<1>1. IInv => OutcomeConsistent
  <2> SUFFICES ASSUME IInv PROVE OutcomeConsistent
    OBVIOUS
  <2>1. CASE call = Idle
    <3>1. call.pc = "idle"
      BY <2>1 DEF Idle
    <3> QED
      BY <3>1 DEF OutcomeConsistent, AnsweredOnce, ObserverHearsTheAnswer,
                  TriggersFollowTheAnswer, Done
  <2>2. CASE call # Idle
    <3>1. call \in Calls /\ AnswerInv(call)
      BY <2>2 DEF IInv, CallInv, CallOK
    <3>2. AnsweredOnce /\ ObserverHearsTheAnswer
      BY <3>1 DEF AnsweredOnce, ObserverHearsTheAnswer, AnswerInv, Done
    <3>3. TriggersFollowTheAnswer
      BY <3>1 DEF TriggersFollowTheAnswer, AnswerInv, Done, Calls
    <3> QED
      BY <3>2, <3>3 DEF OutcomeConsistent
  <2> QED
    BY <2>1, <2>2
<1> QED
  BY <1>1, CallInvariant, PTL
=============================================================================
