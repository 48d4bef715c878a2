-------------------------------- MODULE MCApi -------------------------------
(* A server with its adapters, a second one for routes and for the order of *)
(* parameters, and three generator commands: over two groups and same-named *)
(* types, over every field graph of three structs, and over groups whose    *)
(* file names or routes clash.                                              *)
EXTENDS Invoke, Codegen

in(t) == [type |-> t, ptr |-> FALSE, variadic |-> FALSE]
method(words, ins, outs, resp) ==
    [ctx |-> TRUE, ins |-> ins, outs |-> outs, resp |-> resp, key |-> "Color",
     words |-> words, segment |-> words]
alike(words, ins) ==
    [method(words, ins, <<"val", "error">>, "User") EXCEPT !.segment = <<"Get", "Id">>]
val == <<"val", "error">>

MCStructs == {"Users", "Notes", "Feed", "Broken", "Twins", "Model", "Orders", "Shapes",
              "Client", "Tasks", "UserAPI", "UserApi", "Pair"}
MCStructSeq == <<"Broken", "Client", "Feed", "Model", "Notes", "Orders", "Pair",
                 "Shapes", "Tasks", "Twins", "UserAPI", "UserApi", "Users">>
MCDecl ==
    [s \in MCStructs |->
       CASE s = "Users" ->
              [Get  |-> method(<<"Get">>, <<in("string"), in("string")>>, val, "User"),
               Save |-> method(<<"Save">>, <<[in("User") EXCEPT !.ptr = TRUE]>>, val, "User"),
               Find |-> method(<<"Find">>, <<[in("User") EXCEPT !.variadic = TRUE]>>, val, "User")]
         [] s = "Notes" ->
              [Link |-> method(<<"Link">>, <<in("User"), in("string")>>, <<"error">>, "User"),
               Move |-> method(<<"Move">>, <<in("string"), in("User")>>, <<"error">>, "User"),
               Note |-> method(<<"Note">>, <<in("NullString"), in("string")>>, <<"error">>, "User")]
         [] s = "Feed" ->
              [Watch  |-> method(<<"Watch">>, <<>>, <<"seq", "error">>, "User"),
               Ping   |-> method(<<"Ping">>, <<>>, <<"error">>, "User"),
               helper |-> [method(<<"helper">>, <<>>, <<>>, "User") EXCEPT !.ctx = FALSE]]
         [] s = "Broken" ->
              [Do |-> method(<<"Do">>, <<in("Bad")>>, <<"seq2", "error">>, "User")]
         [] s = "Model" ->
              [Load |-> method(<<"Load">>, <<in("string")>>, val, "Item")]
         [] s = "Orders" ->
              [List |-> method(<<"List">>, <<in("TasksItem")>>, <<"seq2", "error">>, "Item")]
         [] s = "Shapes" ->
              [Put |-> method(<<"Put">>, <<in("Item"), in("User"), in("OtherItem")>>, <<"error">>, "Item")]
         [] s = "Twins" ->
              [GetID |-> alike(<<"Get", "ID">>, <<in("string")>>),
               GetId |-> alike(<<"Get", "Id">>, <<in("string")>>)]
         [] s = "Pair" ->
              [GetID |-> alike(<<"Get", "ID">>, <<in("string")>>),
               GetId |-> alike(<<"Get", "Id">>, <<in("string"), in("string")>>)]
         [] s \in {"Client", "Tasks", "UserAPI", "UserApi"} ->
              [Add |-> method(<<"Add">>, <<in("OtherItem")>>, <<"error">>, "User")]]

MCTypes == {"string", "User", "Bad", "Item", "TasksItem", "TasksItemB", "OtherItem", "Color", "Twice",
            "Token", "NullString"}
MCKind == [t \in MCTypes |-> CASE t = "string" -> "prim" [] t \in {"Color", "Twice"} -> "enum" [] OTHER -> "struct"]
MCName == [t \in MCTypes |->
             CASE t \in {"Item", "TasksItem", "TasksItemB"} -> <<"Item">>
               [] t = "OtherItem" -> <<"tasks", "Item">>
               [] OTHER -> <<t>>]
MCJSON == [t \in MCTypes |->
             IF MCKind[t] # "struct" \/ t = "NullString" THEN "string" ELSE "object"]
MCPkg == [t \in MCTypes |->
            CASE t \in {"TasksItem", "TasksItemB"} -> "tasks"
              [] t = "Token" -> "client"
              [] OTHER -> "model"]
MCPkgSeq == <<"client", "model", "tasks">>
MCTypeSeq == <<"Bad", "Color", "Item", "NullString", "OtherItem", "TasksItem",
               "TasksItemB", "Token", "Twice", "User">>
MCFileName == [s \in MCStructs |->
                 CASE s = "Model" -> "model" [] s = "Orders" -> "orders"
                   [] s = "Client" -> "client" [] s = "Tasks" -> "tasks"
                   [] s \in {"UserAPI", "UserApi"} -> "user-api" [] OTHER -> s]
MCMembers == [t \in {"Color", "Twice"} |->
                IF t = "Color" THEN <<"Red">> ELSE <<"Off", "Off">>]

Programs == {"server", "arguments", "generator", "schemas", "clashes"}
MCUses == [p \in Programs |->
             CASE p = "server" -> {"Users", "Feed", "Broken"}
               [] p = "arguments" -> {"Notes", "Twins"}
               [] p = "generator" -> {"Model", "Orders"}
               [] p = "schemas" -> {"Shapes"}
               [] p = "clashes" ->
                    {"Client", "Tasks", "UserAPI", "UserApi", "Pair", "Twins"}]
NoFields == [t \in MCTypes |-> {}]
Edges == {<<"Item", "OtherItem">>, <<"Item", "Color">>, <<"OtherItem", "TasksItemB">>,
          <<"OtherItem", "Token">>}
MCFieldGraphs ==
    [p \in Programs |->
       CASE p \in {"server", "arguments", "clashes"} -> {NoFields}
         [] p = "generator" ->
              {[t \in MCTypes |-> {u \in MCTypes : <<t, u>> \in E}] : E \in {{}, Edges}}
         [] p = "schemas" ->
              LET N == {"Item", "User", "OtherItem"}
              IN {[t \in MCTypes |-> IF t \in N THEN g[t] ELSE {}] :
                    g \in [N -> SUBSET N]}]
MCMaxOps == [p \in Programs |->
               CASE p \in {"server", "clashes"} -> 2 [] p = "generator" -> 3
                 [] p \in {"schemas", "arguments"} -> 1]

vars == <<regVars, invVars, genVars>>
Init == RegInit /\ InvInit /\ GenInit
Next ==
    \/ RegNext /\ UNCHANGED <<invVars, genVars>>
    \/ InvNext /\ UNCHANGED genVars
    \/ GenNext /\ UNCHANGED invVars
Spec == Init /\ [][Next]_vars
=============================================================================
