------------------------------- MODULE Routes -------------------------------
(***************************************************************************)
(* The routes of the REST adapter (rest.go), which the OpenAPI document    *)
(* describes: HTTP method and path follow from the names of the group and  *)
(* of the method and from its parameters.  A path is its prefix, its       *)
(* segment and the positions of the parameters that it carries: named      *)
(* after their positions (arg0, arg1), as without source information.      *)
(***************************************************************************)
EXTENDS Registry

Ins(w) == Sig(w).ins
IsStruct(p) == Kind[p.type] = "struct"
Positions(w, T(_)) == SelectSeq([i \in DOMAIN Ins(w) |-> i],
                                LAMBDA i : T(Ins(w)[i]))

\* buildRoutes' classification: what is no struct is a path parameter, and the
\* last struct parameter is the body.
pathParams(w) == Positions(w, LAMBDA p : ~IsStruct(p))
bodyParam(w) ==
    LET body == Positions(w, IsStruct)
    IN IF body = <<>> THEN <<>> ELSE <<body[Len(body)]>>

\* inferHTTPMethod: from the word that the method's name begins with.
inferHTTPMethod(w) ==
    CASE Sig(w).words[1] \in {"Get", "List", "Find"} -> "GET"
      [] Sig(w).words[1] = "Update" -> "PUT"
      [] Sig(w).words[1] = "Set" -> "PATCH"
      [] Sig(w).words[1] \in {"Delete", "Remove"} -> "DELETE"
      [] OTHER -> "POST"

\* buildRoutes: every method of the groups that opted into REST by now.
buildRoutes == UNION {MethodsOf(s) : s \in restGroups}

\* The path of a route; DefaultNaming's prefix of a group is its file name.
Path(w) == <<FileName[w[1]], Sig(w).segment, pathParams(w)>>

\* Two patterns that http.ServeMux refuses side by side: they differ at most
\* in the names of their parameters.
Conflict(v, w) ==
    /\ inferHTTPMethod(v) = inferHTTPMethod(w)
    /\ Path(v)[1] = Path(w)[1] /\ Path(v)[2] = Path(w)[2]
    /\ Len(Path(v)[3]) = Len(Path(w)[3])

\* registerRoutes succeeds: HandleFunc panics on conflicting patterns.
Mountable(R) == \A v, w \in R : Conflict(v, w) => v = w
=============================================================================
