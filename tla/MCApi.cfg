SPECIFICATION Spec
CONSTANTS
    Structs <- MCStructs
    Decl <- MCDecl
    Types <- MCTypes
    Kind <- MCKind
    BadTags = {"Bad"}
    Members <- MCMembers
    ErrorNames = {"NotFound"}
    Bases = {"tasks"}
    Uses <- MCUses
    Servers = {"server", "arguments"}
    FieldGraphs <- MCFieldGraphs
    MaxOps <- MCMaxOps
    NameOf <- MCName
    PkgOf <- MCPkg
    PkgSeq <- MCPkgSeq
    TypeSeq <- MCTypeSeq
    StructSeq <- MCStructSeq
    JSON <- MCJSON
    FileName <- MCFileName
    Helpers = {"NotFound"}
    MetaType = "OtherItem"
    MaxGens = 2
CHECK_DEADLOCK FALSE
INVARIANTS
    HandlerGuarded
    ArgumentsReachTheirParameter
    OutcomeConsistent
    
    SchemasDeclaredBeforeUse
    GoAndOpenAPIAgree
