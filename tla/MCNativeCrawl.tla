--------------------------- MODULE MCNativeCrawl ---------------------------
(***************************************************************************)
(* Instances of NativeCrawl for TLC: a start page that leads to a second   *)
(* page, which leads back, and a page that an extension asks for.          *)
(***************************************************************************)
EXTENDS NativeCrawl, TLC

CONSTANTS w1, w2, a, b, c, d

MCCallers == {w1, w2}

MCPages == {a, b, c, d}

MCPriorities == {-1, 0}

MCLinks == a :> <<c>> @@ b :> <<a>> @@ c :> <<>> @@ d :> <<>>

MCMethods == a :> "parse" @@ b :> "parse_item" @@ c :> "parse" @@ d :> "parse_item"

\* The requests to c call a lambda.
MCLambdas == [MCMethods EXCEPT ![c] = "lambda"]

MCStartPages == <<a, b>>

MCSymmetry == Permutations(MCCallers)
=============================================================================
