--------------------------- MODULE MCPythonCrawl ---------------------------
(***************************************************************************)
(* An instance of PythonCrawl for TLC.  Page a leads to b and, by one of   *)
(* its three links, to c; an extension asks for d, and e is refused.       *)
(* start() yields more outputs than its queue and the loop can hold.       *)
(* Nothing must lead to nowhere: not links of a that a rule refuses or     *)
(* none takes or that are too long, not those of c, whose rule does not    *)
(* follow, nor those of b, which are too deep, nor the long start URL.     *)
(***************************************************************************)
EXTENDS PythonCrawl, TLC

CONSTANTS a, b, c, d, e, nowhere

MCPages == {a, b, c, d, e, nowhere}

MCShop == <<"shop", "example">>

MCUrl(page, canonical) == [
    page |-> page, canonical |-> canonical, scheme |-> "http",
    domain |-> <<"www">> \o MCShop, extension |-> "none"]

MCWeb ==
    "a" :> MCUrl(a, "a") @@ "b" :> MCUrl(b, "b") @@
    "c" :> MCUrl(c, "c") @@ "c?2" :> MCUrl(c, "c") @@ "e" :> MCUrl(e, "e") @@
    "login" :> MCUrl(nowhere, "login") @@ "logout" :> MCUrl(nowhere, "logout") @@
    "away" :> [MCUrl(nowhere, "away") EXCEPT !.domain = <<"myshop", "example">>] @@
    "mail" :> [MCUrl(nowhere, "mail") EXCEPT !.scheme = "mailto"] @@
    "archive" :> MCUrl(nowhere, "archive") @@
    "manual" :> [MCUrl(nowhere, "manual") EXCEPT !.extension = "pdf"]

MCLink(url) == [tag |-> "a", attr |-> "href", url |-> url, text |-> "more"]

\* Documents with a list of products in their body.
MCRegions ==
    a :> [page |-> <<MCLink("away"), MCLink("login"), MCLink("logout"), MCLink("c"), MCLink("c?2"),
                     MCLink("b"), MCLink("manual"), MCLink("mail"),
                     MCLink("archive"), [MCLink("away") EXCEPT !.tag = "link"]>>,
          list |-> <<MCLink("c"), MCLink("login"), MCLink("c?2")>>] @@
    b :> [page |-> <<MCLink("login"), MCLink("a")>>, list |-> <<>>] @@
    c :> [page |-> <<MCLink("login")>>, list |-> <<>>]

\* Products have a callback and are not followed; a link to log in must not become a page.
MCRules == <<
    [Rule0 EXCEPT !.extractor.restrict = <<"list">>, !.extractor.canonicalize = TRUE,
                  !.callback = TRUE, !.refused = {"login"}],
    [Rule0 EXCEPT !.extractor.allowDomains = {MCShop}, !.extractor.deny = {"logout"},
                  !.unlinked = {"c?2"}]>>

MCStartUrls == <<"a", "archive", "e", "a", "a", "a">>
=============================================================================
