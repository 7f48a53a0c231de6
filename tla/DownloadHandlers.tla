-------------------------- MODULE DownloadHandlers --------------------------
(***************************************************************************)
(* Which download handlers a crawl has (DownloadHandlers in                *)
(* downloadhandlers.py): one per scheme, built with the crawl or at the    *)
(* first request for the scheme, and closed with the crawl.  The handlers  *)
(* that are open are a sequence of schemes, in the order they were built.  *)
(***************************************************************************)
EXTENDS Naturals, SequencesExt

CONSTANTS
    HandlersBase,    \* DOWNLOAD_HANDLERS_BASE, a sequence of [scheme, handler]
    HandlersCustom,  \* DOWNLOAD_HANDLERS, another
    Disabled,        \* the handler None
    LazyHandlers,    \* handlers that are built at their first request
    Unbuildable      \* handlers that raise NotConfigured or an error, HTTP's excepted

SchemesOf(setting) == {entry.scheme : entry \in ToSet(setting)}

\* An entry of the project takes the place of the one for the same scheme.
HandlerMapping ==
    LET Overrides(scheme) == SelectSeq(HandlersCustom, LAMBDA entry : entry.scheme = scheme)
        merged ==
            [i \in DOMAIN HandlersBase |->
                IF HandlersBase[i].scheme \in SchemesOf(HandlersCustom)
                THEN Last(Overrides(HandlersBase[i].scheme)) ELSE HandlersBase[i]]
            \o SelectSeq(HandlersCustom, LAMBDA entry : entry.scheme \notin SchemesOf(HandlersBase))
    IN  SelectSeq(merged, LAMBDA entry : entry.handler # Disabled)

\* S3's handler has one of HTTPS in it.
CanBuild(entry) ==
    /\ entry.handler \notin Unbuildable
    /\ entry.handler = "S3DownloadHandler" => "https" \in SchemesOf(HandlerMapping)

Schemes(entries) == [i \in DOMAIN entries |-> entries[i].scheme]

\* A handler that cannot be built is left out: its scheme is not supported.
Eager == Schemes(SelectSeq(HandlerMapping,
            LAMBDA entry : entry.handler \notin LazyHandlers /\ CanBuild(entry)))

\* The handlers of HTTP raise what keeps them from being built: the crawl has no handlers,
\* and nobody knows of those that were there.
BuiltBeforeFailing ==
    {SubSeq(Eager, 1, i - 1) : i \in {j \in DOMAIN Eager : Eager[j] \in {"http", "https"}}}

\* The schemes whose handler the next request would build.
Loadable(handlers) ==
    {entry.scheme : entry \in {e \in ToSet(HandlerMapping) :
        e.scheme \notin ToSet(handlers) /\ CanBuild(e)}}
=============================================================================
