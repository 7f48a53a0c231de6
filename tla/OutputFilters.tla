--------------------------- MODULE OutputFilters ---------------------------
(***************************************************************************)
(* The spider middlewares that look at requests a callback yields one by   *)
(* one: DepthMiddleware (depth.py, depth.rs) and UrlLengthMiddleware       *)
(* (spidermiddlewares.py).                                                 *)
(***************************************************************************)
EXTENDS CrawlRules, Integers

CONSTANTS
    DepthLimit,     \* DEPTH_LIMIT, 0 for none
    DepthPriority,  \* DEPTH_PRIORITY
    LongUrls        \* the URLs longer than URLLENGTH_LIMIT

ASSUME FiltersAssumption == DepthLimit \in Nat /\ DepthPriority \in Int

\* What a response to a request that has no depth has: start() and extensions set none.
NoDepth == -1
DepthOf(request) == IF request.depth = NoDepth THEN 0 ELSE request.depth

Accepted(depth) == DepthLimit = 0 \/ depth <= DepthLimit

\* What is left of the requests of start().  There is no response to count a depth from.
ProcessStart(urls) == Kept(urls, {i \in DOMAIN urls : urls[i] \notin LongUrls})

\* The depth of a request counts from the response it was found in, and lowers its priority.
Deeper(request, parent) ==
    LET depth == DepthOf(parent) + 1
    IN  [request EXCEPT !.depth = depth, !.priority = @ - depth * DepthPriority]

\* What is left of the links that a callback yields requests for, and of these requests, which
\* all have one depth.
ShortLinks(links) == Kept(links, {i \in DOMAIN links : links[i].url \notin LongUrls})

ProcessSpiderOutput(requests, parent) ==
    IF Accepted(DepthOf(parent) + 1) THEN [i \in DOMAIN requests |-> Deeper(requests[i], parent)]
    ELSE <<>>

-----------------------------------------------------------------------------

\* The requests that n links in a row lead to from the given pages, each link of a page
\* whose rule follows, to the depth limit.
Walk(from, longest) ==
    LET Next(request) ==
            IF ~Parses(request.page, request.rule) THEN {}
            ELSE {[page |-> PageOf(w.url), rule |-> w.rule] :
                     w \in {v \in Wanted[request.page] : v.url \notin LongUrls}}
        walk[n \in 0 .. longest] ==
            IF n = 0 THEN {[page |-> p, rule |-> 0] : p \in from}
            ELSE UNION {Next(request) : request \in walk[n - 1]}
    IN  walk
=============================================================================
