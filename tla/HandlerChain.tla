------------------------------ MODULE HandlerChain ------------------------------
(***************************************************************************)
(* One request on its way through the downloader middlewares               *)
(* (DownloaderMiddlewareManager.download) and the middlewares SpiderOxide  *)
(* puts there, with the HTTP cache and the cookie jars they share.  Every  *)
(* step asks the hook of one component; what a hook may do with the        *)
(* request or the response in hand is one of Proceed, AnswerWith,          *)
(* ReplaceBy and Raise.                                                    *)
(***************************************************************************)
EXTENDS ReferrerPolicies, ComponentLists

CONSTANTS
  Base,         \* DOWNLOADER_MIDDLEWARES_BASE
  Custom,       \* DOWNLOADER_MIDDLEWARES
  Allowed,      \* the entries of allowed_domains, of which only hosts match
  Validated,    \* urls answered with ETag or Last-Modified
  Lasting,      \* urls answered with max-age
  NoStore,      \* urls answered with no-store
  Revalidated,  \* urls answered with must-revalidate
  Zipped,       \* urls answered with a content encoding
  Refreshing,   \* urls whose page has a meta refresh
  Baking,       \* urls whose answers set the cookie of their host
  LoginSites,   \* the hosts under HTTPAUTH_DOMAIN
  Socks,        \* proxies that speak SOCKS
  Proxies,      \* all proxies
  RetryTimes, RedirectMax,
  IgnoreMissing

ASSUME ChainAssumption ==
  /\ RetryTimes \in Nat /\ RedirectMax \in Nat /\ IgnoreMissing \in BOOLEAN
  /\ Socks \subseteq Proxies /\ None \notin Urls \cup Proxies
  /\ Site \in [Urls -> {Site[u] : u \in Urls}]
  /\ ~Clashes(Base.entries) /\ ~Clashes(Custom.entries)

VARIABLES
  phase,     \* request, fetch, response, exception; or how the passage ended
  at,        \* whose hook is asked
  request, response, error,
  cache,     \* the cache's entry of each url
  jar,       \* the hosts whose cookie is in the jar
  heard      \* history: what the server said on this passage

passageVars == <<phase, at, request, response, error, heard>>

NoResponse == [status |-> 0, body |-> "whole", coded |-> FALSE, to |-> None,
               flags |-> {}, fresh |-> FALSE]
NoEntry == NoResponse

Flags == {"cached", "download_stopped", "dataloss"}
Responses == [status : Nat, body : {"whole", "empty", "part"}, coded : BOOLEAN,
              to : Urls \cup {None}, flags : SUBSET Flags, fresh : BOOLEAN]

\* What a request carries: retry_times, redirect_times, redirect_ttl and redirect_urls,
\* dont_filter, one of the dont_ keys, whose validators its headers name, the copy it
\* would refresh (cached_response), the key _dont_cache, whether it has the cookie of
\* its host and whether the login of HttpAuthMiddleware; the page it comes from, the key
\* referrer_policy and the header Referer; the proxy, whether its url names credentials, whose
\* credentials are sent and for which proxy (_auth_proxy).
FreshRequest(u) ==
  [url |-> u, retries |-> 0, hops |-> 0, ttl |-> RedirectMax, via |-> <<>>,
   unfiltered |-> FALSE, opts |-> {}, conditional |-> None, kept |-> NoEntry,
   uncached |-> FALSE, cookie |-> FALSE, authorized |-> FALSE,
   from |-> None, policy |-> None, referrer |-> None,
   proxy |-> None, login |-> FALSE, ticket |-> None, ticketFor |-> None]

Referrers == {None} \cup {Whole(u) : u \in Urls} \cup {OriginOnly(u) : u \in Urls}
Requests ==
  [url : Urls, retries : Nat, hops : Nat, ttl : Int, via : Seq(Urls),
   unfiltered : BOOLEAN, opts : SUBSET STRING, conditional : Urls \cup {None}, kept : Responses,
   uncached : BOOLEAN, cookie : BOOLEAN, authorized : BOOLEAN,
   from : Urls \cup {None}, policy : {None} \cup STRING, referrer : Referrers,
   proxy : Proxies \cup {None}, login : BOOLEAN,
   ticket : Proxies \cup {None}, ticketFor : Proxies \cup {None}]

-----------------------------------------------------------------------------
\* What a hook may do.

Asked == {"offsite", "auth", "custom", "cookies", "proxy", "cache"}
Met == {"cache", "cookies", "redirect", "compression", "metarefresh", "retry", "custom"}
Caught == {"cache", "retry", "custom"}

\* The components, from the engine to the downloader.
Chain == BuildComponents(Base, Custom)

\* The hooks of a phase in the order they are called.
Row == [request |-> SelectSeq(Chain, LAMBDA c : c \in Asked),
        response |-> Reverse(SelectSeq(Chain, LAMBDA c : c \in Met)),
        exception |-> Reverse(SelectSeq(Chain, LAMBDA c : c \in Caught))]
Phases == DOMAIN Row

\* The base setting has the components that what a request carries depends on; a project that
\* moves them keeps the cookies below the redirects, and its own middleware above the proxies.
ASSUME OrderAssumption ==
  /\ \A p \in Phases : Row[p] \in Seq(Asked \cup Met \cup Caught)
  /\ \A c \in {"offsite", "cookies", "proxy"} : \E i \in DOMAIN Row.request : Row.request[i] = c
  /\ \A i, j \in DOMAIN Row.request :
       Row.request[i] = "custom" /\ Row.request[j] = "proxy" => i < j
  /\ \A i \in DOMAIN Row.response :
       Row.response[i] \in {"redirect", "metarefresh"} =>
         \E j \in 1 .. i - 1 : Row.response[j] = "cookies"

Hook(c, p) == phase = p /\ at \in DOMAIN Row[p] /\ Row[p][at] = c

Proceed(r, a) ==
  /\ at' = at + 1
  /\ request' = r /\ response' = a
  /\ UNCHANGED <<phase, error, heard>>

AnswerWith(r, a) ==
  /\ phase' = "response" /\ at' = 1
  /\ request' = r /\ response' = a /\ error' = "none"
  /\ UNCHANGED heard

ReplaceBy(r) ==
  /\ phase' = "replaced" /\ at' = 0
  /\ request' = r /\ response' = NoResponse /\ error' = "none"
  /\ UNCHANGED heard

Raise(e) ==
  /\ IF phase \in {"request", "fetch"}
     THEN phase' = "exception" /\ at' = 1
     ELSE phase' = "failed" /\ at' = 0
  /\ error' = e
  /\ UNCHANGED <<request, response, heard>>

-----------------------------------------------------------------------------
\* OffsiteMiddleware, which also listens to request_scheduled.
Allows(host) == Allowed = {} \/ host \in Allowed
Offsite(r) == ~r.unfiltered /\ "allow_offsite" \notin r.opts /\ ~Allows(Site[r.url])

AskOffsite ==
  /\ Hook("offsite", "request")
  /\ IF Offsite(request) THEN Raise("ignore") ELSE Proceed(request, response)
  /\ UNCHANGED <<cache, jar>>

\* HttpAuthMiddleware: a login that is there already stays.
AskAuth ==
  /\ Hook("auth", "request")
  /\ Proceed([request EXCEPT !.authorized = @ \/ Site[request.url] \in LoginSites], response)
  /\ UNCHANGED <<cache, jar>>

-----------------------------------------------------------------------------
\* RetryMiddleware: get_retry_request exempts the copy from the duplicate filter.
Retried(r) == [r EXCEPT !.retries = @ + 1, !.unfiltered = TRUE]
MayRetryOnceMore(r) == "dont_retry" \notin r.opts /\ r.retries <= RetryTimes

MayRetry(r) == "dont_retry" \notin r.opts /\ r.retries < RetryTimes

RetryStatuses == {503}
DownloadErrors == {"download", "dataloss"}

MeetRetry ==
  /\ Hook("retry", "response")
  /\ IF response.status \in RetryStatuses /\ MayRetry(request)
     THEN ReplaceBy(Retried(request)) ELSE Proceed(request, response)
  /\ UNCHANGED <<cache, jar>>

CatchRetry ==
  /\ Hook("retry", "exception")
  /\ IF error \in DownloadErrors /\ MayRetry(request)
     THEN ReplaceBy(Retried(request)) ELSE Proceed(request, response)
  /\ UNCHANGED <<cache, jar>>

-----------------------------------------------------------------------------
\* RedirectMiddleware and MetaRefreshMiddleware.
RedirectedExempt(r, u) ==
  [r EXCEPT !.url = u, !.hops = @ + 1, !.ttl = @ - 1, !.via = Append(@, r.url), !.unfiltered = TRUE]

Redirected(r, u) ==
  [r EXCEPT !.url = u, !.hops = @ + 1, !.ttl = @ - 1, !.via = Append(@, r.url),
            !.cookie = @ /\ Site[u] = Site[r.url] /\ Scheme[u] \in {Scheme[r.url], "https"},
            !.authorized = @ /\ SameOrigin(r.url, u),
            !.from = r.url, !.referrer = RefererHeader(r.policy, r.url, u)]

RedirectTo(u) ==
  IF request.ttl = 0 \/ request.hops + 1 > RedirectMax
  THEN Raise("ignore") ELSE ReplaceBy(Redirected(request, u))

Unredirected == {"dont_redirect", "handle_httpstatus_all"}

MeetRedirect ==
  /\ Hook("redirect", "response")
  /\ IF Unredirected \cap request.opts # {} \/ response.status # 302 \/ response.to = None
     THEN Proceed(request, response) ELSE RedirectTo(response.to)
  /\ UNCHANGED <<cache, jar>>

MeetRefresh ==
  /\ Hook("metarefresh", "response")
  /\ IF "dont_redirect" \in request.opts \/ response.coded \/ response.body = "empty"
        \/ response.status # 200 \/ request.url \notin Refreshing
     THEN Proceed(request, response)
     ELSE \E u \in Urls \ {request.url} : RedirectTo(u)
  /\ UNCHANGED <<cache, jar>>

-----------------------------------------------------------------------------
\* HttpCompressionMiddleware: a stream that was cut does not decode.
MeetCompression ==
  /\ Hook("compression", "response")
  /\ \/ response.coded /\ response.body = "part" /\ Raise("undecodable")
     \/ response.coded /\ response.body = "whole" /\ Raise("ignore")
     \/ ~(response.coded /\ response.body = "part")
        /\ Proceed(request, [response EXCEPT !.coded = FALSE])
  /\ UNCHANGED <<cache, jar>>

-----------------------------------------------------------------------------
\* CookiesMiddleware: the header is made anew from the jar on every passage.
AskCookies ==
  /\ Hook("cookies", "request")
  /\ Proceed([request EXCEPT !.cookie = Site[request.url] \in jar], response)
  /\ UNCHANGED <<cache, jar>>

MeetCookies ==
  /\ Hook("cookies", "response")
  /\ jar' = IF request.url \in Baking THEN jar \cup {Site[request.url]} ELSE jar
  /\ Proceed(request, response)
  /\ UNCHANGED cache

-----------------------------------------------------------------------------
\* HttpProxyMiddleware: credentials leave the url on the first passage; later ones know them by
\* _auth_proxy, which SOCKS proxies do not look at.
Proxied(r) ==
  LET p == r.proxy
      keeps == CASE r.login -> p
                 [] ~r.login /\ p \in Socks -> None
                 [] ~r.login /\ p \notin Socks /\ r.ticketFor # None ->
                      IF p = r.ticketFor THEN r.ticket ELSE None
                 [] OTHER -> IF p # None THEN r.ticket ELSE None
  IN [r EXCEPT !.login = FALSE, !.ticket = keeps,
               !.ticketFor = IF keeps = None THEN None ELSE p]

AskProxy ==
  /\ Hook("proxy", "request")
  /\ Proceed(Proxied(request), response)
  /\ UNCHANGED <<cache, jar>>

-----------------------------------------------------------------------------
\* HttpCacheMiddleware with RFC2616Policy.
Cacheable(u, a) ==
  /\ a.status # 304 /\ u \notin NoStore
  /\ u \in Lasting \/ (a.status = 200 /\ u \in Validated)

StillValidOnError(u, a) == a.status = 304 \/ a.status >= 500

StillValid(u, a) == a.status = 304 \/ (a.status >= 500 /\ u \notin Revalidated)

Copy(entry) == [entry EXCEPT !.flags = {"cached"}]

AskCache ==
  /\ Hook("cache", "request")
  /\ LET entry == cache[request.url]
         caches == request.opts \cap {"dont_cache", "no_store"} = {}
     IN
     CASE "dont_cache" \in request.opts -> Proceed(request, response)
       [] "no_store" \in request.opts ->
            Proceed([request EXCEPT !.uncached = TRUE], response)
       [] caches /\ entry = NoEntry ->
            IF IgnoreMissing THEN Raise("ignore") ELSE Proceed(request, response)
       [] caches /\ entry.fresh -> AnswerWith(request, Copy(entry))
       [] OTHER ->
            Proceed([request EXCEPT !.kept = Copy(entry),
                       !.conditional = IF request.url \in Validated THEN request.url ELSE @],
                    response)
  /\ UNCHANGED <<cache, jar>>

MeetCache ==
  /\ Hook("cache", "response")
  /\ IF "dont_cache" \in request.opts \/ request.uncached \/ "cached" \in response.flags
     THEN /\ Proceed([request EXCEPT !.uncached = @ /\ "dont_cache" \in request.opts], response)
          /\ UNCHANGED cache
     ELSE IF request.kept # NoEntry /\ StillValid(request.url, response)
     THEN Proceed([request EXCEPT !.kept = NoEntry], request.kept) /\ UNCHANGED cache
     ELSE /\ Proceed([request EXCEPT !.kept = NoEntry], response)
          /\ cache' = IF Cacheable(request.url, response)
                      THEN [cache EXCEPT ![request.url] =
                              [response EXCEPT !.flags = {}, !.fresh = TRUE]]
                      ELSE cache
  /\ UNCHANGED jar

CatchCache ==
  /\ Hook("cache", "exception")
  /\ IF request.kept # NoEntry /\ error \in DownloadErrors
     THEN AnswerWith([request EXCEPT !.kept = NoEntry], request.kept)
     ELSE Proceed([request EXCEPT !.kept = NoEntry], response)
  /\ UNCHANGED <<cache, jar>>

-----------------------------------------------------------------------------
\* A middleware of the project: it may do whatever the manager accepts.
Page == [NoResponse EXCEPT !.status = 200]

MeddleInRequest ==
  /\ Hook("custom", "request")
  /\ \/ AnswerWith(request, Page)
     \/ ReplaceBy([request EXCEPT !.proxy = None])
     \/ Raise("ignore")
     \/ \E p \in Proxies : p # request.proxy /\ Proceed([request EXCEPT !.proxy = p], response)
  /\ UNCHANGED <<cache, jar>>

MeddleInResponse ==
  /\ Hook("custom", "response")
  /\ ReplaceBy(request) \/ Raise("other")
  /\ UNCHANGED <<cache, jar>>

MeddleInException ==
  /\ Hook("custom", "exception")
  /\ AnswerWith(request, Page) \/ ReplaceBy(request) \/ Raise("other")
  /\ UNCHANGED <<cache, jar>>

Meddle == MeddleInRequest \/ MeddleInResponse \/ MeddleInException

\* It may also let things be.
StandBy ==
  /\ \E p \in Phases : Hook("custom", p)
  /\ Proceed(request, response)
  /\ UNCHANGED <<cache, jar>>

-----------------------------------------------------------------------------
\* The end of a row of hooks.
After(p) == CASE p = "request" -> "fetch" [] p = "response" -> "delivered" [] OTHER -> "failed"

Reach ==
  /\ phase \in Phases /\ at \notin DOMAIN Row[phase]
  /\ phase' = After(phase) /\ at' = 0
  /\ UNCHANGED <<request, response, error, heard, cache, jar>>

\* The downloader: an error, StopDownload or a response that is whole, was stopped at
\* its headers or its body, or has lost data.  304 is said only to a conditional request.
Received == {[body |-> "whole", flags |-> {}],
             [body |-> "empty", flags |-> {"download_stopped"}],
             [body |-> "part", flags |-> {"download_stopped"}],
             [body |-> "part", flags |-> {"dataloss"}]}

Answers(r) ==
  {[NoResponse EXCEPT !.status = 200, !.body = got.body, !.flags = got.flags,
                      !.coded = r.url \in Zipped] : got \in Received}
  \cup {[NoResponse EXCEPT !.status = 302, !.to = u] : u \in Urls \ {r.url}}
  \cup {[NoResponse EXCEPT !.status = s] :
          s \in {503} \cup IF r.conditional # None THEN {304} ELSE {}}

Fetch ==
  /\ phase = "fetch" /\ at' = 1
  /\ \/ \E e \in DownloadErrors \cup {"unsupported", "stopped"} :
          phase' = "exception" /\ error' = e /\ heard' = e /\ UNCHANGED response
     \/ \E a \in Answers(request) :
          /\ phase' = "response" /\ response' = a /\ UNCHANGED error
          /\ heard' = CASE a.status = 304 -> "304" [] a.status >= 500 -> "5xx" [] OTHER -> "answer"
  /\ UNCHANGED <<request, cache, jar>>

HandlerStep ==
  \/ AskOffsite \/ AskAuth \/ AskCookies \/ AskProxy \/ AskCache
  \/ MeetCache \/ MeetCookies \/ MeetRedirect \/ MeetCompression \/ MeetRefresh \/ MeetRetry
  \/ CatchCache \/ CatchRetry \/ StandBy \/ Reach \/ Fetch

\* A passage begins with the first component's hook.
Enter(r) ==
  /\ phase' = "request" /\ at' = 1 /\ request' = r
  /\ response' = NoResponse /\ error' = "none" /\ heard' = "nothing"
=============================================================================
