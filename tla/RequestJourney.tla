----------------------------- MODULE RequestJourney -----------------------------
(***************************************************************************)
(* A request from the spider to the spider: the engine schedules it, sends *)
(* it through the handler chain, schedules what replaces it, and hands the *)
(* outcome to the spider middlewares or to the errback (engine.py).  The   *)
(* cache, the cookie jar and the duplicate filter last from journey to     *)
(* journey.                                                                *)
(***************************************************************************)
EXTENDS HandlerChain, SpiderStream

CONSTANTS
  Starts,       \* the requests a spider yields
  Inner,        \* the requests components make through download_async
  InternalHops, \* passages of a download outside the schedule: 100 in the source
  MaxJourneys,  \* bound: requests the spider yields
  MaxMeddles,   \* bound: interventions of the custom middleware
  MaxStreams    \* bound: the first journeys, whose outputs are followed

\* A spider or a component makes a request anew: what retries, redirects and the middlewares
\* write into one is not there yet, and a component names no page.
ASSUME StartsAssumption ==
  \A r \in Starts \cup Inner :
    /\ r \in Requests
    /\ r.via = <<>> /\ r.kept = NoEntry /\ ~r.authorized
    /\ r.ticket = None /\ r.ticketFor = None
    /\ r \in Inner => r.from = None /\ r.referrer = None

VARIABLES
  stage,      \* idle, scheduling, chain, outputs
  seen,       \* the duplicate filter
  internal,   \* passages of a download_async, 0 for a request of the schedule
  journeys, meddles,  \* bounded counters
  downloads,  \* history: downloads of this journey
  wanted      \* history: the request as it was made

engineVars == <<stage, seen, internal, journeys, meddles, downloads, wanted>>
vars == <<passageVars, cache, jar, engineVars, streamVars>>

NoRequest == FreshRequest(None)

Init ==
  /\ phase = "none" /\ at = 0 /\ request = NoRequest /\ response = NoResponse
  /\ error = "none" /\ heard = "nothing"
  /\ cache = [u \in Urls |-> NoEntry] /\ jar = {} /\ seen = {}
  /\ stage = "idle" /\ internal = 0 /\ journeys = 0 /\ meddles = 0
  /\ downloads = 0 /\ wanted = NoRequest
  /\ StreamIdle

\* A request leaves the spider middlewares with the referrer of the page it was found on.
Found(r) == [r EXCEPT !.referrer = RefererHeader(r.policy, r.from, r.url)]

\* The spider, or a component through download_async, makes a request.
Begin ==
  /\ stage = "idle" /\ journeys < MaxJourneys
  /\ \/ \E r \in Starts :
          /\ stage' = "scheduling" /\ internal' = 0 /\ request' = Found(r) /\ wanted' = r
          /\ UNCHANGED <<phase, at, response, error, heard>>
     \/ \E r \in Inner : stage' = "chain" /\ internal' = 1 /\ Enter(r) /\ wanted' = r
  /\ journeys' = journeys + 1 /\ downloads' = 0 /\ meddles' = 0
  /\ UNCHANGED <<cache, jar, seen, streamVars>>

\* The request is forgotten: nothing of it is of use to a later one.
Forget ==
  /\ phase' = "none" /\ at' = 0 /\ internal' = 0
  /\ request' = NoRequest /\ response' = NoResponse /\ error' = "none" /\ heard' = "nothing"
  /\ wanted' = NoRequest /\ downloads' = 0 /\ meddles' = 0
Rest == Forget /\ stage' = "idle"

DropOffsite ==
  /\ stage = "scheduling"
  /\ Offsite(request)
  /\ Rest
  /\ UNCHANGED <<cache, jar, seen, journeys, streamVars>>

\* _schedule: receivers of request_scheduled may ignore it, the filter may drop it.
Drop ==
  /\ stage = "scheduling"
  /\ Offsite(request) \/ (~request.unfiltered /\ request.url \in seen)
  /\ Rest
  /\ UNCHANGED <<cache, jar, seen, journeys, streamVars>>

Schedule ==
  /\ stage = "scheduling"
  /\ ~Offsite(request) /\ (request.unfiltered \/ request.url \notin seen)
  /\ stage' = "chain" /\ Enter(request)
  /\ seen' = IF request.unfiltered THEN seen ELSE seen \cup {request.url}
  /\ UNCHANGED <<cache, jar, internal, journeys, meddles, downloads, wanted, streamVars>>

Handle ==
  /\ stage = "chain"
  /\ \/ HandlerStep /\ UNCHANGED meddles
     \/ Meddle /\ meddles < MaxMeddles /\ meddles' = meddles + 1
  /\ downloads' = IF phase = "fetch" THEN downloads + 1 ELSE downloads
  /\ UNCHANGED <<stage, seen, internal, journeys, wanted, streamVars>>

\* What comes out of the chain: _handle_request and _download_internal.
Replaced ==
  /\ stage = "chain" /\ phase = "replaced"
  /\ \/ internal = 0 /\ stage' = "scheduling"
        /\ UNCHANGED <<phase, at, request, response, error, heard, internal, wanted, downloads, meddles>>
     \/ internal \in 1 .. InternalHops - 1 /\ Enter(request) /\ internal' = internal + 1
        /\ UNCHANGED <<stage, wanted, downloads, meddles>>
     \/ internal = InternalHops /\ Rest
  /\ UNCHANGED <<cache, jar, seen, journeys, streamVars>>

\* A status that neither the request nor the spider said it handles.
Denied ==
  response.status \notin 200 .. 299 /\ "handle_httpstatus_all" \notin request.opts

Delivered ==
  /\ stage = "chain" /\ phase = "delivered"
  /\ \/ internal = 0 /\ journeys <= MaxStreams
        /\ stage' = "outputs" /\ Forget /\ \E b \in BOOLEAN : BeginResponse(b, Denied)
     \/ (internal > 0 \/ journeys > MaxStreams) /\ Rest /\ UNCHANGED streamVars
  /\ UNCHANGED <<cache, jar, seen, journeys>>

\* An error ends the journey: nothing for IgnoreRequest, else the errback, whose
\* outputs go straight to the engine.
Failure ==
  /\ stage = "chain" /\ phase = "failed" /\ Rest
  /\ UNCHANGED <<cache, jar, seen, journeys, streamVars>>

Outputs ==
  /\ stage = "outputs" /\ StreamStep
  /\ UNCHANGED <<passageVars, cache, jar, engineVars>>

OutputsEnd ==
  /\ stage = "outputs" /\ mode = "ended" /\ Rest
  /\ mode' = "idle" /\ turn' = 0 /\ pending' = <<>> /\ trouble' = NoError /\ origin' = 0
  /\ errback' = FALSE /\ denied' = FALSE /\ passed' = <<>> /\ reports' = 0
  /\ asked' = <<>> /\ yielded' = {} /\ cut' = {}
  /\ UNCHANGED <<cache, jar, seen, journeys>>

\* Time passes: an entry goes stale.
Age ==
  /\ stage = "idle"
  /\ \E u \in Urls : cache[u].fresh /\ cache' = [cache EXCEPT ![u].fresh = FALSE]
  /\ UNCHANGED <<passageVars, jar, engineVars, streamVars>>

Journey ==
  \/ Schedule \/ Drop \/ Handle \/ Replaced \/ Delivered \/ Failure \/ Outputs \/ OutputsEnd

Next == Begin \/ Journey \/ Age

Spec == Init /\ [][Next]_vars /\ WF_vars(Journey)

-----------------------------------------------------------------------------
\* Retries and redirects have limits of their own, and each counts through the other:
\* whatever their order, and however often the cache or a middleware answers in
\* between, a journey downloads no more than both allow.
DownloadsBounded == downloads <= 1 + RetryTimes + RedirectMax + meddles

\* A stale copy stands in for an answer only when the server, asked on this passage,
\* said that it is current, could not be reached or failed, and not for a copy marked
\* must-revalidate when the server failed.
StaleNeedsAReason ==
  phase = "delivered" /\ "cached" \in response.flags /\ ~response.fresh =>
    \/ heard \in {"304"} \cup DownloadErrors
    \/ heard = "5xx" /\ request.url \notin Revalidated

\* A host outside allowed_domains is asked only for a request its maker exempted, or
\* that a retry did, before it was redirected there.
StrangersNeedAnExemption ==
  phase = "fetch" /\ ~Allows(Site[request.url]) =>
    wanted.unfiltered \/ "allow_offsite" \in wanted.opts \/ request.retries > 0

\* The cookie that a host sets with a redirect to itself is on the redirected request,
\* through retries, cached redirects and other responses in between.
SessionFollowsRedirect ==
  phase = "fetch" /\ request.via # <<>> /\ Last(request.via) \in Baking
  /\ Site[Last(request.via)] = Site[request.url] => request.cookie

\* Proxy credentials go to the proxy they were given for, however the proxy changes.
TicketsFitTheProxy == phase = "fetch" => request.ticket \in {None, request.proxy}

\* The login of the settings goes to the hosts of its domain alone, through redirects
\* away from them and back.
LoginsStayInTheirDomain == phase = "fetch" /\ request.authorized => Site[request.url] \in LoginSites

\* A request names the page that led to it last, link or redirect, and no more of it than
\* the policy in force there lets this url know, however many redirects came before
\* (_handle_referer).
ReferrersAreDiscreet ==
  phase = "fetch" =>
    LET found_on == IF request.via = <<>> THEN wanted.from ELSE Last(request.via) IN
    IF found_on = None THEN request.referrer = None
    ELSE Discreet(PolicyOf(wanted.policy, found_on), found_on, request.url, request.referrer)

\* What a request carries to its next url is what belongs there: permission, session,
\* logins and referrer.
CopiesCarryTheirOwn ==
  /\ StrangersNeedAnExemption /\ SessionFollowsRedirect
  /\ TicketsFitTheProxy /\ LoginsStayInTheirDomain /\ ReferrersAreDiscreet

\* Every request comes to an end: a response, its errback or nothing at all.
JourneyEnds == stage # "idle" ~> stage = "idle"
=============================================================================
