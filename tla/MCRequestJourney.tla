--------------------------- MODULE MCRequestJourney ---------------------------
(***************************************************************************)
(* An instance of RequestJourney for TLC: home and page are on the crawled *)
(* site, away is not.  The custom middleware sits where USER_GUIDE puts a  *)
(* project's first one, between the user agent and the retries.            *)
(***************************************************************************)
EXTENDS RequestJourney, TLC

CONSTANTS home, page, away, site, other, http, socks

\* Every component has a path of its own; Scrapy's name of some leads to the same class.
MCComponents == {"offsite", "robots", "auth", "timeout", "headers", "useragent", "retry",
                 "metarefresh", "compression", "redirect", "cookies", "proxy", "stats", "cache",
                 "custom", "browser"}
MCPath(component) == "spideroxide." \o component
MCAlias(component) == "scrapy." \o component
MCObjectAt == [path \in {MCPath(c) : c \in MCComponents} \cup {MCAlias(c) : c \in MCComponents} |->
                 CHOOSE c \in MCComponents : path \in {MCPath(c), MCAlias(c)}]
MCDefinedAt == [c \in MCComponents |-> MCPath(c)]

MCOn(reference, priority) == [ref |-> reference, enabled |-> TRUE, priority |-> priority]
MCOff(reference) == [ref |-> reference, enabled |-> FALSE, priority |-> 0]

MCBase == [kind |-> "dict", entries |-> <<
  MCOn(MCPath("offsite"), 50), MCOn(MCPath("robots"), 100), MCOn(MCPath("auth"), 300),
  MCOn(MCPath("timeout"), 350), MCOn(MCPath("headers"), 400), MCOn(MCPath("useragent"), 500),
  MCOn(MCPath("retry"), 550), MCOn(MCPath("metarefresh"), 580),
  MCOn(MCPath("compression"), 590), MCOn(MCPath("redirect"), 600),
  MCOn(MCPath("cookies"), 700), MCOn(MCPath("proxy"), 750), MCOn(MCPath("stats"), 850),
  MCOn(MCPath("cache"), 900)>>]

\* The project disables what is not modelled and has a user agent where the custom middleware
\* goes; an add-on replaces it, and puts the redirects next to the compression.
MCProject == <<MCOff(MCPath("timeout")), MCOff(MCAlias("cache")), MCOn(MCAlias("cookies"), 700),
               MCOff("headers"), MCOn(MCAlias("browser"), 543), MCOff(MCPath("useragent"))>>
MCCustom == [kind |-> "dict", entries |->
  SetDefaultIn(SetIn(ReplaceIn(MCProject, "browser", "custom"), "redirect", 590), "cookies", 0)]

MCUrls == {home, page, away}
MCSite == home :> site @@ page :> site @@ away :> other
MCScheme == home :> "https" @@ page :> "https" @@ away :> "http"
\* home asks for two policies, of which one is unknown; the crawl's own is discreet.
MCAnnounced == home :> <<"strict-origin-when-cross-origin", "unheard-of">>
            @@ page :> <<"unsafe-url", "same-origin">> @@ away :> None
MCStarts ==
  {FreshRequest(home),
   [FreshRequest(page) EXCEPT !.unfiltered = TRUE, !.proxy = http, !.login = TRUE,
                              !.from = home, !.opts = {"handle_httpstatus_all"}],
   [FreshRequest(away) EXCEPT !.opts = {"allow_offsite", "no_store", "dont_retry"}, !.ttl = 1,
                              !.from = page, !.policy = "origin"]}
MCInner == {[FreshRequest(home) EXCEPT !.opts = {"dont_cache"}]}
=============================================================================
