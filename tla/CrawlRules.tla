----------------------------- MODULE CrawlRules -----------------------------
(***************************************************************************)
(* CrawlSpider and its link extractors (crawl.py, linkextractors.py): the  *)
(* requests that the rules of a spider make of a page.                     *)
(***************************************************************************)
EXTENDS Naturals, SequencesExt

CONSTANTS
    Web,           \* per URL its page, its canonical URL, scheme, domain and extension
    Regions,       \* per page the parts of its document that a selector may find, "page" the whole
    Html,          \* pages whose response is an HtmlResponse
    Rules,
    FollowLinks    \* CRAWLSPIDER_FOLLOW_LINKS

\* The document of a page has links to URLs of the web, and the parts that rules look at.
ASSUME WebAssumption ==
    /\ \A url \in DOMAIN Web : Web[url].canonical \in DOMAIN Web
    /\ \A page \in Html : \A name \in DOMAIN Regions[page] :
          Regions[page][name] \in
              Seq([tag : STRING, attr : STRING, url : DOMAIN Web, text : STRING])
    /\ Rules \in Seq(ToSet(Rules))
    /\ \A rule \in ToSet(Rules) : \A page \in Html :
          /\ "page" \in DOMAIN Regions[page]
          /\ rule.extractor.restrict \in Seq(DOMAIN Regions[page])

\* What a loop over a sequence leaves of it: its elements at some places, in their order.
Kept(s, places) ==
    LET kept[n \in 0 .. Len(s)] ==
            IF n = 0 THEN <<>>
            ELSE IF n \in places THEN Append(kept[n - 1], s[n])
            ELSE kept[n - 1]
    IN  kept[Len(s)]

\* The default arguments of LinkExtractor and Rule.  A pattern stands for the URLs or texts it
\* finds, a hook for those it drops.
LinkExtractor0 == [
    allow |-> {}, deny |-> {}, allowDomains |-> {}, denyDomains |-> {}, restrict |-> <<>>,
    tags |-> {"a", "area"}, attrs |-> {"href"}, denyTags |-> {}, denyAttrs |-> {},
    canonicalize |-> FALSE, unique |-> TRUE, valueless |-> {},
    denyExtensions |-> {"pdf"}, texts |-> {}]

Rule0 == [
    extractor |-> LinkExtractor0, callback |-> FALSE, follow |-> {},
    unlinked |-> {}, refused |-> {}]

\* The fingerprint of a GET request stands for its page: it has the canonical URL.
PageOf(url) == Web[Web[url].canonical].page

\* follow is not given: a rule with a callback does not follow.
FollowsRule(rule) == IF rule.follow = {} THEN ~rule.callback ELSE TRUE \in rule.follow

-----------------------------------------------------------------------------
(* LinkExtractor *)

\* A domain is the sequence of its labels.
MatchesDomain(url, domain) == IsSuffix(domain, Web[url].domain)

LinkAllowed(x, url, text) ==
    /\ x.allow # {} => url \in x.allow
    /\ url \notin x.deny
    /\ Web[url].scheme \in {"http", "https", "file", "ftp"}
    /\ x.allowDomains # {} => \E domain \in x.allowDomains : MatchesDomain(url, domain)
    /\ \A domain \in x.denyDomains : ~MatchesDomain(url, domain)
    /\ Web[url].extension \notin x.denyExtensions
    /\ x.texts # {} => text \in x.texts

IsCandidate(x, element) ==
    /\ element.tag \in x.tags \ x.denyTags
    /\ element.attr \in x.attrs \ x.denyAttrs

\* The regions may overlap, and an element be in several.
Elements(x, page) ==
    LET regions == IF x.restrict = <<>> THEN <<"page">> ELSE x.restrict
    IN  FlattenSeq([i \in DOMAIN regions |-> Regions[page][regions[i]]])

LinkOf(x, element) == [
    url |-> IF x.canonicalize THEN Web[element.url].canonical ELSE element.url,
    text |-> element.text]

Extracts(x, element) ==
    /\ IsCandidate(x, element)
    /\ element.url \notin x.valueless
    /\ LinkAllowed(x, element.url, element.text)

ExtractLinks(x, page) ==
    LET elements == Elements(x, page)
        links[n \in 0 .. Len(elements)] ==
            IF n = 0 THEN <<>>
            ELSE LET link == LinkOf(x, elements[n])
                 IN  IF \/ ~Extracts(x, elements[n])
                        \/ x.unique /\ \E other \in ToSet(links[n - 1]) : other.url = link.url
                     THEN links[n - 1]
                     ELSE Append(links[n - 1], link)
    IN  links[Len(elements)]

-----------------------------------------------------------------------------
(* CrawlSpider *)

\* Those of the links that are not known and lead to none of the urls.
Without(links, known, urls) ==
    Kept(links, {n \in DOMAIN links : links[n] \notin known /\ links[n].url \notin urls})

\* Mutant: a link for which process_request answers None is left to the rules behind.
FollowedUnseen(followed, i, page) ==
    LET rule == Rules[i]
        kept == Without(ExtractLinks(rule.extractor, page), followed.seen,
                        rule.unlinked \cup rule.refused)
    IN  [seen |-> followed.seen \cup ToSet(kept),
         requests |-> followed.requests \o
                        [k \in DOMAIN kept |-> [url |-> kept[k].url, rule |-> i]]]

\* One turn of the loop over the rules: process_links is given the links that no rule before
\* took, and what process_request answers for one of them is yielded, unless it is None.
Followed(followed, i, page) ==
    LET rule == Rules[i]
        links == Without(ExtractLinks(rule.extractor, page), followed.seen, rule.unlinked)
        kept == Without(links, {}, rule.refused)
    IN  [seen |-> followed.seen \cup ToSet(links),
         requests |-> followed.requests \o
                        [k \in DOMAIN kept |-> [url |-> kept[k].url, rule |-> i]]]

RequestsToFollow == [page \in Html |->
    LET followed[i \in 0 .. Len(Rules)] ==
            IF i = 0 THEN [seen |-> {}, requests |-> <<>>]
            ELSE Followed(followed[i - 1], i, page)
    IN  followed[Len(Rules)].requests]

\* parse_with_rules for the response to a request of a rule, or, with rule 0, of start().
Parses(page, rule) ==
    FollowLinks /\ page \in Html /\ (rule = 0 \/ FollowsRule(Rules[rule]))

ParseWithRules(page, rule) == IF Parses(page, rule) THEN RequestsToFollow[page] ELSE <<>>

-----------------------------------------------------------------------------
(* What the rules are for, without an order of links and requests: the     *)
(* first rule that takes a link of a page decides what becomes of it.      *)

\* The links that a rule takes of a page: of those with one URL a unique extractor has the first.
Takes(i, page) ==
    LET x == Rules[i].extractor
        elements == Elements(x, page)
        places == {n \in DOMAIN elements : Extracts(x, elements[n])}
        first == {n \in places : \A m \in places :
                    LinkOf(x, elements[m]).url = LinkOf(x, elements[n]).url => n <= m}
        taken == {LinkOf(x, elements[n]) : n \in IF x.unique THEN first ELSE places}
    IN  {link \in taken : link.url \notin Rules[i].unlinked}

Wants(i, page) ==
    {link \in Takes(i, page) :
        /\ link.url \notin Rules[i].refused
        /\ \A j \in 1 .. i - 1 : link \notin Takes(j, page)}

Wanted == [page \in Html |->
    UNION {{[url |-> link.url, rule |-> i] : link \in Wants(i, page)} : i \in DOMAIN Rules}]
=============================================================================
