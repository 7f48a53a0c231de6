-------------------------- MODULE ReferrerPolicies --------------------------
(***************************************************************************)
(* The referrer policies of RefererMiddleware (spidermiddlewares.py): what *)
(* a request to one url says of the page it comes from, its url without    *)
(* credentials and fragment, its origin alone, or nothing.                 *)
(***************************************************************************)
EXTENDS Naturals, Sequences, SequencesExt, FiniteSets

CONSTANTS
  Urls,
  Site, Scheme,   \* host and scheme of each url
  Announced,      \* per url: the names in the Referrer-Policy header of its answers, or None
  DefaultPolicy,  \* REFERRER_POLICY
  None

Origin(u) == <<Scheme[u], Site[u]>>
SameOrigin(u, v) == Origin(u) = Origin(v)
TlsProtected(u) == Scheme[u] \in {"https", "ftps"}

Whole(u) == <<"url", u>>
OriginOnly(u) == <<"origin", Origin(u)>>

LocalSchemes == {"about", "blob", "data", "filesystem"}
Unless(silent, u, referrer) == IF Scheme[u] \in silent THEN None ELSE referrer

Downgrade(from, to) == TlsProtected(from) /\ ~TlsProtected(to)

NoReferrerWhenDowngrade(silent, from, to) ==
  IF Downgrade(from, to) THEN None ELSE Unless(silent, from, Whole(from))

SameOriginOnly(from, to) ==
  IF SameOrigin(from, to) THEN Unless(LocalSchemes, from, Whole(from)) ELSE None

StrictOrigin(from, to) ==
  IF Downgrade(from, to) THEN None ELSE Unless(LocalSchemes, from, OriginOnly(from))

\* The origin of a local page is not held back.
OriginWhenCrossOrigin(from, to) ==
  IF SameOrigin(from, to) THEN Unless(LocalSchemes, from, Whole(from)) ELSE OriginOnly(from)

StrictOriginWhenCrossOrigin(from, to) ==
  IF SameOrigin(from, to) THEN Unless(LocalSchemes, from, Whole(from)) ELSE StrictOrigin(from, to)

Policies == {"no-referrer", "no-referrer-when-downgrade", "same-origin", "origin", "strict-origin",
             "origin-when-cross-origin", "strict-origin-when-cross-origin", "unsafe-url",
             "scrapy-default", ""}

ASSUME PoliciesAssumption ==
  /\ DefaultPolicy \in Policies
  /\ Announced \in [Urls -> {None} \cup Seq(STRING)]

Referrer(policy, from, to) ==
  CASE policy = "no-referrer" -> None
    [] policy \in {"no-referrer-when-downgrade", ""} -> NoReferrerWhenDowngrade(LocalSchemes, from, to)
    [] policy = "scrapy-default" ->
         NoReferrerWhenDowngrade(LocalSchemes \cup {"file", "s3"}, from, to)
    [] policy = "same-origin" -> SameOriginOnly(from, to)
    [] policy = "origin" -> Unless(LocalSchemes, from, OriginOnly(from))
    [] policy = "strict-origin" -> StrictOrigin(from, to)
    [] policy = "origin-when-cross-origin" -> OriginWhenCrossOrigin(from, to)
    [] policy = "strict-origin-when-cross-origin" -> StrictOriginWhenCrossOrigin(from, to)
    [] policy = "unsafe-url" -> Unless(LocalSchemes, from, Whole(from))

\* The last name that is known, else the default.
Loaded(names) ==
  LET known == {n \in DOMAIN names : names[n] \in Policies}
  IN IF known = {} THEN DefaultPolicy ELSE names[Max(known)]

\* The key referrer_policy of the request, the header of the page, the default.
PolicyOf(asked, from) ==
  IF asked # None THEN Loaded(<<asked>>)
  ELSE IF Announced[from] # None THEN Loaded(Announced[from])
  ELSE DefaultPolicy

\* A request that comes from no page has no referrer.
RefererHeader(asked, from, to) ==
  IF from = None THEN None ELSE Referrer(PolicyOf(asked, from), from, to)

-----------------------------------------------------------------------------
\* What the policies are for, as the standard states them: which ones may name more
\* than the origin to another one, and which keep silent when TLS ends.
Talkative == {"no-referrer-when-downgrade", "", "unsafe-url", "scrapy-default"}
Indifferent == {"origin", "origin-when-cross-origin", "unsafe-url"}

Discreet(policy, from, to, referrer) ==
  referrer # None =>
    /\ referrer \in {Whole(from), OriginOnly(from)}
    /\ referrer = Whole(from) => policy \in Talkative \/ SameOrigin(from, to)
    /\ Downgrade(from, to) => policy \in Indifferent
    /\ policy # "no-referrer"
    /\ policy = "same-origin" => SameOrigin(from, to)
=============================================================================
