-------------------------- MODULE RequestJourneyProofs --------------------------
(***************************************************************************)
(* What a request carries, how often it is downloaded and what becomes of  *)
(* its outputs, for any settings, urls, servers and middlewares.  The two  *)
(* halves meet in RequestJourney but share nothing: the invariant of the   *)
(* spider middlewares' stream, StreamInv, and the one of the passages      *)
(* through the downloader middlewares, JourneyInv.                         *)
(***************************************************************************)
EXTENDS RequestJourney, SequenceTheorems, WellFoundedInduction, TLAPS

-----------------------------------------------------------------------------
(* The stream of one response. *)

Sources == 0 .. Components + 1
Output == [by : Sources, n : 1 .. MaxYields, through : SUBSET (1 .. Components)]
OutputNames == Sources \X (1 .. MaxYields)

StreamTypeOK ==
  /\ mode \in {"idle", "input", "output", "exception", "ended"}
  /\ turn \in 0 .. Components + 1
  /\ pending \in Seq(Output) /\ passed \in Seq(Output)
  /\ trouble \in Errors /\ origin \in 0 .. Components
  /\ denied \in BOOLEAN /\ errback \in BOOLEAN /\ reports \in Nat
  /\ asked \in Seq(1 .. Components)
  /\ yielded \in SUBSET OutputNames /\ cut \in SUBSET OutputNames

\* The outputs in front of a component come from the origin and passed what is between.
PendingInPlace ==
  mode = "output" =>
    /\ turn >= origin + 1 /\ ~denied
    /\ trouble.kind = "hook" => trouble.by >= origin + 1
    /\ \A i \in DOMAIN pending :
         From(pending[i].by) = origin /\ pending[i].through = (origin + 1) .. (turn - 1)

PassedInPlace ==
  \A i \in DOMAIN passed : passed[i].through = (From(passed[i].by) + 1) .. Components

\* What is neither cut nor passed is still in front of a component, unless the stream is
\* past saving: a fatal error is behind it and a buffering hook has read up to there.
AllAccountedFor ==
  /\ mode = "input" => yielded = {}
  /\ mode = "output" /\ (trouble # Fatal \/ pending # <<>>) =>
       yielded \ cut \subseteq Names(passed) \cup Names(pending)
  /\ mode = "exception" => yielded \ cut \subseteq Names(passed)
  /\ NothingYieldedIsLost

\* The hooks that were asked lie behind the error at hand.
HooksAreBehind ==
  /\ HooksAreAskedOnce
  /\ mode = "input" => asked = <<>>
  /\ mode = "output" => \A i \in DOMAIN asked : asked[i] <= origin
  /\ mode = "exception" => turn >= 1 /\ \A i \in DOMAIN asked : asked[i] < turn

DenialIsBefore ==
  /\ mode = "exception" /\ denied => turn <= HttpErrors
  /\ mode # "ended" => reports = 0
  /\ IgnoredIsNoError

StreamInv ==
  StreamTypeOK /\ PendingInPlace /\ PassedInPlace /\ AllAccountedFor /\ HooksAreBehind /\ DenialIsBefore

-----------------------------------------------------------------------------
(* The journey of one request. *)

Stages == {"idle", "scheduling", "chain", "outputs"}
PhaseNames == {"none", "request", "fetch", "response", "exception", "delivered", "failed", "replaced"}
Reports == {"nothing", "304", "5xx", "answer", "unsupported", "stopped"} \cup DownloadErrors
ErrorNames == {"none", "ignore", "other", "undecodable", "unsupported", "stopped"} \cup DownloadErrors
Hosts == {Site[u] : u \in Urls}

JourneyTypeOK ==
  /\ stage \in Stages /\ phase \in PhaseNames /\ at \in Nat
  /\ response \in Responses /\ error \in ErrorNames /\ heard \in Reports
  /\ cache \in [Urls -> Responses] /\ jar \in SUBSET Hosts
  /\ meddles \in Nat /\ downloads \in Nat
  /\ stage # "chain" => phase \in {"none", "replaced"}
  /\ stage \in {"scheduling", "chain"} => request \in Requests /\ wanted \in Requests

\* Of what a request carries: what its maker said stays, what retries and redirects write
\* belongs to its url.
Descends(r, w) ==
  /\ r.opts = w.opts /\ r.policy = w.policy
  /\ r.unfiltered => w.unfiltered \/ r.retries > 0
  /\ r.ticket \in {None, r.ticketFor}
  /\ r.authorized => Site[r.url] \in LoginSites
  /\ r.kept = NoEntry \/ "cached" \in r.kept.flags
  /\ r.from = IF r.via = <<>> THEN w.from ELSE Last(r.via)
  /\ r.referrer = RefererHeader(r.policy, r.from, r.url)

\* Every download is paid for by a retry, a redirect or a meddling, but the last.
Counted(r, w) ==
  /\ w.retries <= r.retries /\ w.hops <= r.hops
  /\ r.retries = w.retries \/ r.retries <= RetryTimes
  /\ r.hops = w.hops \/ r.hops <= RedirectMax

Unpaid == IF phase \in {"response", "exception", "delivered", "failed"} THEN 1 ELSE 0

DownloadsArePaid ==
  IF stage \in {"scheduling", "chain"}
  THEN /\ Counted(request, wanted)
       /\ downloads <= (request.retries - wanted.retries) + (request.hops - wanted.hops) + meddles + Unpaid
  ELSE downloads = 0

\* What an answer that is not a copy says of the server, and what excuses an old copy.
Said(a) ==
  "cached" \notin a.flags =>
    /\ a.status = 304 => heard = "304"
    /\ a.status >= 500 => heard = "5xx"

Excused(a, u) ==
  "cached" \in a.flags /\ ~a.fresh =>
    \/ heard \in {"304"} \cup DownloadErrors
    \/ heard = "5xx" /\ u \notin Revalidated

AnswerIsHeard ==
  /\ phase = "exception" /\ error \in DownloadErrors => heard = error
  /\ phase = "response" => Said(response)
  /\ phase \in {"response", "delivered"} => Excused(response, request.url)

\* Component c has been asked about the request on this passage.
AskedFor(c) ==
  \/ phase = "fetch"
  \/ phase = "request" /\ \E i \in DOMAIN Row.request : Row.request[i] = c /\ i < at

MetBy(c) == phase = "response" /\ \E i \in DOMAIN Row.response : Row.response[i] = c /\ i < at

\* The cookie of a page that redirects is in the jar before the redirect is followed.
CookieOfPage(u) == u \in Baking => Site[u] \in jar

PassageInOrder ==
  /\ at >= 1 \/ phase \notin {"request", "response", "exception"}
  /\ AskedFor("offsite") => ~Offsite(request)
  /\ AskedFor("cookies") => request.cookie = (Site[request.url] \in jar)
  /\ AskedFor("proxy") => request.ticket \in {None, request.proxy}
  /\ MetBy("cookies") => CookieOfPage(request.url)

PageCookieIsKept == request.via # <<>> => CookieOfPage(Last(request.via))

JourneyInv ==
  /\ JourneyTypeOK /\ DownloadsArePaid /\ AnswerIsHeard
  /\ stage = "chain" => PassageInOrder
  /\ stage \in {"scheduling", "chain"} => Descends(request, wanted) /\ PageCookieIsKept

-----------------------------------------------------------------------------
(* Sequences of outputs. *)

LEMMA NamesAre ==
  ASSUME NEW S, NEW s \in Seq(S)
  PROVE  /\ Len(s) \in Nat /\ DOMAIN s = 1 .. Len(s)
         /\ \A i \in 1 .. Len(s) : s[i] \in S /\ <<s[i].by, s[i].n>> \in Names(s)
         /\ Names(s) = {<<s[i].by, s[i].n>> : i \in 1 .. Len(s)}
  <1>1. Len(s) \in Nat /\ DOMAIN s = 1 .. Len(s) /\ \A i \in 1 .. Len(s) : s[i] \in S
    BY LenProperties, ElementOfSeq
  <1>2. Names(s) = {<<s[i].by, s[i].n>> : i \in 1 .. Len(s)}
    BY <1>1 DEF Names, ToSet
  <1>. QED
    BY <1>1, <1>2

\* Every output of r is one of s.
Within(r, s) == \A n \in DOMAIN r : \E m \in DOMAIN s : r[n] = s[m]

LEMMA OneIsTaken ==
  ASSUME NEW S, NEW s \in Seq(S), NEW i \in DOMAIN s
  PROVE  LET r == RemoveAt(s, i)
         IN  /\ r \in Seq(S) /\ Within(r, s)
             /\ Names(s) \subseteq Names(r) \cup Names(<<s[i]>>)
             /\ Names(<<s[i]>>) = {<<s[i].by, s[i].n>>}
  <1>. DEFINE a == SubSeq(s, 1, i - 1)
              b == SubSeq(s, i + 1, Len(s))
              r == RemoveAt(s, i)
  <1>1. Len(s) \in Nat /\ i \in 1 .. Len(s) /\ DOMAIN s = 1 .. Len(s)
    BY NamesAre
  <1>2. /\ a \in Seq(S) /\ Len(a) = i - 1
        /\ \A n \in 1 .. i - 1 : a[n] = s[n]
    BY <1>1, SubSeqProperties
  <1>3. /\ b \in Seq(S) /\ Len(b) = Len(s) - i
        /\ \A n \in 1 .. Len(s) - i : b[n] = s[n + i]
    <2>1. CASE i < Len(s)
      BY <1>1, <2>1, SubSeqProperties, SMTT(30)
    <2>2. CASE i = Len(s)
      BY <1>1, <2>2, SubSeqProperties
    <2>. QED
      BY <1>1, <2>1, <2>2
  <1>4. /\ r \in Seq(S) /\ Len(r) = Len(s) - 1
        /\ \A n \in 1 .. Len(s) - 1 : r[n] = IF n <= i - 1 THEN a[n] ELSE b[n - (i - 1)]
    <2>1. r = a \o b
      BY DEF RemoveAt
    <2>. HIDE DEF a, b, r
    <2>2. /\ r \in Seq(S) /\ Len(r) = Len(a) + Len(b)
          /\ \A n \in 1 .. Len(a) + Len(b) : r[n] = IF n <= Len(a) THEN a[n] ELSE b[n - Len(a)]
      BY <2>1, <1>2, <1>3, ConcatProperties
    <2>3. Len(a) = i - 1 /\ Len(a) + Len(b) = Len(s) - 1
      BY <1>1, <1>2, <1>3
    <2>. QED
      BY <2>2, <2>3
  <1>. HIDE DEF a, b, r
  <1>5. \A n \in 1 .. Len(s) - 1 : r[n] = IF n < i THEN s[n] ELSE s[n + 1]
    <2>. TAKE n \in 1 .. Len(s) - 1
    <2>1. CASE n < i
      BY <1>1, <1>2, <1>4, <2>1
    <2>2. CASE ~(n < i)
      <3>1. n - (i - 1) \in 1 .. Len(s) - i /\ (n - (i - 1)) + i = n + 1
        BY <1>1, <2>2
      <3>2. r[n] = b[n - (i - 1)]
        BY <1>1, <1>4, <2>2
      <3>. QED
        BY <1>3, <3>1, <3>2, <2>2
    <2>. QED
      BY <2>1, <2>2
  <1>6. Within(r, s)
    <2>. SUFFICES ASSUME NEW n \in 1 .. Len(s) - 1
                  PROVE  \E m \in 1 .. Len(s) : r[n] = s[m]
      BY <1>1, <1>4, NamesAre DEF Within
    <2>1. n \in 1 .. Len(s) /\ n + 1 \in 1 .. Len(s)
      BY <1>1
    <2>. QED
      BY <1>5, <2>1
  <1>7. Names(<<s[i]>>) = {<<s[i].by, s[i].n>>}
    BY DEF Names, ToSet
  <1>8. ASSUME NEW m \in 1 .. Len(s), m # i
        PROVE  <<s[m].by, s[m].n>> \in Names(r)
    <2>1. CASE m < i
      <3>1. m \in 1 .. Len(r) /\ r[m] = s[m]
        BY <1>1, <1>4, <1>5, <2>1
      <3>. QED
        BY <1>4, <3>1, NamesAre
    <2>2. CASE i < m
      <3>1. m - 1 \in 1 .. Len(r) /\ (m - 1) + 1 = m
        BY <1>1, <1>4, <2>2
      <3>2. r[m - 1] = s[m]
        BY <1>1, <1>4, <1>5, <2>2, <3>1
      <3>. QED
        BY <1>4, <3>1, <3>2, NamesAre
    <2>. QED
      BY <1>1, <1>8, <2>1, <2>2
  <1>. QED
    BY <1>1, <1>4, <1>6, <1>7, <1>8, NamesAre, SMTT(30) DEF r

LEMMA SomeAreTaken ==
  ASSUME NEW S, NEW s \in Seq(S), NEW k \in 0 .. Len(s)
  PROVE  LET r == SubSeq(s, 1, k)
             q == SubSeq(s, k + 1, Len(s))
         IN  /\ r \in Seq(S) /\ q \in Seq(S) /\ Within(r, s) /\ Within(q, s)
             /\ Names(s) \subseteq Names(r) \cup Names(q)
             /\ k < Len(s) => s # <<>>
  <1>. DEFINE r == SubSeq(s, 1, k)
              q == SubSeq(s, k + 1, Len(s))
  <1>1. Len(s) \in Nat /\ DOMAIN s = 1 .. Len(s) /\ k \in Nat /\ k <= Len(s)
    BY NamesAre
  <1>2. /\ r \in Seq(S) /\ Len(r) = k
        /\ \A n \in 1 .. k : r[n] = s[n]
    BY <1>1, SubSeqProperties
  <1>3. /\ q \in Seq(S) /\ Len(q) = Len(s) - k
        /\ \A n \in 1 .. Len(s) - k : q[n] = s[n + k]
    <2>. DEFINE l == Len(s)
    <2>1. l \in Nat /\ k \in Nat /\ k <= l /\ \A n \in k + 1 .. l : s[n] \in S
      BY <1>1, NamesAre
    <2>2. q = SubSeq(s, k + 1, l)
      OBVIOUS
    <2>. HIDE DEF l, q
    <2>3. /\ q \in Seq(S) /\ Len(q) = IF k + 1 <= l THEN l - (k + 1) + 1 ELSE 0
          /\ \A n \in 1 .. l - (k + 1) + 1 : q[n] = s[(k + 1) + n - 1]
      BY <2>1, <2>2, SubSeqProperties
    <2>4. Len(q) = l - k
      BY <2>1, <2>3
    <2>5. \A n \in 1 .. l - k : q[n] = s[n + k]
      <3>1. \A n \in 1 .. l - k : n \in 1 .. l - (k + 1) + 1 /\ (k + 1) + n - 1 = n + k
        BY <2>1
      <3>. QED
        BY <2>3, <3>1
    <2>. QED
      BY <2>3, <2>4, <2>5 DEF l
  <1>. HIDE DEF r, q
  <1>4. Within(r, s)
    <2>. SUFFICES ASSUME NEW n \in 1 .. k
                  PROVE  \E m \in 1 .. Len(s) : r[n] = s[m]
      BY <1>1, <1>2, NamesAre DEF Within
    <2>. QED
      BY <1>1, <1>2
  <1>5. Within(q, s)
    <2>. SUFFICES ASSUME NEW n \in 1 .. Len(s) - k
                  PROVE  \E m \in 1 .. Len(s) : q[n] = s[m]
      BY <1>1, <1>3, NamesAre DEF Within
    <2>1. n + k \in 1 .. Len(s)
      BY <1>1
    <2>. QED
      BY <1>3, <2>1
  <1>6. ASSUME NEW m \in 1 .. Len(s)
        PROVE  <<s[m].by, s[m].n>> \in Names(r) \cup Names(q)
    <2>1. CASE m <= k
      <3>1. m \in 1 .. Len(r) /\ r[m] = s[m]
        BY <1>1, <1>2, <2>1
      <3>. QED
        BY <1>2, <3>1, NamesAre
    <2>2. CASE m > k
      <3>1. m - k \in 1 .. Len(q) /\ (m - k) + k = m
        BY <1>1, <1>3, <2>2
      <3>2. q[m - k] = s[m]
        BY <1>1, <1>3, <3>1
      <3>. QED
        BY <1>3, <3>1, <3>2, NamesAre
    <2>. QED
      BY <1>1, <2>1, <2>2
  <1>7. k < Len(s) => s # <<>>
    BY <1>1, EmptySeq
  <1>. QED
    BY <1>2, <1>3, <1>4, <1>5, <1>6, <1>7, NamesAre DEF r, q

\* A component marks what it lets through and changes nothing else of it.
LEMMA MarkedOutputs ==
  ASSUME NEW s \in Seq(Output), NEW i \in 1 .. Components
  PROVE  /\ Marked(i, s) \in Seq(Output) /\ Names(Marked(i, s)) = Names(s)
         /\ DOMAIN Marked(i, s) = DOMAIN s
         /\ Marked(i, s) = <<>> <=> s = <<>>
         /\ \A n \in DOMAIN s : /\ Marked(i, s)[n].by = s[n].by
                                /\ Marked(i, s)[n].through = s[n].through \cup {i}
  <1>. DEFINE r == Marked(i, s)
  <1>1. /\ Len(s) \in Nat /\ DOMAIN s = 1 .. Len(s)
        /\ \A n \in 1 .. Len(s) : s[n] \in Output
        /\ Names(s) = {<<s[n].by, s[n].n>> : n \in 1 .. Len(s)}
    BY NamesAre
  <1>2. /\ DOMAIN r = 1 .. Len(s)
        /\ \A n \in 1 .. Len(s) : r[n] = [s[n] EXCEPT !.through = @ \cup {i}]
    BY <1>1 DEF Marked
  <1>3. \A n \in 1 .. Len(s) :
          r[n] \in Output /\ r[n].by = s[n].by /\ r[n].n = s[n].n /\ r[n].through = s[n].through \cup {i}
    BY <1>1, <1>2 DEF Output
  <1>4. r \in Seq(Output) /\ Len(r) = Len(s)
    <2>1. r = [n \in 1 .. Len(s) |-> r[n]]
      BY <1>1 DEF Marked
    <2>. QED
      BY <1>1, <1>3, <2>1, IsASeq, LenProperties
  <1>. HIDE DEF r
  <1>5. Names(r) = {<<r[n].by, r[n].n>> : n \in 1 .. Len(r)}
    BY <1>4, NamesAre
  <1>6. r = <<>> <=> s = <<>>
    BY <1>4, EmptySeq
  <1>. QED
    BY <1>1, <1>2, <1>3, <1>4, <1>5, <1>6 DEF r

LEMMA NewOutputs ==
  ASSUME NEW by \in Sources, NEW outputs \in Yields(by)
  PROVE  /\ outputs \in Seq(Output) /\ Names(outputs) \in SUBSET OutputNames
         /\ \A n \in DOMAIN outputs : outputs[n].by = by /\ outputs[n].through = {}
  <1>1. PICK k \in 0 .. MaxYields :
          outputs = [n \in 1 .. k |-> [by |-> by, n |-> n, through |-> {}]]
    BY DEF Yields
  <1>2. \A n \in 1 .. k : [by |-> by, n |-> n, through |-> {}] \in Output
    BY ComponentsAssumption DEF Output
  <1>3. outputs \in Seq(Output) /\ DOMAIN outputs = 1 .. k /\ Len(outputs) = k
    BY <1>1, <1>2, ComponentsAssumption, IsASeq, LenProperties
  <1>4. \A n \in 1 .. k : outputs[n] = [by |-> by, n |-> n, through |-> {}]
    BY <1>1
  <1>5. \A n \in 1 .. k : <<outputs[n].by, outputs[n].n>> \in OutputNames
    <2>. TAKE n \in 1 .. k
    <2>1. n \in 1 .. MaxYields
      BY ComponentsAssumption
    <2>2. outputs[n].by = by /\ outputs[n].n = n
      <3>1. outputs[n] = [by |-> by, n |-> n, through |-> {}]
        BY <1>4
      <3>. QED
        BY <3>1
    <2>. QED
      BY <2>1, <2>2 DEF OutputNames
  <1>. QED
    BY <1>3, <1>4, <1>5, NamesAre

Joins(t, s, r) == t = s \o r

LEMMA JoinedOutputs ==
  ASSUME NEW s \in Seq(Output), NEW r \in Seq(Output), NEW t, Joins(t, s, r)
  PROVE  /\ t \in Seq(Output) /\ Names(s) \cup Names(r) \subseteq Names(t)
         /\ \A n \in DOMAIN t :
              \/ \E m \in DOMAIN s : t[n] = s[m]
              \/ \E m \in DOMAIN r : t[n] = r[m]
  <1>1. Len(s) \in Nat /\ Len(r) \in Nat /\ DOMAIN s = 1 .. Len(s) /\ DOMAIN r = 1 .. Len(r)
    BY NamesAre
  <1>2. /\ t \in Seq(Output) /\ Len(t) = Len(s) + Len(r)
        /\ \A n \in 1 .. Len(s) + Len(r) : t[n] = IF n <= Len(s) THEN s[n] ELSE r[n - Len(s)]
    BY ConcatProperties DEF Joins
  <1>3. DOMAIN t = 1 .. Len(s) + Len(r)
    BY <1>2, LenProperties
  <1>4. \A n \in 1 .. Len(s) : n \in 1 .. Len(t) /\ t[n] = s[n]
    BY <1>1, <1>2
  <1>5. ASSUME NEW n \in 1 .. Len(r)
        PROVE  n + Len(s) \in 1 .. Len(t) /\ t[n + Len(s)] = r[n]
    <2>1. n + Len(s) \in 1 .. Len(s) + Len(r) /\ ~(n + Len(s) <= Len(s)) /\ (n + Len(s)) - Len(s) = n
      BY <1>1
    <2>. QED
      BY <1>2, <2>1
  <1>6. Names(s) \subseteq Names(t)
    BY <1>2, <1>4, NamesAre, SMTT(30)
  <1>7. Names(r) \subseteq Names(t)
    BY <1>2, <1>5, NamesAre, SMTT(30)
  <1>8. ASSUME NEW n \in 1 .. Len(s) + Len(r)
        PROVE  \/ \E m \in 1 .. Len(s) : t[n] = s[m]
               \/ \E m \in 1 .. Len(r) : t[n] = r[m]
    <2>1. CASE n <= Len(s)
      <3>1. n \in 1 .. Len(s)
        BY <2>1, <1>1
      <3>. QED
        BY <3>1, <1>4
    <2>2. CASE ~(n <= Len(s))
      <3>1. n - Len(s) \in 1 .. Len(r)
        BY <1>1, <2>2
      <3>. QED
        BY <1>2, <2>2, <3>1
    <2>. QED
      BY <2>1, <2>2
  <1>. QED
    BY <1>1, <1>2, <1>3, <1>6, <1>7, <1>8

-----------------------------------------------------------------------------
(* The stream keeps its invariant. *)

LEMMA StreamStarts == StreamIdle => StreamInv
  <1>. SUFFICES ASSUME StreamIdle PROVE StreamInv
    OBVIOUS
  <1>. USE DEF StreamIdle
  <1>1. <<>> \in Seq(Output) /\ <<>> \in Seq(1 .. Components) /\ DOMAIN <<>> = {}
    OBVIOUS
  <1>2. StreamTypeOK
    <2>1. 0 \in 0 .. Components + 1 /\ 0 \in 0 .. Components /\ 0 \in Nat
      BY ComponentsAssumption
    <2>2. denied \in BOOLEAN /\ errback \in BOOLEAN
      OBVIOUS
    <2>3. trouble \in Errors
      BY DEF Errors
    <2>. QED
      BY <1>1, <2>1, <2>2, <2>3 DEF StreamTypeOK
  <1>3. PendingInPlace /\ PassedInPlace /\ AllAccountedFor
    BY <1>1 DEF PendingInPlace, PassedInPlace, AllAccountedFor, NothingYieldedIsLost
  <1>4. HooksAreBehind /\ DenialIsBefore
    BY <1>1 DEF HooksAreBehind, HooksAreAskedOnce, DenialIsBefore, IgnoredIsNoError
  <1>. QED
    BY <1>2, <1>3, <1>4 DEF StreamInv

\* A response that begins, and the reset after its end, are what the first lemma says but for
\* the mode.
LEMMA ResponseBegins ==
  ASSUME StreamInv, NEW a \in BOOLEAN, NEW b \in BOOLEAN, BeginResponse(a, b)
  PROVE  StreamInv'
  <1>. USE DEF BeginResponse
  <1>1. <<>> \in Seq(Output) /\ <<>> \in Seq(1 .. Components) /\ DOMAIN <<>> = {}
    OBVIOUS
  <1>2. StreamTypeOK'
    BY <1>1, ComponentsAssumption DEF StreamTypeOK, Errors
  <1>3. PendingInPlace' /\ PassedInPlace' /\ AllAccountedFor'
    BY <1>1 DEF PendingInPlace, PassedInPlace, AllAccountedFor, NothingYieldedIsLost
  <1>4. HooksAreBehind' /\ DenialIsBefore'
    BY <1>1 DEF HooksAreBehind, HooksAreAskedOnce, DenialIsBefore, IgnoredIsNoError
  <1>. QED
    BY <1>2, <1>3, <1>4 DEF StreamInv

LEMMA ErrorsAre ==
  /\ NoError \in Errors /\ Source \in Errors /\ Fatal \in Errors
  /\ \A e \in Errors : /\ e.kind = "fatal" <=> e = Fatal
                       /\ e.kind = "hook" => e.by \in 1 .. Components
                       /\ e.kind \in {"none", "source", "fatal", "hook"}
  /\ \A i \in 1 .. Components : Failed(i) \in Errors /\ Failed(i).kind = "hook" /\ Failed(i).by = i
  /\ NoError.kind = "none" /\ Source.kind = "source" /\ Fatal.kind = "fatal"
  /\ NoError # Fatal /\ Source # Fatal /\ \A i \in 1 .. Components : Failed(i) # Fatal
  <1>. USE DEF Errors, NoError, Source, Fatal, Failed
  <1>1. \A i \in 1 .. Components : Failed(i) \in Errors /\ Failed(i).kind = "hook" /\ Failed(i).by = i
    OBVIOUS
  <1>2. \A e \in Errors : /\ e.kind = "fatal" <=> e = Fatal
                          /\ e.kind = "hook" => e.by \in 1 .. Components
                          /\ e.kind \in {"none", "source", "fatal", "hook"}
    OBVIOUS
  <1>. QED
    BY <1>1, <1>2

\* What a new source sends into the chain.
LEMMA SourceFlows ==
  ASSUME StreamTypeOK, PassedInPlace',
         NEW by \in Sources, Flow(by),
         reports' = 0, passed' \in Seq(Output), errback' \in BOOLEAN, cut' = cut,
         asked' \in Seq(1 .. Components), HooksAreAskedOnce',
         \A i \in DOMAIN asked' : asked'[i] <= From(by),
         yielded \ cut \subseteq Names(passed')
  PROVE  StreamInv'
  <1>1. PICK outputs \in Yields(by), e \in {NoError, Source, Fatal} :
          /\ mode' = "output" /\ turn' = From(by) + 1 /\ origin' = From(by) /\ denied' = FALSE
          /\ pending' = outputs /\ trouble' = e
          /\ yielded' = yielded \cup Names(outputs)
    BY DEF Flow
  <1>2. From(by) \in 0 .. Components
    BY ComponentsAssumption DEF From, Sources, Errback
  <1>3. /\ outputs \in Seq(Output) /\ Names(outputs) \in SUBSET OutputNames
        /\ \A n \in DOMAIN outputs : outputs[n].by = by /\ outputs[n].through = {}
    BY NewOutputs
  <1>4. trouble' \in Errors /\ trouble'.kind # "hook"
    BY <1>1, ErrorsAre
  <1>5. StreamTypeOK'
    <2>1. turn' \in 0 .. Components + 1 /\ origin' \in 0 .. Components
      BY <1>1, <1>2, ComponentsAssumption
    <2>. QED
      BY <1>1, <1>3, <1>4, <2>1 DEF StreamTypeOK
  <1>6. PendingInPlace'
    <2>1. (From(by) + 1) .. ((From(by) + 1) - 1) = {}
      BY <1>2
    <2>2. turn' >= origin' + 1 /\ ~denied'
      BY <1>1, <1>2
    <2>3. ASSUME NEW n \in DOMAIN pending'
          PROVE  From(pending'[n].by) = origin' /\ pending'[n].through = (origin' + 1) .. (turn' - 1)
      <3>1. pending'[n].by = by /\ pending'[n].through = {}
        BY <1>1, <1>3
      <3>2. (origin' + 1) .. (turn' - 1) = {}
        BY <1>1, <2>1
      <3>. QED
        BY <1>1, <3>1, <3>2
    <2>. QED
      BY <1>4, <2>2, <2>3 DEF PendingInPlace
  <1>7. AllAccountedFor'
    BY <1>1 DEF AllAccountedFor, NothingYieldedIsLost
  <1>8. HooksAreBehind' /\ DenialIsBefore'
    BY <1>1 DEF HooksAreBehind, DenialIsBefore, IgnoredIsNoError
  <1>. QED
    BY <1>5, <1>6, <1>7, <1>8 DEF StreamInv

\* An error that reaches _run_callback with no errback left to ask.
LEMMA ErrorRises ==
  ASSUME StreamTypeOK, PassedInPlace', HooksAreAskedOnce,
         NEW i \in 1 .. Components + 1, Except(i),
         UNCHANGED <<origin, errback, yielded, cut, asked>>,
         reports' = 0, passed' \in Seq(Output),
         denied' \in BOOLEAN, denied' => i <= HttpErrors,
         \A n \in DOMAIN asked : asked[n] < i,
         yielded \ cut \subseteq Names(passed')
  PROVE  StreamInv'
  <1>. USE DEF Except
  <1>1. <<>> \in Seq(Output) /\ NoError \in Errors /\ 0 \in Nat
    BY ErrorsAre
  <1>2. StreamTypeOK'
    <2>1. turn' \in 0 .. Components + 1
      BY ComponentsAssumption
    <2>. QED
      BY <1>1, <2>1 DEF StreamTypeOK
  <1>3. PendingInPlace' /\ AllAccountedFor'
    BY DEF PendingInPlace, AllAccountedFor, NothingYieldedIsLost
  <1>4. HooksAreBehind'
    <2>1. turn' >= 1
      BY ComponentsAssumption
    <2>. QED
      BY <2>1 DEF HooksAreBehind, HooksAreAskedOnce
  <1>5. DenialIsBefore'
    BY DEF DenialIsBefore, IgnoredIsNoError
  <1>. QED
    BY <1>2, <1>3, <1>4, <1>5 DEF StreamInv

LEMMA SourcesAre ==
  /\ Callback \in Sources /\ Errback \in Sources /\ From(Callback) = 0 /\ From(Errback) = 0
  /\ \A i \in 1 .. Components : i \in Sources /\ From(i) = i
  /\ HttpErrors \in 1 .. Components
  <1>1. HttpErrors \in 1 .. Components /\ Components \in Nat
    BY ComponentsAssumption
  <1>2. 0 \in Sources /\ Components + 1 \in Sources /\ 0 # Components + 1
    BY <1>1 DEF Sources
  <1>3. \A i \in 1 .. Components : i \in Sources /\ i # Components + 1
    BY <1>1 DEF Sources
  <1>. QED
    BY <1>1, <1>2, <1>3 DEF Callback, Errback, From

LEMMA CallbackFailureFlows ==
  ASSUME StreamTypeOK, PassedInPlace', CallbackFailed, UNCHANGED <<cut, asked>>,
         asked = <<>>, reports' = 0, passed' \in Seq(Output),
         yielded \ cut \subseteq Names(passed')
  PROVE  StreamInv'
  <1>1. /\ HooksAreAskedOnce /\ HooksAreAskedOnce' /\ DOMAIN asked = {}
        /\ asked' \in Seq(1 .. Components) /\ DOMAIN asked' = {}
    BY DEF HooksAreAskedOnce
  <1>2. CASE errback /\ Flow(Errback) /\ errback' = FALSE
    <2>1. errback' \in BOOLEAN
      BY <1>2
    <2>. QED
      BY <1>1, <1>2, <2>1, SourceFlows, SourcesAre
  <1>3. CASE ~errback /\ Except(1) /\ UNCHANGED <<errback, origin, denied, yielded>>
    <2>1. denied' \in BOOLEAN
      BY <1>3 DEF StreamTypeOK
    <2>2. 1 \in 1 .. Components + 1 /\ 1 <= HttpErrors
      BY ComponentsAssumption, SourcesAre
    <2>. QED
      BY <1>1, <1>3, <2>1, <2>2, ErrorRises
  <1>. QED
    BY <1>2, <1>3 DEF CallbackFailed

-----------------------------------------------------------------------------
(* The actions one by one. *)

LEMMA PassedStays ==
  ASSUME StreamInv, passed' = passed
  PROVE  PassedInPlace' /\ passed' \in Seq(Output)
  BY DEF StreamInv, StreamTypeOK, PassedInPlace

LEMMA InputPasses ==
  ASSUME StreamInv, PassInput
  PROVE  StreamInv'
  <1>. USE DEF PassInput
  <1>1. turn' \in 0 .. Components + 1
    BY ComponentsAssumption DEF StreamInv, StreamTypeOK
  <1>2. StreamTypeOK'
    BY <1>1 DEF StreamInv, StreamTypeOK
  <1>3. PendingInPlace' /\ PassedInPlace' /\ AllAccountedFor'
    BY DEF StreamInv, PendingInPlace, PassedInPlace, AllAccountedFor, NothingYieldedIsLost
  <1>4. HooksAreBehind' /\ DenialIsBefore'
    BY DEF StreamInv, HooksAreBehind, HooksAreAskedOnce, DenialIsBefore, IgnoredIsNoError
  <1>. QED
    BY <1>2, <1>3, <1>4 DEF StreamInv

\* Nothing was asked, told or yielded while the response goes in.
LEMMA InputIsClean ==
  ASSUME StreamInv, mode = "input"
  PROVE  asked = <<>> /\ yielded = {} /\ reports = 0 /\ HooksAreAskedOnce
  BY DEF StreamInv, HooksAreBehind, AllAccountedFor, DenialIsBefore

LEMMA InputFails ==
  ASSUME StreamInv, FailInput
  PROVE  StreamInv'
  <1>. USE DEF FailInput
  <1>1. /\ asked = <<>> /\ yielded = {} /\ reports' = 0 /\ HooksAreAskedOnce /\ HooksAreAskedOnce'
        /\ DOMAIN asked = {} /\ asked' = <<>> /\ cut' = cut /\ DOMAIN asked' = {}
        /\ asked' \in Seq(1 .. Components)
    BY InputIsClean DEF HooksAreAskedOnce
  <1>2. StreamTypeOK /\ PassedInPlace' /\ passed' \in Seq(Output)
    BY PassedStays DEF StreamInv
  <1>3. yielded \ cut \subseteq Names(passed')
    BY <1>1
  <1>4. CASE turn = HttpErrors /\ denied /\ CallbackFailed
    BY <1>1, <1>2, <1>3, <1>4, CallbackFailureFlows
  <1>5. CASE turn # HttpErrors /\ errback /\ Flow(Errback) /\ errback' = FALSE
    <2>1. errback' \in BOOLEAN
      BY <1>5
    <2>. QED
      BY <1>1, <1>2, <1>3, <1>5, <2>1, SourceFlows, SourcesAre
  <1>6. CASE /\ turn # HttpErrors /\ ~errback /\ Except(1) /\ denied' = FALSE
             /\ UNCHANGED <<errback, origin, yielded>>
    <2>1. 1 \in 1 .. Components + 1
      BY ComponentsAssumption
    <2>2. denied' \in BOOLEAN /\ ~denied'
      BY <1>6
    <2>. QED
      BY <1>1, <1>2, <1>3, <1>6, <2>1, <2>2, ErrorRises
  <1>. QED
    BY <1>4, <1>5, <1>6

LEMMA CallbackIsCalled ==
  ASSUME StreamInv, CallCallback
  PROVE  StreamInv'
  <1>. USE DEF CallCallback
  <1>1. /\ yielded = {} /\ reports' = 0 /\ HooksAreAskedOnce'
        /\ asked' = <<>> /\ cut' = cut /\ DOMAIN asked' = {} /\ asked' \in Seq(1 .. Components)
    BY InputIsClean DEF HooksAreAskedOnce
  <1>2. StreamTypeOK /\ PassedInPlace' /\ passed' \in Seq(Output) /\ errback' \in BOOLEAN
    BY PassedStays DEF StreamInv, StreamTypeOK
  <1>3. yielded \ cut \subseteq Names(passed')
    BY <1>1
  <1>. QED
    BY <1>1, <1>2, <1>3, SourceFlows, SourcesAre

\* A component's output hook: what it lets through is marked, what it takes is cut.
LEMMA OutputsMoveOn ==
  ASSUME StreamInv, mode = "output", turn <= Components, turn' = turn + 1,
         UNCHANGED <<mode, origin, denied, errback, passed, reports, asked, yielded>>,
         trouble' = trouble \/ trouble' = Failed(turn),
         NEW r \in Seq(Output), Within(r, pending), pending' = Marked(turn, r),
         cut \subseteq cut', cut' \in SUBSET OutputNames,
         trouble' # Fatal \/ r # <<>> =>
           /\ trouble # Fatal \/ pending # <<>>
           /\ Names(pending) \subseteq Names(r) \cup cut'
  PROVE  StreamInv'
  <1>1. /\ turn \in 1 .. Components /\ turn >= origin + 1 /\ Components \in Nat /\ origin \in Nat
        /\ turn \in Nat
    BY ComponentsAssumption DEF StreamInv, StreamTypeOK, PendingInPlace
  <1>2. /\ pending' \in Seq(Output) /\ Names(pending') = Names(r) /\ DOMAIN pending' = DOMAIN r
        /\ pending' = <<>> <=> r = <<>>
        /\ \A n \in DOMAIN r : /\ pending'[n].by = r[n].by
                               /\ pending'[n].through = r[n].through \cup {turn}
    BY <1>1, MarkedOutputs
  <1>3. trouble' \in Errors /\ (trouble'.kind = "hook" => trouble'.by >= origin + 1)
    BY <1>1, ErrorsAre DEF StreamInv, StreamTypeOK, PendingInPlace
  <1>4. StreamTypeOK'
    <2>1. turn' \in 0 .. Components + 1
      BY <1>1
    <2>. QED
      BY <1>2, <1>3, <2>1 DEF StreamInv, StreamTypeOK
  <1>5. PendingInPlace'
    <2>1. turn' >= origin' + 1 /\ ~denied'
      BY <1>1 DEF StreamInv, PendingInPlace
    <2>2. ASSUME NEW n \in DOMAIN pending'
          PROVE  From(pending'[n].by) = origin' /\ pending'[n].through = (origin' + 1) .. (turn' - 1)
      <3>1. PICK m \in DOMAIN pending : r[n] = pending[m]
        BY <1>2 DEF Within
      <3>2. From(r[n].by) = origin /\ r[n].through = (origin + 1) .. (turn - 1)
        BY <3>1 DEF StreamInv, PendingInPlace
      <3>3. (origin + 1) .. (turn' - 1) = ((origin + 1) .. (turn - 1)) \cup {turn}
        BY <1>1
      <3>. QED
        BY <1>2, <3>2, <3>3
    <2>. QED
      BY <1>3, <2>1, <2>2 DEF PendingInPlace
  <1>6. AllAccountedFor'
    <2>1. ASSUME trouble' # Fatal \/ pending' # <<>>
          PROVE  yielded' \ cut' \subseteq Names(passed') \cup Names(pending')
      <3>1. yielded \ cut \subseteq Names(passed) \cup Names(pending)
        BY <1>2, <2>1 DEF StreamInv, AllAccountedFor
      <3>2. Names(passed') = Names(passed)
        OBVIOUS
      <3>. QED
        BY <1>2, <2>1, <3>1, <3>2
    <2>. QED
      BY <2>1 DEF AllAccountedFor, NothingYieldedIsLost
  <1>7. PassedInPlace' /\ HooksAreBehind' /\ DenialIsBefore'
    BY DEF StreamInv, PassedInPlace, HooksAreBehind, HooksAreAskedOnce, DenialIsBefore, IgnoredIsNoError
  <1>. QED
    BY <1>4, <1>5, <1>6, <1>7 DEF StreamInv

LEMMA OutputsAreProcessed ==
  ASSUME StreamInv, ProcessOutput
  PROVE  StreamInv'
  <1>. USE DEF ProcessOutput
  <1>1. /\ pending \in Seq(Output) /\ trouble \in Errors /\ cut \in SUBSET OutputNames
        /\ cut \subseteq cut' /\ cut' \in SUBSET OutputNames
    BY DEF StreamInv, StreamTypeOK
  <1>2. turn \in 1 .. Components
    BY ComponentsAssumption DEF StreamInv, StreamTypeOK, PendingInPlace
  <1>3. CASE turn \notin Streaming /\ trouble.kind = "fatal"
    <2>1. trouble' = Fatal
      BY <1>1, <1>3, ErrorsAre
    <2>2. <<>> \in Seq(Output) /\ Within(<<>>, pending)
      BY DEF Within
    <2>3. pending' = Marked(turn, <<>>)
      BY <1>2, <1>3, <2>2, MarkedOutputs
    <2>. QED
      BY <1>1, <2>1, <2>2, <2>3, OutputsMoveOn
  <1>4. CASE ~(turn \notin Streaming /\ trouble.kind = "fatal")
    <2>1. Within(pending, pending) /\ pending' = Marked(turn, pending)
      BY <1>4 DEF Within
    <2>. QED
      BY <1>1, <2>1, OutputsMoveOn
  <1>. QED
    BY <1>3, <1>4

LEMMA OutputsAreFiltered ==
  ASSUME StreamInv, FilterOutput
  PROVE  StreamInv'
  <1>1. PICK i \in DOMAIN pending :
          /\ mode = "output" /\ turn \in Filters /\ turn' = turn + 1
          /\ pending' = Marked(turn, RemoveAt(pending, i))
          /\ cut' = cut \cup Names(<<pending[i]>>)
          /\ UNCHANGED <<mode, trouble, origin, denied, errback, passed, reports, asked, yielded>>
    BY DEF FilterOutput
  <1>. DEFINE r == RemoveAt(pending, i)
  <1>2. pending \in Seq(Output) /\ cut \in SUBSET OutputNames /\ turn <= Components
    BY <1>1, ComponentsAssumption DEF StreamInv, StreamTypeOK
  <1>3. /\ r \in Seq(Output) /\ Within(r, pending)
        /\ Names(pending) \subseteq Names(r) \cup Names(<<pending[i]>>)
        /\ Names(<<pending[i]>>) = {<<pending[i].by, pending[i].n>>}
    BY <1>2, OneIsTaken
  <1>4. <<pending[i].by, pending[i].n>> \in OutputNames /\ pending # <<>>
    <2>1. pending[i] \in Output /\ i \in 1 .. Len(pending) /\ Len(pending) \in Nat
      BY <1>2, NamesAre
    <2>2. pending # <<>>
      BY <2>1, <1>2, EmptySeq
    <2>. QED
      BY <2>1, <2>2 DEF Output, OutputNames
  <1>5. cut \subseteq cut' /\ cut' \in SUBSET OutputNames
    BY <1>1, <1>2, <1>3, <1>4
  <1>. HIDE DEF r
  <1>6. pending' = Marked(turn, r)
    BY <1>1 DEF r
  <1>7. Names(pending) \subseteq Names(r) \cup cut'
    BY <1>1, <1>3
  <1>. QED
    BY <1>1, <1>2, <1>3, <1>4, <1>5, <1>6, <1>7, OutputsMoveOn

LEMMA OutputsFail ==
  ASSUME StreamInv, FailOutput
  PROVE  StreamInv'
  <1>1. PICK k \in 0 .. Len(pending) :
          /\ mode = "output" /\ turn \in 1 .. Components \ {HttpErrors} /\ turn' = turn + 1
          /\ IF turn \in Streaming THEN k < Len(pending) \/ trouble = NoError
                                   ELSE trouble.kind # "fatal"
          /\ pending' = Marked(turn, SubSeq(pending, 1, k))
          /\ cut' = cut \cup Names(SubSeq(pending, k + 1, Len(pending)))
          /\ trouble' = Failed(turn)
          /\ UNCHANGED <<mode, origin, denied, errback, passed, reports, asked, yielded>>
    BY DEF FailOutput
  <1>. DEFINE r == SubSeq(pending, 1, k)
              q == SubSeq(pending, k + 1, Len(pending))
  <1>2. pending \in Seq(Output) /\ cut \in SUBSET OutputNames /\ turn <= Components /\ trouble \in Errors
    BY <1>1, ComponentsAssumption DEF StreamInv, StreamTypeOK
  <1>3. /\ r \in Seq(Output) /\ q \in Seq(Output) /\ Within(r, pending)
        /\ Names(pending) \subseteq Names(r) \cup Names(q)
        /\ k < Len(pending) => pending # <<>>
    BY <1>2, SomeAreTaken
  <1>. HIDE DEF r, q
  <1>4. pending' = Marked(turn, r) /\ cut' = cut \cup Names(q)
    BY <1>1 DEF r, q
  <1>5. Names(q) \subseteq OutputNames
    <2>1. ASSUME NEW n \in 1 .. Len(q) PROVE <<q[n].by, q[n].n>> \in OutputNames
      <3>1. q[n] \in Output
        BY <1>3, NamesAre
      <3>. QED
        BY <3>1 DEF Output, OutputNames
    <2>. QED
      BY <2>1, <1>3, NamesAre
  <1>6. trouble # Fatal \/ pending # <<>>
    BY <1>1, <1>2, <1>3, ErrorsAre
  <1>7. cut \subseteq cut' /\ cut' \in SUBSET OutputNames /\ Names(pending) \subseteq Names(r) \cup cut'
    BY <1>2, <1>3, <1>4, <1>5
  <1>. QED
    BY <1>1, <1>2, <1>3, <1>4, <1>6, <1>7, OutputsMoveOn

LEMMA OutputsArrive ==
  ASSUME StreamInv, AfterOutputs
  PROVE  StreamInv'
  <1>. USE DEF AfterOutputs
  <1>1. /\ pending \in Seq(Output) /\ passed \in Seq(Output) /\ trouble \in Errors
        /\ Components \in Nat /\ turn = Components + 1 /\ origin \in 0 .. Components /\ ~denied
        /\ trouble.kind = "hook" => trouble.by >= origin + 1
        /\ reports' = 0 /\ HooksAreAskedOnce /\ cut' = cut /\ asked' = asked
        /\ \A n \in DOMAIN asked : asked[n] <= origin /\ asked[n] \in Nat
        /\ asked \in Seq(1 .. Components)
    <2>1. asked \in Seq(1 .. Components) /\ Components \in Nat
      BY ComponentsAssumption DEF StreamInv, StreamTypeOK
    <2>2. \A n \in DOMAIN asked : asked[n] \in Nat
      BY <2>1
    <2>3. turn = Components + 1
      BY <2>1 DEF StreamInv, StreamTypeOK
    <2>. QED
      BY <2>1, <2>2, <2>3 DEF StreamInv, StreamTypeOK, PendingInPlace, HooksAreBehind, DenialIsBefore
  <1>2. CASE trouble.kind = "fatal"
    <2>1. trouble = Fatal /\ passed' = <<>> /\ mode' = "ended"
          /\ UNCHANGED <<turn, pending, trouble, origin, denied, errback, yielded>>
      BY <1>1, <1>2, ErrorsAre
    <2>2. StreamTypeOK'
      BY <2>1, <1>1 DEF StreamInv, StreamTypeOK
    <2>3. PendingInPlace' /\ PassedInPlace' /\ AllAccountedFor'
      BY <2>1 DEF PendingInPlace, PassedInPlace, AllAccountedFor, NothingYieldedIsLost
    <2>4. HooksAreBehind' /\ DenialIsBefore'
      BY <2>1, <1>1 DEF HooksAreBehind, HooksAreAskedOnce, DenialIsBefore, IgnoredIsNoError
    <2>. QED
      BY <2>2, <2>3, <2>4 DEF StreamInv
  <1>3. CASE trouble.kind # "fatal"
    <2>1. passed' = passed \o pending
      BY <1>3
    <2>2. /\ passed' \in Seq(Output)
          /\ Names(passed) \cup Names(pending) \subseteq Names(passed')
          /\ \A n \in DOMAIN passed' : \/ \E m \in DOMAIN passed : passed'[n] = passed[m]
                                       \/ \E m \in DOMAIN pending : passed'[n] = pending[m]
      <3>1. pending \in Seq(Output) /\ passed \in Seq(Output)
        BY <1>1
      <3>2. Joins(passed', passed, pending)
        BY <2>1 DEF Joins
      <3>. HIDE DEF AfterOutputs
      <3>. QED
        BY <3>1, <3>2, JoinedOutputs
    <2>3. PassedInPlace'
      <3>1. \A m \in DOMAIN pending :
              pending[m].through = (From(pending[m].by) + 1) .. Components
        <4>1. (turn - 1) = Components
          BY <1>1
        <4>. QED
          BY <4>1 DEF StreamInv, PendingInPlace
      <3>2. \A m \in DOMAIN passed :
              passed[m].through = (From(passed[m].by) + 1) .. Components
        BY DEF StreamInv, PassedInPlace
      <3>. QED
        BY <2>2, <3>1, <3>2 DEF PassedInPlace
    <2>4. yielded \ cut \subseteq Names(passed')
      <3>1. trouble # Fatal
        BY <1>3, ErrorsAre
      <3>2. yielded \ cut \subseteq Names(passed) \cup Names(pending)
        BY <3>1 DEF StreamInv, AllAccountedFor
      <3>. QED
        BY <2>2, <3>2
    <2>5. CASE trouble.kind = "none"
      <3>1. mode' = "ended" /\ UNCHANGED <<turn, pending, trouble, origin, denied, errback, yielded>>
        BY <2>5
      <3>2. StreamTypeOK'
        BY <3>1, <2>2, <1>1 DEF StreamInv, StreamTypeOK
      <3>3. PendingInPlace' /\ AllAccountedFor'
        BY <3>1, <1>1, <2>4 DEF PendingInPlace, AllAccountedFor, NothingYieldedIsLost
      <3>4. HooksAreBehind' /\ DenialIsBefore'
        BY <3>1, <1>1 DEF HooksAreBehind, HooksAreAskedOnce, DenialIsBefore, IgnoredIsNoError
      <3>. QED
        BY <2>3, <3>2, <3>3, <3>4 DEF StreamInv
    <2>6. CASE trouble.kind = "hook"
      <3>1. Except(trouble.by + 1) /\ UNCHANGED <<origin, denied, errback, yielded>>
        BY <2>6
      <3>2. trouble.by \in 1 .. Components
        BY <1>1, <2>6, ErrorsAre
      <3>3. trouble.by + 1 \in 1 .. Components + 1 /\ \A n \in DOMAIN asked : asked[n] < trouble.by + 1
        BY <1>1, <2>6, <3>2
      <3>4. denied' \in BOOLEAN /\ ~denied' /\ StreamTypeOK
        BY <1>1, <3>1 DEF StreamInv, StreamTypeOK
      <3>. QED
        BY <1>1, <2>2, <2>3, <2>4, <3>1, <3>3, <3>4, ErrorRises
    <2>7. CASE trouble.kind = "source" /\ origin > 0
      <3>1. Except(origin + 1) /\ UNCHANGED <<origin, denied, errback, yielded>>
        BY <2>7
      <3>2. origin + 1 \in 1 .. Components + 1 /\ \A n \in DOMAIN asked : asked[n] < origin + 1
        BY <1>1
      <3>3. denied' \in BOOLEAN /\ ~denied' /\ StreamTypeOK
        BY <1>1, <3>1 DEF StreamInv, StreamTypeOK
      <3>. QED
        BY <1>1, <2>2, <2>3, <2>4, <3>1, <3>2, <3>3, ErrorRises
    <2>8. CASE trouble.kind = "source" /\ ~(origin > 0)
      <3>1. CallbackFailed
        BY <2>8
      <3>2. asked = <<>>
        <4>1. origin = 0
          BY <1>1, <2>8
        <4>2. Len(asked) \in Nat /\ DOMAIN asked = 1 .. Len(asked)
          BY <1>1, LenProperties
        <4>3. \A n \in DOMAIN asked : asked[n] \in 1 .. Components
          BY <1>1, <4>2, ElementOfSeq
        <4>4. \A n \in DOMAIN asked : FALSE
          BY <1>1, <4>1, <4>3
        <4>5. Len(asked) = 0
          BY <4>2, <4>4
        <4>. QED
          BY <1>1, <4>5, EmptySeq
      <3>. QED
        BY <1>1, <2>2, <2>3, <2>4, <3>1, <3>2, CallbackFailureFlows DEF StreamInv
    <2>. QED
      BY <1>1, <1>3, <2>5, <2>6, <2>7, <2>8, ErrorsAre
  <1>. QED
    BY <1>2, <1>3

\* A hook that is asked stands behind those that were.
LEMMA HookIsAsked ==
  ASSUME StreamInv, mode = "exception", turn <= Components, asked' = Append(asked, turn)
  PROVE  /\ turn \in 1 .. Components
         /\ asked' \in Seq(1 .. Components) /\ HooksAreAskedOnce'
         /\ \A n \in DOMAIN asked' : asked'[n] <= turn
  <1>1. /\ asked \in Seq(1 .. Components) /\ turn \in 1 .. Components
        /\ \A n \in DOMAIN asked : asked[n] < turn
        /\ HooksAreAskedOnce
    BY ComponentsAssumption DEF StreamInv, StreamTypeOK, HooksAreBehind
  <1>2. /\ asked' \in Seq(1 .. Components) /\ Len(asked') = Len(asked) + 1
        /\ \A n \in 1 .. Len(asked) : asked'[n] = asked[n]
        /\ asked'[Len(asked) + 1] = turn
    BY <1>1, AppendProperties
  <1>3. /\ Len(asked) \in Nat /\ DOMAIN asked = 1 .. Len(asked)
        /\ DOMAIN asked' = 1 .. Len(asked) + 1
    BY <1>1, <1>2, LenProperties
  <1>4. \A n \in DOMAIN asked' : n \in DOMAIN asked \/ n = Len(asked) + 1
    BY <1>3
  <1>5. \A n \in DOMAIN asked : asked[n] \in 1 .. Components
    BY <1>1, <1>3, ElementOfSeq
  <1>6. \A n \in DOMAIN asked' : asked'[n] <= turn
    BY <1>1, <1>2, <1>3, <1>4, <1>5
  <1>7. HooksAreAskedOnce'
    <2>. SUFFICES ASSUME NEW i \in DOMAIN asked', NEW j \in DOMAIN asked', i < j
                  PROVE  asked'[i] < asked'[j]
      BY DEF HooksAreAskedOnce
    <2>1. i \in DOMAIN asked
      BY <1>3
    <2>2. CASE j \in DOMAIN asked
      BY <1>1, <1>2, <1>3, <2>1, <2>2 DEF HooksAreAskedOnce
    <2>3. CASE j = Len(asked) + 1
      BY <1>1, <1>2, <1>3, <2>1, <2>3
    <2>. QED
      BY <1>4, <2>2, <2>3
  <1>. QED
    BY <1>1, <1>2, <1>6, <1>7

LEMMA ExceptionIsProcessed ==
  ASSUME StreamInv, ProcessException
  PROVE  StreamInv'
  <1>. USE DEF ProcessException
  <1>1. /\ turn \in 1 .. Components
        /\ asked' \in Seq(1 .. Components) /\ HooksAreAskedOnce'
        /\ \A n \in DOMAIN asked' : asked'[n] <= turn
    BY HookIsAsked
  <1>2. /\ StreamTypeOK /\ reports' = 0 /\ yielded \ cut \subseteq Names(passed)
        /\ cut' = cut /\ errback' = errback /\ errback \in BOOLEAN /\ Components \in Nat
        /\ denied => turn <= HttpErrors
    BY ComponentsAssumption DEF StreamInv, StreamTypeOK, AllAccountedFor, DenialIsBefore
  <1>3. CASE ~(denied /\ turn = HttpErrors) /\ turn' = turn + 1
             /\ UNCHANGED <<mode, pending, trouble, origin, denied, passed, yielded>>
    <2>1. turn' \in 0 .. Components + 1 /\ turn' >= 1
      BY <1>1, <1>2, <1>3
    <2>2. StreamTypeOK'
      BY <1>1, <1>2, <1>3, <2>1 DEF StreamTypeOK
    <2>3. \A n \in DOMAIN asked' : asked'[n] < turn'
      <3>1. DOMAIN asked' = 1 .. Len(asked')
        BY <1>1, LenProperties
      <3>2. \A n \in DOMAIN asked' : asked'[n] \in 1 .. Components
        BY <1>1, <3>1, ElementOfSeq
      <3>. QED
        BY <1>1, <1>2, <1>3, <3>2
    <2>4. HooksAreBehind'
      BY <1>1, <1>3, <2>1, <2>3 DEF HooksAreBehind
    <2>5. denied' => turn' <= HttpErrors
      BY <1>1, <1>2, <1>3, SourcesAre
    <2>6. DenialIsBefore'
      BY <1>2, <1>3, <2>5 DEF DenialIsBefore, IgnoredIsNoError
    <2>7. PendingInPlace' /\ PassedInPlace' /\ AllAccountedFor'
      BY <1>2, <1>3 DEF StreamInv, PendingInPlace, PassedInPlace, AllAccountedFor, NothingYieldedIsLost
    <2>. QED
      BY <2>2, <2>4, <2>6, <2>7 DEF StreamInv
  <1>4. CASE /\ turn # HttpErrors
             /\ mode' = "ended" /\ trouble' = Fatal /\ passed' = <<>>
             /\ UNCHANGED <<turn, pending, origin, denied, yielded>>
    <2>1. StreamTypeOK'
      BY <1>1, <1>2, <1>4, ErrorsAre DEF StreamTypeOK
    <2>2. PendingInPlace' /\ PassedInPlace' /\ AllAccountedFor'
      BY <1>4 DEF PendingInPlace, PassedInPlace, AllAccountedFor, NothingYieldedIsLost
    <2>3. HooksAreBehind' /\ DenialIsBefore'
      BY <1>1, <1>2, <1>4 DEF HooksAreBehind, DenialIsBefore, IgnoredIsNoError
    <2>. QED
      BY <2>1, <2>2, <2>3 DEF StreamInv
  <1>5. CASE turn # HttpErrors /\ Flow(turn) /\ UNCHANGED passed
    <2>1. PassedInPlace' /\ passed' \in Seq(Output)
      BY <1>5, PassedStays
    <2>2. turn \in Sources /\ From(turn) = turn
      BY <1>1, SourcesAre
    <2>3. yielded \ cut \subseteq Names(passed')
      BY <1>2, <1>5
    <2>4. \A n \in DOMAIN asked' : asked'[n] <= From(turn)
      BY <1>1, <2>2
    <2>5. errback' \in BOOLEAN
      BY <1>2
    <2>. QED
      BY <1>1, <1>2, <1>5, <2>1, <2>2, <2>3, <2>4, <2>5, SourceFlows
  <1>. QED
    BY <1>3, <1>4, <1>5

LEMMA ResponseIsIgnored ==
  ASSUME StreamInv, IgnoreResponse
  PROVE  StreamInv'
  <1>. USE DEF IgnoreResponse
  <1>1. HttpErrors \in 1 .. Components /\ turn <= Components
    BY SourcesAre, ComponentsAssumption
  <1>2. /\ turn \in 1 .. Components
        /\ asked' \in Seq(1 .. Components) /\ HooksAreAskedOnce'
        /\ \A n \in DOMAIN asked' : asked'[n] <= turn
    BY <1>1, HookIsAsked
  <1>3. /\ StreamTypeOK /\ reports' = 0 /\ yielded \ cut \subseteq Names(passed) /\ Components \in Nat
    BY ComponentsAssumption DEF StreamInv, AllAccountedFor, DenialIsBefore
  <1>4. <<>> \in Seq(Output) /\ DOMAIN <<>> = {}
    OBVIOUS
  <1>5. StreamTypeOK'
    <2>1. turn' \in 0 .. Components + 1 /\ origin' \in 0 .. Components
      BY <1>2, <1>3
    <2>2. trouble' \in Errors /\ pending' \in Seq(Output) /\ denied' \in BOOLEAN
      BY <1>4, ErrorsAre
    <2>. QED
      BY <1>2, <1>3, <2>1, <2>2 DEF StreamTypeOK
  <1>6. PendingInPlace'
    <2>1. turn' >= origin' + 1 /\ ~denied' /\ trouble'.kind # "hook"
      BY <1>2, ErrorsAre
    <2>. QED
      BY <1>4, <2>1 DEF PendingInPlace
  <1>7. PassedInPlace' /\ AllAccountedFor'
    BY <1>3 DEF StreamInv, PassedInPlace, AllAccountedFor, NothingYieldedIsLost
  <1>8. HooksAreBehind' /\ DenialIsBefore'
    BY <1>2, <1>3 DEF HooksAreBehind, DenialIsBefore, IgnoredIsNoError
  <1>. QED
    BY <1>5, <1>6, <1>7, <1>8 DEF StreamInv

LEMMA ErrorIsReported ==
  ASSUME StreamInv, ReportError
  PROVE  StreamInv'
  <1>. USE DEF ReportError
  <1>1. StreamTypeOK'
    BY DEF StreamInv, StreamTypeOK
  <1>2. ~denied
    BY SourcesAre, ComponentsAssumption DEF StreamInv, StreamTypeOK, DenialIsBefore
  <1>3. PendingInPlace' /\ PassedInPlace' /\ AllAccountedFor'
    BY DEF StreamInv, PendingInPlace, PassedInPlace, AllAccountedFor, NothingYieldedIsLost
  <1>4. HooksAreBehind' /\ DenialIsBefore'
    BY <1>2 DEF StreamInv, HooksAreBehind, HooksAreAskedOnce, DenialIsBefore, IgnoredIsNoError
  <1>. QED
    BY <1>1, <1>3, <1>4 DEF StreamInv

LEMMA StreamStays ==
  ASSUME StreamInv, UNCHANGED streamVars
  PROVE  StreamInv'
  <1>. USE DEF streamVars
  <1>1. StreamTypeOK' /\ PendingInPlace' /\ PassedInPlace'
    BY DEF StreamInv, StreamTypeOK, PendingInPlace, PassedInPlace
  <1>2. AllAccountedFor' /\ HooksAreBehind' /\ DenialIsBefore'
    BY DEF StreamInv, AllAccountedFor, NothingYieldedIsLost, HooksAreBehind, HooksAreAskedOnce,
           DenialIsBefore, IgnoredIsNoError
  <1>. QED
    BY <1>1, <1>2 DEF StreamInv

LEMMA StreamAdvances ==
  ASSUME StreamInv, StreamStep
  PROVE  StreamInv'
  BY InputPasses, InputFails, CallbackIsCalled, OutputsAreProcessed, OutputsAreFiltered, OutputsFail,
     OutputsArrive, ExceptionIsProcessed, ResponseIsIgnored, ErrorIsReported DEF StreamStep

LEMMA StreamIsForgotten ==
  ASSUME StreamInv, OutputsEnd
  PROVE  StreamInv'
  <1>1. StreamIdle'
    BY DEF OutputsEnd, StreamIdle
  <1>2. <<>> \in Seq(Output) /\ <<>> \in Seq(1 .. Components) /\ DOMAIN <<>> = {}
    OBVIOUS
  <1>3. StreamTypeOK'
    <2>1. 0 \in 0 .. Components + 1 /\ 0 \in 0 .. Components /\ 0 \in Nat
      BY ComponentsAssumption
    <2>2. denied' \in BOOLEAN /\ errback' \in BOOLEAN
      BY <1>1 DEF StreamIdle
    <2>3. trouble' \in Errors
      BY <1>1 DEF StreamIdle, Errors
    <2>. QED
      BY <1>1, <1>2, <2>1, <2>2, <2>3 DEF StreamTypeOK, StreamIdle
  <1>4. PendingInPlace' /\ PassedInPlace' /\ AllAccountedFor'
    BY <1>1, <1>2 DEF StreamIdle, PendingInPlace, PassedInPlace, AllAccountedFor, NothingYieldedIsLost
  <1>5. HooksAreBehind' /\ DenialIsBefore'
    BY <1>1, <1>2 DEF StreamIdle, HooksAreBehind, HooksAreAskedOnce, DenialIsBefore, IgnoredIsNoError
  <1>. QED
    BY <1>3, <1>4, <1>5 DEF StreamInv

LEMMA StreamNext == StreamInv /\ [Next]_vars => StreamInv'
  <1>. SUFFICES ASSUME StreamInv, [Next]_vars PROVE StreamInv'
    OBVIOUS
  <1>1. CASE UNCHANGED streamVars
    BY <1>1, StreamStays
  <1>2. CASE Outputs
    BY <1>2, StreamAdvances DEF Outputs
  <1>3. CASE OutputsEnd
    BY <1>3, StreamIsForgotten
  <1>4. ASSUME NEW b \in BOOLEAN, BeginResponse(b, Denied)
        PROVE  StreamInv'
    <2>1. Denied \in BOOLEAN
      BY DEF Denied
    <2>. QED
      BY <1>4, <2>1, ResponseBegins
  <1>5. ASSUME ~(UNCHANGED streamVars), Next
        PROVE  Outputs \/ OutputsEnd \/ \E b \in BOOLEAN : BeginResponse(b, Denied)
    <2>1. Begin \/ Age \/ Schedule \/ Drop \/ Handle \/ Replaced \/ Failure => UNCHANGED streamVars
      BY DEF Begin, Age, Schedule, Drop, Handle, Replaced, Failure
    <2>2. Delivered => UNCHANGED streamVars \/ \E b \in BOOLEAN : BeginResponse(b, Denied)
      BY DEF Delivered
    <2>. QED
      BY <1>5, <2>1, <2>2 DEF Next, Journey
  <1>6. UNCHANGED vars => UNCHANGED streamVars
    BY DEF vars
  <1>. QED
    BY <1>1, <1>2, <1>3, <1>4, <1>5, <1>6

LEMMA PlacesAreKept == StreamInv => OutputsSurviveErrors
  <1>. SUFFICES ASSUME StreamInv PROVE OutputsSurviveErrors
    OBVIOUS
  <1>1. EveryOutputPassesTheRest
    BY DEF StreamInv, PassedInPlace, EveryOutputPassesTheRest, ToSet
  <1>. QED
    BY <1>1 DEF StreamInv, AllAccountedFor, HooksAreBehind, DenialIsBefore, OutputsSurviveErrors

\* Whatever fails in the callback, the errback, an output hook or a recovery, an output that
\* reaches the engine went through each component on its way once, only hooks drop
\* outputs, no exception hook is asked twice and HttpError is never reported, for any
\* number of spider middlewares (process_output_with_error, _process_exception_from).
THEOREM StreamsSurviveErrors == Spec => []OutputsSurviveErrors
  <1>1. Init => StreamInv
    BY StreamStarts DEF Init
  <1>. QED
    BY <1>1, StreamNext, PlacesAreKept, PTL DEF Spec

-----------------------------------------------------------------------------
(* The referrer policies. *)

LEMMA LeastNumber ==
  ASSUME NEW T, T \subseteq Nat, T # {}
  PROVE  \E x \in T : \A y \in T : x <= y
  <1>. DEFINE R == OpToRel(<, Nat)
  <1>1. IsWellFoundedOn(R, Nat)
    BY NatLessThanWellFounded
  <1>. HIDE DEF R
  <1>2. \E x \in T : \A y \in T : ~ (<<y, x>> \in R)
    BY <1>1, WFMin
  <1>3. \A x, y \in T : <<y, x>> \notin R => x <= y
    BY DEF R, OpToRel
  <1>. QED
    BY <1>2, <1>3

LEMMA GreatestNumber ==
  ASSUME NEW n \in Nat, NEW K, K \subseteq 1 .. n, K # {}
  PROVE  Max(K) \in K
  <1>. DEFINE T == {i \in Nat : n - i \in K}
  <1>1. T # {}
    <2>1. PICK m \in K : TRUE
      OBVIOUS
    <2>2. n - m \in Nat /\ n - (n - m) = m
      BY <2>1
    <2>. QED
      BY <2>1, <2>2
  <1>2. PICK x \in T : \A y \in T : x <= y
    BY <1>1, LeastNumber
  <1>3. n - x \in K
    BY <1>2
  <1>4. ASSUME NEW m \in K PROVE n - x >= m
    <2>1. n - m \in T
      BY <1>4
    <2>. QED
      BY <1>2, <2>1
  <1>. QED
    BY <1>3, <1>4, Zenon DEF Max

LEMMA PolicyIsKnown ==
  ASSUME NEW policy \in {None} \cup STRING, NEW u \in Urls
  PROVE  PolicyOf(policy, u) \in Policies
  <1>1. ASSUME NEW names \in Seq(STRING) PROVE Loaded(names) \in Policies
    <2>. DEFINE known == {n \in DOMAIN names : names[n] \in Policies}
    <2>1. Len(names) \in Nat /\ known \subseteq 1 .. Len(names)
      BY LenProperties
    <2>2. known # {} => Max(known) \in known
      BY <2>1, GreatestNumber
    <2>3. known # {} => names[Max(known)] \in Policies
      BY <2>2
    <2>. QED
      BY <2>3, PoliciesAssumption DEF Loaded
  <1>2. CASE policy # None
    <2>1. <<policy>> \in Seq(STRING)
      BY <1>2
    <2>. QED
      BY <1>1, <1>2, <2>1 DEF PolicyOf
  <1>3. CASE policy = None
    BY <1>1, <1>3, PoliciesAssumption DEF PolicyOf
  <1>. QED
    BY <1>2, <1>3

\* No policy says more than the standard lets it.
LEMMA ReferrerIsDiscreet ==
  ASSUME NEW policy \in Policies, NEW u \in Urls, NEW v \in Urls
  PROVE  /\ Referrer(policy, u, v) \in {None, Whole(u), OriginOnly(u)}
         /\ Discreet(policy, u, v, Referrer(policy, u, v))
  <1>. DEFINE w == Whole(u)
              o == OriginOnly(u)
  <1>1. w # o
    BY DEF Whole, OriginOnly
  <1>2. ASSUME NEW silent, NEW r PROVE Unless(silent, u, r) \in {None, r}
    BY DEF Unless
  <1>. HIDE DEF w, o
  <1>3. CASE policy = "no-referrer"
    BY <1>3 DEF Referrer, Discreet
  <1>4. ASSUME NEW silent
        PROVE  LET r == NoReferrerWhenDowngrade(silent, u, v)
               IN  r \in {None, w} /\ (Downgrade(u, v) => r = None)
    BY <1>2 DEF NoReferrerWhenDowngrade, w
  <1>5. CASE policy \in {"no-referrer-when-downgrade", "", "scrapy-default"}
    <2>1. \E silent : Referrer(policy, u, v) = NoReferrerWhenDowngrade(silent, u, v)
      BY <1>5 DEF Referrer
    <2>. QED
      BY <1>1, <1>4, <1>5, <2>1 DEF Discreet, Talkative, w, o
  <1>6. CASE policy = "same-origin"
    <2>1. /\ Referrer(policy, u, v) \in {None, w}
          /\ Referrer(policy, u, v) # None => SameOrigin(u, v)
      BY <1>2, <1>6 DEF Referrer, SameOriginOnly, w
    <2>2. SameOrigin(u, v) => ~Downgrade(u, v)
      BY DEF SameOrigin, Origin, Downgrade, TlsProtected
    <2>. QED
      BY <1>6, <2>1, <2>2 DEF Discreet, w
  <1>7. CASE policy = "origin"
    <2>1. Referrer(policy, u, v) \in {None, o}
      BY <1>2, <1>7 DEF Referrer, o
    <2>. QED
      BY <1>1, <1>7, <2>1 DEF Discreet, Indifferent, w, o
  <1>8. StrictOrigin(u, v) \in {None, o} /\ (Downgrade(u, v) => StrictOrigin(u, v) = None)
    BY <1>2 DEF StrictOrigin, o
  <1>9. CASE policy = "strict-origin"
    <2>1. Referrer(policy, u, v) = StrictOrigin(u, v)
      BY <1>9 DEF Referrer
    <2>. QED
      BY <1>1, <1>8, <1>9, <2>1 DEF Discreet, w, o
  <1>10. CASE policy = "origin-when-cross-origin"
    <2>1. /\ Referrer(policy, u, v) \in {None, w, o}
          /\ Referrer(policy, u, v) = w => SameOrigin(u, v) \/ w = None
      BY <1>1, <1>2, <1>10 DEF Referrer, OriginWhenCrossOrigin, w, o
    <2>. QED
      BY <1>10, <2>1 DEF Discreet, Indifferent, w, o
  <1>11. CASE policy = "strict-origin-when-cross-origin"
    <2>1. Referrer(policy, u, v) = StrictOriginWhenCrossOrigin(u, v)
      BY <1>11 DEF Referrer
    <2>2. CASE SameOrigin(u, v)
      <3>1. Referrer(policy, u, v) \in {None, w}
        BY <1>2, <2>1, <2>2 DEF StrictOriginWhenCrossOrigin, w
      <3>2. ~Downgrade(u, v)
        BY <2>2 DEF SameOrigin, Origin, Downgrade, TlsProtected
      <3>. QED
        BY <1>11, <2>2, <3>1, <3>2 DEF Discreet, w
    <2>3. CASE ~SameOrigin(u, v)
      <3>1. Referrer(policy, u, v) = StrictOrigin(u, v)
        BY <2>1, <2>3 DEF StrictOriginWhenCrossOrigin
      <3>. QED
        BY <1>1, <1>8, <1>11, <3>1 DEF Discreet, w, o
    <2>. QED
      BY <2>2, <2>3
  <1>12. CASE policy = "unsafe-url"
    <2>1. Referrer(policy, u, v) \in {None, w}
      BY <1>2, <1>12 DEF Referrer, w
    <2>. QED
      BY <1>12, <2>1 DEF Discreet, Talkative, Indifferent, w
  <1>. QED
    BY <1>3, <1>5, <1>6, <1>7, <1>9, <1>10, <1>11, <1>12 DEF Policies

LEMMA HeaderIs ==
  ASSUME NEW policy \in {None} \cup STRING, NEW u \in Urls \cup {None}, NEW v \in Urls
  PROVE  /\ RefererHeader(policy, u, v) \in Referrers
         /\ u = None => RefererHeader(policy, u, v) = None
         /\ u # None => Discreet(PolicyOf(policy, u), u, v, RefererHeader(policy, u, v))
  <1>1. CASE u = None
    BY <1>1 DEF RefererHeader, Referrers
  <1>2. CASE u # None
    <2>1. u \in Urls /\ PolicyOf(policy, u) \in Policies
      BY <1>2, PolicyIsKnown
    <2>. QED
      BY <1>2, <2>1, ReferrerIsDiscreet DEF RefererHeader, Referrers
  <1>. QED
    BY <1>1, <1>2

-----------------------------------------------------------------------------
(* The ways a request changes. *)

\* r is q with other cookies, logins, proxies or cache keys.
SameJourney(r, q) ==
  /\ r.url = q.url /\ r.retries = q.retries /\ r.hops = q.hops /\ r.via = q.via
  /\ r.unfiltered = q.unfiltered /\ r.opts = q.opts /\ r.policy = q.policy
  /\ r.from = q.from /\ r.referrer = q.referrer

\* What a hook writes into a request fits it.
Fits(r) ==
  /\ r \in Requests
  /\ r.ticket \in {None, r.ticketFor}
  /\ r.authorized => Site[r.url] \in LoginSites
  /\ r.kept = NoEntry \/ "cached" \in r.kept.flags

LEMMA SameDescends ==
  ASSUME NEW q, NEW w, NEW r, Descends(q, w), SameJourney(r, q), Fits(r)
  PROVE  Descends(r, w)
  BY DEF Descends, SameJourney, Fits

LEMMA SameCounted ==
  ASSUME NEW q, NEW w, NEW r, Counted(q, w), SameJourney(r, q)
  PROVE  Counted(r, w)
  BY DEF Counted, SameJourney

LEMMA SameOffsite ==
  ASSUME NEW q, NEW r, SameJourney(r, q)
  PROVE  Offsite(r) <=> Offsite(q)
  BY DEF Offsite, SameJourney

LEMMA EntriesAre ==
  /\ NoEntry \in Responses /\ NoResponse \in Responses /\ Page \in Responses
  /\ Page.status = 200 /\ Page.flags = {} /\ NoResponse.status = 0 /\ NoResponse.flags = {}
  /\ \A a \in Responses : Copy(a) \in Responses /\ Copy(a).flags = {"cached"}
                          /\ Copy(a).fresh = a.fresh
  <1>1. NoResponse \in Responses
    BY DEF NoResponse, Responses
  <1>2. \A a \in Responses : Copy(a) \in Responses /\ Copy(a).flags = {"cached"}
                             /\ Copy(a).fresh = a.fresh
    BY DEF Copy, Responses, Flags
  <1>3. Page \in Responses /\ Page.status = 200 /\ Page.flags = {}
    <2>1. 200 \in Nat /\ NoResponse.flags = {}
      BY DEF NoResponse
    <2>. QED
      BY <1>1, <2>1 DEF Page, Responses
  <1>. QED
    BY <1>1, <1>2, <1>3 DEF NoEntry, NoResponse

LEMMA LoginIsAdded ==
  ASSUME NEW q, Fits(q)
  PROVE  LET r == [q EXCEPT !.authorized = @ \/ Site[q.url] \in LoginSites]
         IN  /\ Fits(r) /\ SameJourney(r, q)
             /\ r.cookie = q.cookie /\ r.ticket = q.ticket /\ r.proxy = q.proxy
  <1>. DEFINE authorized == q.authorized \/ Site[q.url] \in LoginSites
              r == [q EXCEPT !.authorized = authorized]
  <1>1. authorized \in BOOLEAN /\ (authorized => Site[q.url] \in LoginSites)
    BY DEF Fits
  <1>. HIDE DEF authorized
  <1>2. r \in Requests
    BY <1>1 DEF Fits, Requests
  <1>3. r.authorized = authorized /\ r.ticketFor = q.ticketFor /\ r.kept = q.kept
        /\ r.cookie = q.cookie /\ r.ticket = q.ticket /\ r.proxy = q.proxy /\ SameJourney(r, q)
    BY DEF Fits, SameJourney, Requests
  <1>4. Fits(r)
    <2>. HIDE DEF r
    <2>. QED
      BY <1>1, <1>2, <1>3 DEF Fits, SameJourney
  <1>. QED
    BY <1>3, <1>4 DEF authorized

LEMMA CookieIsAdded ==
  ASSUME NEW q, Fits(q)
  PROVE  LET r == [q EXCEPT !.cookie = Site[q.url] \in jar]
         IN  /\ Fits(r) /\ SameJourney(r, q)
             /\ r.cookie = (Site[q.url] \in jar) /\ r.ticket = q.ticket /\ r.proxy = q.proxy
  <1>. DEFINE r == [q EXCEPT !.cookie = Site[q.url] \in jar]
  <1>1. (Site[q.url] \in jar) \in BOOLEAN
    OBVIOUS
  <1>2. r \in Requests
    BY <1>1 DEF Fits, Requests
  <1>. QED
    BY <1>2 DEF Fits, SameJourney, Requests

LEMMA ProxyIsAdded ==
  ASSUME NEW q, Fits(q)
  PROVE  LET r == Proxied(q)
         IN  /\ Fits(r) /\ SameJourney(r, q)
             /\ r.cookie = q.cookie /\ r.proxy = q.proxy /\ r.ticket \in {None, r.proxy}
  <1>. DEFINE p == q.proxy
              keeps == CASE q.login -> p
                         [] ~q.login /\ p \in Socks -> None
                         [] ~q.login /\ p \notin Socks /\ q.ticketFor # None ->
                              IF p = q.ticketFor THEN q.ticket ELSE None
                         [] OTHER -> IF p # None THEN q.ticket ELSE None
              for == IF keeps = None THEN None ELSE p
              r == [q EXCEPT !.login = FALSE, !.ticket = keeps, !.ticketFor = for]
  <1>1. q \in Requests /\ q.ticket \in {None, q.ticketFor} /\ q.login \in BOOLEAN
        /\ p \in Proxies \cup {None}
    BY DEF Fits, Requests
  <1>2. keeps \in {None, p}
    BY <1>1
  <1>3. Proxied(q) = r
    BY DEF Proxied
  <1>. HIDE DEF keeps
  <1>4. keeps \in {None, for} /\ for \in {None, p}
    BY <1>2
  <1>. HIDE DEF for, p
  <1>5. r \in Requests
    BY <1>1, <1>2, <1>4, ZenonT(60) DEF Requests
  <1>6. r.ticket = keeps /\ r.ticketFor = for /\ r.proxy = p
    BY <1>1 DEF Requests, p
  <1>7. SameJourney(r, q) /\ r.cookie = q.cookie /\ r.authorized = q.authorized /\ r.kept = q.kept
        /\ r.proxy = q.proxy
    BY <1>1 DEF Requests, SameJourney
  <1>8. Fits(r)
    BY <1>4, <1>5, <1>6, <1>7 DEF Fits, SameJourney
  <1>. HIDE DEF r
  <1>. QED
    BY <1>2, <1>3, <1>6, <1>7, <1>8

\* The cache's keys, and the proxy that a middleware of the project sets.
LEMMA KeysAreSet ==
  ASSUME NEW q, Fits(q), NEW r \in Requests, SameJourney(r, q),
         r.authorized = q.authorized, r.ticketFor = q.ticketFor, r.ticket = q.ticket,
         r.kept \in {NoEntry, q.kept} \/ "cached" \in r.kept.flags
  PROVE  Fits(r)
  BY DEF Fits, SameJourney

LEMMA CopyIsKept ==
  ASSUME NEW q, Fits(q), NEW k \in Responses, k = NoEntry \/ "cached" \in k.flags,
         NEW c \in Urls \cup {None}
  PROVE  LET r == [q EXCEPT !.kept = k, !.conditional = c]
         IN  /\ Fits(r) /\ SameJourney(r, q)
             /\ r.cookie = q.cookie /\ r.ticket = q.ticket /\ r.proxy = q.proxy
  <1>. DEFINE r == [q EXCEPT !.kept = k, !.conditional = c]
  <1>1. r \in Requests
    BY DEF Fits, Requests
  <1>2. r.authorized = q.authorized /\ r.ticketFor = q.ticketFor /\ r.kept = k
        /\ r.cookie = q.cookie /\ r.ticket = q.ticket /\ r.proxy = q.proxy /\ SameJourney(r, q)
    BY DEF Fits, SameJourney, Requests
  <1>. HIDE DEF r
  <1>3. Fits(r)
    BY <1>1, <1>2, KeysAreSet
  <1>. QED
    BY <1>2, <1>3 DEF r

LEMMA CopyIsDropped ==
  ASSUME NEW q, Fits(q)
  PROVE  LET r == [q EXCEPT !.kept = NoEntry]
         IN  /\ Fits(r) /\ SameJourney(r, q)
             /\ r.cookie = q.cookie /\ r.ticket = q.ticket /\ r.proxy = q.proxy
  <1>. DEFINE r == [q EXCEPT !.kept = NoEntry]
  <1>1. r \in Requests
    BY EntriesAre, ZenonT(60) DEF Fits, Requests
  <1>2. r.authorized = q.authorized /\ r.ticketFor = q.ticketFor /\ r.kept = NoEntry
        /\ r.cookie = q.cookie /\ r.ticket = q.ticket /\ r.proxy = q.proxy /\ SameJourney(r, q)
    BY DEF Fits, SameJourney, Requests
  <1>. HIDE DEF r
  <1>3. Fits(r)
    BY <1>1, <1>2, KeysAreSet
  <1>. QED
    BY <1>2, <1>3 DEF r

LEMMA CachingIsMarked ==
  ASSUME NEW q, Fits(q), NEW b \in BOOLEAN
  PROVE  LET r == [q EXCEPT !.uncached = b]
         IN  /\ Fits(r) /\ SameJourney(r, q)
             /\ r.cookie = q.cookie /\ r.ticket = q.ticket /\ r.proxy = q.proxy
  <1>. DEFINE r == [q EXCEPT !.uncached = b]
  <1>1. r \in Requests
    BY DEF Fits, Requests
  <1>2. r.authorized = q.authorized /\ r.ticketFor = q.ticketFor /\ r.kept = q.kept
        /\ r.cookie = q.cookie /\ r.ticket = q.ticket /\ r.proxy = q.proxy /\ SameJourney(r, q)
    BY DEF Fits, SameJourney, Requests
  <1>. HIDE DEF r
  <1>3. Fits(r)
    BY <1>1, <1>2, KeysAreSet
  <1>. QED
    BY <1>2, <1>3 DEF r

LEMMA ProxyIsSet ==
  ASSUME NEW q, Fits(q), NEW p \in Proxies \cup {None}
  PROVE  LET r == [q EXCEPT !.proxy = p]
         IN  Fits(r) /\ SameJourney(r, q) /\ r.cookie = q.cookie
  <1>. DEFINE r == [q EXCEPT !.proxy = p]
  <1>1. r \in Requests
    BY DEF Fits, Requests
  <1>2. r.authorized = q.authorized /\ r.ticketFor = q.ticketFor /\ r.kept = q.kept
        /\ r.cookie = q.cookie /\ r.ticket = q.ticket /\ SameJourney(r, q)
    BY DEF Fits, SameJourney, Requests
  <1>. HIDE DEF r
  <1>3. Fits(r)
    BY <1>1, <1>2, KeysAreSet
  <1>. QED
    BY <1>2, <1>3 DEF r

\* A retry counts itself and no redirect.
LEMMA RetryCounts ==
  ASSUME NEW q, NEW w, Fits(q), w \in Requests, Descends(q, w), Counted(q, w), MayRetry(q)
  PROVE  LET r == Retried(q)
         IN  /\ r \in Requests /\ Descends(r, w) /\ Counted(r, w)
             /\ r.retries = q.retries + 1 /\ r.hops = q.hops /\ r.via = q.via
  <1>. DEFINE r == [q EXCEPT !.retries = @ + 1, !.unfiltered = TRUE]
  <1>1. q \in Requests /\ q.retries \in Nat /\ w.retries \in Nat
    BY DEF Fits, Requests
  <1>2. q.retries + 1 \in Nat
    BY <1>1
  <1>3. r \in Requests
    BY <1>1, <1>2, ZenonT(60) DEF Requests
  <1>4. /\ r.retries = q.retries + 1 /\ r.hops = q.hops /\ r.via = q.via
        /\ r.url = q.url /\ r.opts = q.opts /\ r.policy = q.policy
        /\ r.ticket = q.ticket /\ r.ticketFor = q.ticketFor /\ r.authorized = q.authorized
        /\ r.kept = q.kept /\ r.from = q.from /\ r.referrer = q.referrer
    BY <1>1 DEF Requests
  <1>. HIDE DEF r
  <1>5. r.retries > 0 /\ w.retries <= r.retries /\ r.retries <= RetryTimes
    BY <1>1, <1>4, ChainAssumption DEF MayRetry, Counted
  <1>6. Descends(r, w)
    BY <1>4, <1>5 DEF Descends
  <1>7. Counted(r, w)
    BY <1>4, <1>5 DEF Counted
  <1>. QED
    BY <1>3, <1>4, <1>6, <1>7 DEF r, Retried

LEMMA SitesAre == \A u \in Urls : Site[u] \in Hosts
  BY DEF Hosts

LEMMA SameSite == \A u, v : SameOrigin(u, v) => Site[u] = Site[v]
  BY DEF SameOrigin, Origin

\* A redirect counts itself and remembers the page, whose referrer policy decides anew.
LEMMA RedirectCounts ==
  ASSUME NEW q, NEW w, Fits(q), w \in Requests, Descends(q, w), Counted(q, w), NEW u \in Urls,
         q.hops + 1 <= RedirectMax
  PROVE  LET r == Redirected(q, u)
         IN  /\ r \in Requests /\ Descends(r, w) /\ Counted(r, w)
             /\ r.retries = q.retries /\ r.hops = q.hops + 1
             /\ r.via # <<>> /\ Last(r.via) = q.url
  <1>. DEFINE via == Append(q.via, q.url)
              cookie == q.cookie /\ Site[u] = Site[q.url] /\ Scheme[u] \in {Scheme[q.url], "https"}
              authorized == q.authorized /\ SameOrigin(q.url, u)
              referrer == RefererHeader(q.policy, q.url, u)
              hops == q.hops + 1
              ttl == q.ttl - 1
              r == [q EXCEPT !.url = u, !.hops = hops, !.ttl = ttl, !.via = via, !.cookie = cookie,
                             !.authorized = authorized, !.from = q.url, !.referrer = referrer]
  <1>1. /\ q \in Requests /\ q.url \in Urls /\ q.via \in Seq(Urls) /\ q.hops \in Nat /\ q.ttl \in Int
        /\ q.policy \in {None} \cup STRING /\ w.hops \in Nat
    BY DEF Fits, Requests
  <1>2. hops \in Nat /\ ttl \in Int /\ cookie \in BOOLEAN /\ authorized \in BOOLEAN
        /\ referrer \in Referrers
    <2>1. hops \in Nat /\ ttl \in Int
      BY <1>1
    <2>2. referrer \in Referrers
      BY <1>1, HeaderIs
    <2>3. cookie \in BOOLEAN
      OBVIOUS
    <2>4. authorized \in BOOLEAN
      OBVIOUS
    <2>. QED
      BY <2>1, <2>2, <2>3, <2>4
  <1>3. via \in Seq(Urls) /\ via # <<>> /\ Last(via) = q.url
    <2>1. /\ via \in Seq(Urls) /\ via # <<>> /\ Len(via) = Len(q.via) + 1
          /\ via[Len(q.via) + 1] = q.url
      BY <1>1, AppendProperties
    <2>. HIDE DEF via
    <2>. QED
      BY <2>1 DEF Last
  <1>4. Redirected(q, u) = r
    BY DEF Redirected
  <1>5. authorized => Site[u] \in LoginSites
    BY SameSite DEF Fits
  <1>6. referrer = RefererHeader(q.policy, q.url, u)
    OBVIOUS
  <1>7. q.hops = w.hops \/ q.hops <= RedirectMax
    BY DEF Counted
  <1>8. w.hops <= hops /\ hops = q.hops + 1
    BY <1>1 DEF Counted
  <1>. HIDE DEF via, cookie, authorized, referrer, hops, ttl
  <1>9. r \in Requests
    <2>. DEFINE r0 == [q EXCEPT !.url = u, !.hops = hops]
                r1 == [r0 EXCEPT !.ttl = ttl, !.via = via]
                r2 == [r1 EXCEPT !.from = q.url, !.referrer = referrer]
                r3 == [r2 EXCEPT !.cookie = cookie]
                r4 == [r3 EXCEPT !.authorized = authorized]
    <2>1. r0 \in Requests
      BY <1>1, <1>2, <1>3 DEF Requests
    <2>2. r = r4
      OBVIOUS
    <2>. HIDE DEF r0
    <2>6. r1 \in Requests
      BY <1>1, <1>2, <1>3, <2>1, ZenonT(60) DEF Requests
    <2>. HIDE DEF r1
    <2>3. r2 \in Requests
      BY <1>1, <1>2, <2>6, ZenonT(60) DEF Requests
    <2>. HIDE DEF r2
    <2>4. r3 \in Requests
      BY <1>2, <2>3, ZenonT(60) DEF Requests
    <2>. HIDE DEF r3
    <2>5. r4 \in Requests
      BY <1>2, <2>4, ZenonT(60) DEF Requests
    <2>. HIDE DEF r, r4
    <2>. QED
      BY <2>2, <2>5
  <1>10. /\ r.retries = q.retries /\ r.hops = hops /\ r.via = via
         /\ r.url = u /\ r.opts = q.opts /\ r.policy = q.policy /\ r.unfiltered = q.unfiltered
         /\ r.ticket = q.ticket /\ r.ticketFor = q.ticketFor /\ r.authorized = authorized
         /\ r.kept = q.kept /\ r.from = q.url /\ r.referrer = referrer
    BY <1>1 DEF Requests
  <1>. HIDE DEF r
  <1>11. Descends(r, w)
    BY <1>3, <1>5, <1>6, <1>10 DEF Descends
  <1>12. Counted(r, w)
    BY <1>8, <1>10 DEF Counted
  <1>. QED
    BY <1>3, <1>4, <1>8, <1>9, <1>10, <1>11, <1>12

-----------------------------------------------------------------------------
(* What the outcomes of a hook do to the invariant. *)

LEMMA RowsAre ==
  /\ Phases = {"request", "response", "exception"}
  /\ \A p \in Phases : Len(Row[p]) \in Nat /\ DOMAIN Row[p] = 1 .. Len(Row[p])
  /\ Len(Row.request) \in Nat /\ DOMAIN Row.request = 1 .. Len(Row.request)
  /\ Len(Row.response) \in Nat /\ DOMAIN Row.response = 1 .. Len(Row.response)
  <1>1. Phases = {"request", "response", "exception"}
    BY DEF Phases, Row
  <1>2. \A p \in Phases : Len(Row[p]) \in Nat /\ DOMAIN Row[p] = 1 .. Len(Row[p])
    BY OrderAssumption, LenProperties
  <1>. QED
    BY <1>1, <1>2

LEMMA ChainFacts ==
  ASSUME JourneyInv, stage = "chain"
  PROVE  /\ request \in Requests /\ wanted \in Requests /\ Fits(request)
         /\ Descends(request, wanted) /\ Counted(request, wanted)
         /\ {request.retries, request.hops, wanted.retries, wanted.hops} \subseteq Nat
         /\ request.url \in Urls /\ response \in Responses /\ Unpaid \in {0, 1}
         /\ downloads \in Nat /\ meddles \in Nat /\ at \in Nat
         /\ cache \in [Urls -> Responses] /\ jar \in SUBSET Hosts
  <1>1. request \in Requests /\ wanted \in Requests /\ Descends(request, wanted)
    BY DEF JourneyInv, JourneyTypeOK
  <1>2. Fits(request)
    BY <1>1 DEF Fits, Descends
  <1>3. Counted(request, wanted)
    BY DEF JourneyInv, DownloadsArePaid
  <1>4. {request.retries, request.hops, wanted.retries, wanted.hops} \subseteq Nat /\ request.url \in Urls
    BY <1>1 DEF Requests
  <1>. QED
    BY <1>1, <1>2, <1>3, <1>4 DEF JourneyInv, JourneyTypeOK, Unpaid

\* The bound after a step, from what the step did to the counters.
LEMMA StillPaid ==
  ASSUME JourneyInv, stage = "chain", stage' \in {"scheduling", "chain"}, wanted' = wanted,
         Counted(request', wanted), request' \in Requests, meddles' \in Nat,
         downloads' \in Nat, Unpaid' \in Nat,
         downloads' - downloads <= (request'.retries - request.retries)
           + (request'.hops - request.hops) + (meddles' - meddles) + (Unpaid' - Unpaid)
  PROVE  DownloadsArePaid'
  <1>1. /\ {request.retries, request.hops, wanted.retries, wanted.hops} \subseteq Nat
        /\ Unpaid \in Nat /\ downloads \in Nat /\ meddles \in Nat
        /\ {request'.retries, request'.hops} \subseteq Nat
    <2>1. {request'.retries, request'.hops} \subseteq Nat
      BY DEF Requests
    <2>. QED
      BY <2>1, ChainFacts
  <1>2. downloads <= (request.retries - wanted.retries) + (request.hops - wanted.hops) + meddles + Unpaid
    BY DEF JourneyInv, DownloadsArePaid
  <1>3. downloads' <= (request'.retries - wanted'.retries) + (request'.hops - wanted'.hops)
                       + meddles' + Unpaid'
    BY <1>1, <1>2
  <1>4. Counted(request, wanted)'
    OBVIOUS
  <1>. QED
    BY <1>3, <1>4 DEF DownloadsArePaid

LEMMA ChainProceeds ==
  ASSUME JourneyInv, stage = "chain", UNCHANGED <<stage, wanted, downloads>>,
         NEW r, NEW a, Proceed(r, a), phase \in Phases,
         Fits(r), SameJourney(r, request), a \in Responses,
         meddles' \in Nat, meddles' >= meddles,
         cache' \in [Urls -> Responses], jar' \in SUBSET Hosts, jar \subseteq jar',
         phase = "response" => Said(a) /\ Excused(a, request.url),
         phase = "response" /\ Row.response[at] = "cookies" /\ request.url \in Baking =>
           Site[request.url] \in jar',
         phase = "request" => jar' = jar,
         phase = "request" /\ Row.request[at] = "offsite" => ~Offsite(request),
         phase = "request" /\ (AskedFor("cookies") \/ Row.request[at] = "cookies") =>
           r.cookie = (Site[r.url] \in jar),
         phase = "request" /\ (AskedFor("proxy") \/ Row.request[at] = "proxy") =>
           r.ticket \in {None, r.proxy}
  PROVE  JourneyInv'
  <1>. USE DEF Proceed
  <1>1. phase \in {"request", "response", "exception"}
    BY RowsAre
  <1>2. JourneyTypeOK'
    BY <1>1 DEF JourneyInv, JourneyTypeOK, Fits
  <1>3. Descends(request', wanted) /\ Counted(request', wanted) /\ request' \in Requests
    BY ChainFacts, SameDescends, SameCounted DEF Fits
  <1>4. DownloadsArePaid'
    <2>1. Unpaid' = Unpaid /\ Unpaid \in Nat
      BY DEF Unpaid
    <2>2. request'.retries = request.retries /\ request'.hops = request.hops
      BY DEF SameJourney
    <2>3. {request.retries, request.hops} \subseteq Nat /\ downloads' \in Nat /\ meddles \in Nat
      BY ChainFacts
    <2>4. downloads' - downloads <= (request'.retries - request.retries)
           + (request'.hops - request.hops) + (meddles' - meddles) + (Unpaid' - Unpaid)
      BY <2>1, <2>2, <2>3
    <2>. QED
      BY <1>3, <2>1, <2>3, <2>4, StillPaid
  <1>5. AnswerIsHeard'
    <2>1. request'.url = request.url
      BY DEF SameJourney
    <2>2. phase' = "exception" /\ error' \in DownloadErrors => heard' = error'
      BY DEF JourneyInv, AnswerIsHeard
    <2>3. phase' = "response" => Said(response)' /\ Excused(response, request.url)'
      BY <2>1 DEF Said, Excused
    <2>. QED
      BY <1>1, <2>2, <2>3 DEF AnswerIsHeard
  <1>6. \A c : AskedFor(c)' => AskedFor(c) \/ Row.request[at] = c
    <2>. SUFFICES ASSUME NEW c, phase = "request",
                         NEW i \in DOMAIN Row.request, Row.request[i] = c, i < at + 1
                  PROVE  AskedFor(c) \/ Row.request[at] = c
      BY <1>1 DEF AskedFor
    <2>1. i \in Nat /\ at \in Nat
      BY RowsAre, ChainFacts
    <2>2. i < at \/ i = at
      BY <2>1
    <2>. QED
      BY <2>2 DEF AskedFor
  <1>7. PassageInOrder'
    <2>1. at' >= 1
      BY ChainFacts
    <2>2. AskedFor("offsite")' => ~Offsite(request)'
      <3>1. Offsite(request)' <=> Offsite(request)
        BY SameOffsite DEF Offsite, SameJourney
      <3>2. AskedFor("offsite")' => phase = "request"
        BY <1>1 DEF AskedFor
      <3>. QED
        BY <1>6, <3>1, <3>2 DEF JourneyInv, PassageInOrder
    <2>3. AskedFor("cookies")' => phase = "request" /\ (AskedFor("cookies") \/ Row.request[at] = "cookies")
      BY <1>1, <1>6 DEF AskedFor
    <2>4. AskedFor("proxy")' => phase = "request" /\ (AskedFor("proxy") \/ Row.request[at] = "proxy")
      BY <1>1, <1>6 DEF AskedFor
    <2>5. MetBy("cookies")' => CookieOfPage(request.url)'
      <3>. SUFFICES ASSUME phase = "response", NEW i \in DOMAIN Row.response,
                           Row.response[i] = "cookies", i < at + 1, request.url \in Baking
                    PROVE  Site[request.url] \in jar'
        BY DEF MetBy, CookieOfPage, SameJourney
      <3>1. i \in Nat /\ at \in Nat
        BY RowsAre, ChainFacts
      <3>2. i < at \/ i = at
        BY <3>1
      <3>3. CASE i < at
        BY <3>3 DEF JourneyInv, PassageInOrder, MetBy, CookieOfPage
      <3>. QED
        BY <3>2, <3>3
    <2>. QED
      BY <2>1, <2>2, <2>3, <2>4, <2>5 DEF PassageInOrder
  <1>8. PageCookieIsKept'
    BY DEF JourneyInv, PageCookieIsKept, CookieOfPage, SameJourney
  <1>. QED
    BY <1>2, <1>3, <1>4, <1>5, <1>7, <1>8 DEF JourneyInv

LEMMA ChainAnswers ==
  ASSUME JourneyInv, stage = "chain", UNCHANGED <<stage, wanted, downloads, jar, cache>>,
         NEW r, NEW a, AnswerWith(r, a),
         Fits(r), SameJourney(r, request), a \in Responses,
         Said(a), Excused(a, request.url), meddles' \in Nat, meddles' >= meddles
  PROVE  JourneyInv'
  <1>. USE DEF AnswerWith
  <1>1. "none" \in ErrorNames
    BY DEF ErrorNames
  <1>2. JourneyTypeOK'
    BY <1>1 DEF JourneyInv, JourneyTypeOK, Fits, PhaseNames
  <1>3. Descends(request', wanted) /\ Counted(request', wanted) /\ request' \in Requests
    BY ChainFacts, SameDescends, SameCounted DEF Fits
  <1>4. DownloadsArePaid'
    <2>1. Unpaid' = 1 /\ Unpaid \in {0, 1}
      BY ChainFacts DEF Unpaid
    <2>2. request'.retries = request.retries /\ request'.hops = request.hops
      BY DEF SameJourney
    <2>3. {request.retries, request.hops} \subseteq Nat /\ downloads' \in Nat /\ meddles \in Nat
      BY ChainFacts
    <2>4. downloads' - downloads <= (request'.retries - request.retries)
           + (request'.hops - request.hops) + (meddles' - meddles) + (Unpaid' - Unpaid)
      BY <2>1, <2>2, <2>3
    <2>. QED
      BY <1>3, <2>1, <2>3, <2>4, StillPaid
  <1>5. AnswerIsHeard'
    BY DEF AnswerIsHeard, Said, Excused, SameJourney
  <1>7. PassageInOrder'
    <2>1. ~AskedFor("offsite")' /\ ~AskedFor("cookies")' /\ ~AskedFor("proxy")'
      BY DEF AskedFor
    <2>2. ~MetBy("cookies")'
      BY RowsAre DEF MetBy
    <2>. QED
      BY <2>1, <2>2 DEF PassageInOrder
  <1>8. PageCookieIsKept'
    BY DEF JourneyInv, PageCookieIsKept, CookieOfPage, SameJourney
  <1>. QED
    BY <1>2, <1>3, <1>4, <1>5, <1>7, <1>8 DEF JourneyInv

LEMMA ChainReplaces ==
  ASSUME JourneyInv, stage = "chain", UNCHANGED <<stage, wanted, downloads, jar, cache>>,
         NEW r \in Requests, ReplaceBy(r), Descends(r, wanted), Counted(r, wanted),
         r.via # <<>> => CookieOfPage(Last(r.via)),
         meddles' \in Nat,
         Unpaid <= (r.retries - request.retries) + (r.hops - request.hops) + (meddles' - meddles)
  PROVE  JourneyInv'
  <1>. USE DEF ReplaceBy
  <1>1. JourneyTypeOK'
    <2>1. "none" \in ErrorNames
      BY DEF ErrorNames
    <2>. QED
      BY <2>1, EntriesAre DEF JourneyInv, JourneyTypeOK, PhaseNames
  <1>2. DownloadsArePaid'
    <2>1. Unpaid' = 0 /\ Unpaid \in {0, 1}
      BY ChainFacts DEF Unpaid
    <2>2. {request.retries, request.hops} \subseteq Nat /\ downloads' \in Nat /\ meddles \in Nat
      BY ChainFacts
    <2>3. {r.retries, r.hops} \subseteq Nat
      BY DEF Requests
    <2>4. downloads' - downloads <= (request'.retries - request.retries)
           + (request'.hops - request.hops) + (meddles' - meddles) + (Unpaid' - Unpaid)
      BY <2>1, <2>2, <2>3, SMTT(30)
    <2>. QED
      BY <2>1, <2>2, <2>4, StillPaid
  <1>3. AnswerIsHeard'
    BY DEF AnswerIsHeard
  <1>4. PassageInOrder'
    BY DEF PassageInOrder, AskedFor, MetBy
  <1>5. PageCookieIsKept'
    BY DEF PageCookieIsKept, CookieOfPage
  <1>. QED
    BY <1>1, <1>2, <1>3, <1>4, <1>5 DEF JourneyInv

LEMMA ChainRaises ==
  ASSUME JourneyInv, stage = "chain", UNCHANGED <<stage, wanted, downloads, jar, cache>>,
         NEW e \in ErrorNames, e \notin DownloadErrors, Raise(e), phase \in Phases,
         meddles' \in Nat, meddles' >= meddles
  PROVE  JourneyInv'
  <1>. USE DEF Raise
  <1>1. phase \in {"request", "response", "exception"}
    BY RowsAre
  <1>2. JourneyTypeOK'
    BY <1>1 DEF JourneyInv, JourneyTypeOK, PhaseNames
  <1>3. DownloadsArePaid'
    <2>1. Unpaid' = 1 /\ Unpaid \in {0, 1}
      BY <1>1, ChainFacts DEF Unpaid
    <2>2. {request.retries, request.hops} \subseteq Nat /\ downloads' \in Nat /\ meddles \in Nat
      BY ChainFacts
    <2>3. downloads' - downloads <= (request'.retries - request.retries)
           + (request'.hops - request.hops) + (meddles' - meddles) + (Unpaid' - Unpaid)
      BY <2>1, <2>2
    <2>. QED
      BY <2>1, <2>2, <2>3, StillPaid, ChainFacts
  <1>4. AnswerIsHeard'
    BY <1>1 DEF AnswerIsHeard
  <1>5. PassageInOrder'
    <2>1. ~AskedFor("offsite")' /\ ~AskedFor("cookies")' /\ ~AskedFor("proxy")' /\ ~MetBy("cookies")'
      BY <1>1 DEF AskedFor, MetBy
    <2>2. at' >= 1 \/ phase' = "failed"
      BY <1>1
    <2>. QED
      BY <2>1, <2>2 DEF PassageInOrder
  <1>6. PageCookieIsKept' /\ Descends(request, wanted)'
    BY DEF JourneyInv, PageCookieIsKept, CookieOfPage, Descends
  <1>. QED
    BY <1>2, <1>3, <1>4, <1>5, <1>6 DEF JourneyInv

-----------------------------------------------------------------------------
(* The hooks one by one. *)

\* What Handle adds to a hook.
Counting ==
  /\ UNCHANGED <<stage, wanted>>
  /\ downloads' = IF phase = "fetch" THEN downloads + 1 ELSE downloads
  /\ meddles' \in Nat /\ meddles' >= meddles

LEMMA HooksAre ==
  ASSUME NEW c, NEW p \in Phases, Hook(c, p), Counting
  PROVE  /\ phase = p /\ Row[phase][at] = c /\ at \in DOMAIN Row[phase]
         /\ p \in {"request", "response", "exception"}
         /\ downloads' = downloads /\ UNCHANGED <<stage, wanted, downloads>>
  <1>1. phase = p /\ Row[p][at] = c /\ at \in DOMAIN Row[p]
    BY DEF Hook
  <1>2. p \in {"request", "response", "exception"}
    BY RowsAre
  <1>. QED
    BY <1>1, <1>2 DEF Counting

\* The answer at hand is as it was heard.
LEMMA HeardIs ==
  ASSUME JourneyInv, phase = "response"
  PROVE  Said(response) /\ Excused(response, request.url)
  BY DEF JourneyInv, AnswerIsHeard

\* A hook that minds neither hosts, cookies nor proxies.
LEMMA ChainStands ==
  ASSUME JourneyInv, stage = "chain", Counting, jar' = jar, cache' \in [Urls -> Responses],
         NEW c, NEW p \in Phases, Hook(c, p), c \notin {"offsite", "cookies", "proxy"},
         NEW r, NEW a \in Responses, Proceed(r, a), Fits(r), SameJourney(r, request),
         r.cookie = request.cookie, r.ticket = request.ticket, r.proxy = request.proxy,
         p = "response" => Said(a) /\ Excused(a, request.url)
  PROVE  JourneyInv'
  <1>1. /\ phase = p /\ phase \in Phases /\ UNCHANGED <<stage, wanted, downloads>>
        /\ phase = "request" => Row.request[at] = c
        /\ phase = "response" => Row.response[at] = c
    BY HooksAre
  <1>2. meddles' \in Nat /\ meddles' >= meddles
    BY DEF Counting
  <1>3. jar' \in SUBSET Hosts /\ jar \subseteq jar'
    BY ChainFacts
  <1>4. phase = "request" /\ AskedFor("cookies") => r.cookie = (Site[r.url] \in jar)
    BY DEF JourneyInv, PassageInOrder, SameJourney
  <1>5. phase = "request" /\ AskedFor("proxy") => r.ticket \in {None, r.proxy}
    BY DEF JourneyInv, PassageInOrder
  <1>. QED
    BY <1>1, <1>2, <1>3, <1>4, <1>5, ChainProceeds

LEMMA ItselfFits ==
  ASSUME JourneyInv, stage = "chain"
  PROVE  Fits(request) /\ SameJourney(request, request) /\ response \in Responses
  BY ChainFacts DEF SameJourney

\* A hook that lets request and answer pass.
LEMMA ChainPasses ==
  ASSUME JourneyInv, stage = "chain", Counting, jar' = jar, cache' \in [Urls -> Responses],
         NEW c, NEW p \in Phases, Hook(c, p), c \notin {"offsite", "cookies", "proxy"},
         Proceed(request, response)
  PROVE  JourneyInv'
  <1>1. p = "response" => Said(response) /\ Excused(response, request.url)
    BY HeardIs, HooksAre
  <1>. QED
    BY <1>1, ChainStands, ItselfFits

LEMMA ChainStops ==
  ASSUME JourneyInv, stage = "chain", Counting, UNCHANGED <<cache, jar>>,
         NEW c, NEW p \in Phases, Hook(c, p), NEW e \in {"ignore", "other", "undecodable"}, Raise(e)
  PROVE  JourneyInv'
  <1>1. phase \in Phases /\ UNCHANGED <<stage, wanted, downloads>>
    BY HooksAre
  <1>2. meddles' \in Nat /\ meddles' >= meddles
    BY DEF Counting
  <1>3. e \in ErrorNames /\ e \notin DownloadErrors
    BY DEF ErrorNames, DownloadErrors
  <1>. QED
    BY <1>1, <1>2, <1>3, ChainRaises

LEMMA AskOffsiteKeeps ==
  ASSUME JourneyInv, stage = "chain", Counting, AskOffsite
  PROVE  JourneyInv'
  <1>1. Hook("offsite", "request") /\ UNCHANGED <<cache, jar>> /\ "request" \in Phases
    BY RowsAre DEF AskOffsite
  <1>2. CASE Offsite(request)
    BY <1>1, <1>2, ChainStops DEF AskOffsite
  <1>3. CASE ~Offsite(request)
    <2>1. Proceed(request, response)
      BY <1>3 DEF AskOffsite
    <2>2. /\ phase = "request" /\ phase \in Phases /\ UNCHANGED <<stage, wanted, downloads>>
          /\ Row.request[at] = "offsite"
      BY <1>1, HooksAre
    <2>3. meddles' \in Nat /\ meddles' >= meddles
      BY DEF Counting
    <2>4. jar' \in SUBSET Hosts /\ jar \subseteq jar' /\ cache' \in [Urls -> Responses]
      BY <1>1, ChainFacts
    <2>5. /\ AskedFor("cookies") => request.cookie = (Site[request.url] \in jar)
          /\ AskedFor("proxy") => request.ticket \in {None, request.proxy}
      BY DEF JourneyInv, PassageInOrder
    <2>. QED
      BY <1>1, <1>3, <2>1, <2>2, <2>3, <2>4, <2>5, ItselfFits, ChainProceeds
  <1>. QED
    BY <1>2, <1>3

LEMMA AskAuthKeeps ==
  ASSUME JourneyInv, stage = "chain", Counting, AskAuth
  PROVE  JourneyInv'
  <1>. DEFINE r == [request EXCEPT !.authorized = @ \/ Site[request.url] \in LoginSites]
  <1>1. /\ Hook("auth", "request") /\ jar' = jar /\ cache' = cache /\ "request" \in Phases
        /\ Proceed(r, response)
    BY RowsAre DEF AskAuth
  <1>2. /\ Fits(r) /\ SameJourney(r, request)
        /\ r.cookie = request.cookie /\ r.ticket = request.ticket /\ r.proxy = request.proxy
    BY ItselfFits, LoginIsAdded
  <1>. HIDE DEF r
  <1>. QED
    BY <1>1, <1>2, ChainStands, ChainFacts

LEMMA AskCookiesKeeps ==
  ASSUME JourneyInv, stage = "chain", Counting, AskCookies
  PROVE  JourneyInv'
  <1>. DEFINE r == [request EXCEPT !.cookie = Site[request.url] \in jar]
  <1>1. /\ Hook("cookies", "request") /\ jar' = jar /\ cache' = cache /\ "request" \in Phases
        /\ Proceed(r, response)
    BY RowsAre DEF AskCookies
  <1>2. /\ Fits(r) /\ SameJourney(r, request) /\ r.cookie = (Site[request.url] \in jar)
        /\ r.ticket = request.ticket /\ r.proxy = request.proxy
    BY ItselfFits, CookieIsAdded
  <1>. HIDE DEF r
  <1>3. /\ phase = "request" /\ phase \in Phases /\ UNCHANGED <<stage, wanted, downloads>>
        /\ Row.request[at] = "cookies"
    BY <1>1, HooksAre
  <1>4. meddles' \in Nat /\ meddles' >= meddles
    BY DEF Counting
  <1>5. jar' \in SUBSET Hosts /\ jar \subseteq jar' /\ cache' \in [Urls -> Responses]
        /\ response \in Responses
    BY <1>1, ChainFacts
  <1>6. /\ AskedFor("proxy") => r.ticket \in {None, r.proxy}
        /\ r.cookie = (Site[r.url] \in jar)
    BY <1>2 DEF JourneyInv, PassageInOrder, SameJourney
  <1>. QED
    BY <1>1, <1>2, <1>3, <1>4, <1>5, <1>6, ChainProceeds

LEMMA AskProxyKeeps ==
  ASSUME JourneyInv, stage = "chain", Counting, AskProxy
  PROVE  JourneyInv'
  <1>. DEFINE r == Proxied(request)
  <1>1. /\ Hook("proxy", "request") /\ jar' = jar /\ cache' = cache /\ "request" \in Phases
        /\ Proceed(r, response)
    BY RowsAre DEF AskProxy
  <1>2. /\ Fits(r) /\ SameJourney(r, request) /\ r.cookie = request.cookie
        /\ r.ticket \in {None, r.proxy}
    BY ItselfFits, ProxyIsAdded
  <1>. HIDE DEF r
  <1>3. /\ phase = "request" /\ phase \in Phases /\ UNCHANGED <<stage, wanted, downloads>>
        /\ Row.request[at] = "proxy"
    BY <1>1, HooksAre
  <1>4. meddles' \in Nat /\ meddles' >= meddles
    BY DEF Counting
  <1>5. jar' \in SUBSET Hosts /\ jar \subseteq jar' /\ cache' \in [Urls -> Responses]
        /\ response \in Responses
    BY <1>1, ChainFacts
  <1>6. AskedFor("cookies") => r.cookie = (Site[r.url] \in jar)
    BY <1>2 DEF JourneyInv, PassageInOrder, SameJourney
  <1>. QED
    BY <1>1, <1>2, <1>3, <1>4, <1>5, <1>6, ChainProceeds

\* A copy excuses itself by what the server said on this passage.
LEMMA CopySaysNothing ==
  ASSUME NEW a, "cached" \in a.flags
  PROVE  /\ Said(a)
         /\ \A u : a.fresh \/ heard \in {"304"} \cup DownloadErrors \/ (heard = "5xx" /\ u \notin Revalidated)
                     => Excused(a, u)
  BY DEF Said, Excused

LEMMA AskCacheKeeps ==
  ASSUME JourneyInv, stage = "chain", Counting, AskCache
  PROVE  JourneyInv'
  <1>. DEFINE entry == cache[request.url]
              conditional == IF request.url \in Validated THEN request.url ELSE request.conditional
              skipped == [request EXCEPT !.uncached = TRUE]
              kept == [request EXCEPT !.kept = Copy(entry), !.conditional = conditional]
  <1>1. Hook("cache", "request") /\ jar' = jar /\ cache' = cache /\ "request" \in Phases
    BY RowsAre DEF AskCache
  <1>2. \/ Proceed(request, response)
        \/ Proceed(skipped, response)
        \/ Raise("ignore")
        \/ entry.fresh /\ AnswerWith(request, Copy(entry))
        \/ Proceed(kept, response)
    BY DEF AskCache
  <1>3. /\ entry \in Responses /\ conditional \in Urls \cup {None} /\ cache' \in [Urls -> Responses]
        /\ Copy(entry) \in Responses /\ Copy(entry).flags = {"cached"} /\ Copy(entry).fresh = entry.fresh
    <2>1. /\ request.url \in Urls /\ cache \in [Urls -> Responses]
          /\ request.conditional \in Urls \cup {None}
      BY ChainFacts DEF Requests
    <2>2. entry \in Responses
      BY <2>1
    <2>. HIDE DEF entry
    <2>. QED
      BY <1>1, <2>1, <2>2, EntriesAre
  <1>4. /\ Fits(skipped) /\ SameJourney(skipped, request)
        /\ skipped.cookie = request.cookie /\ skipped.ticket = request.ticket
        /\ skipped.proxy = request.proxy
    BY ItselfFits, CachingIsMarked
  <1>. HIDE DEF entry, conditional
  <1>5. /\ Fits(kept) /\ SameJourney(kept, request)
        /\ kept.cookie = request.cookie /\ kept.ticket = request.ticket /\ kept.proxy = request.proxy
    <2>1. Fits(request)
      BY ItselfFits
    <2>. QED
      BY <1>3, <2>1, CopyIsKept, ZenonT(60)
  <1>. HIDE DEF skipped, kept
  <1>6. CASE Proceed(request, response)
    BY <1>1, <1>3, <1>6, ChainPasses
  <1>7. CASE Proceed(skipped, response)
    BY <1>1, <1>3, <1>4, <1>7, ChainStands, ItselfFits
  <1>8. CASE Raise("ignore")
    BY <1>1, <1>8, ChainStops
  <1>9. CASE entry.fresh /\ AnswerWith(request, Copy(entry))
    <2>1. UNCHANGED <<stage, wanted, downloads>> /\ meddles' \in Nat /\ meddles' >= meddles
      BY <1>1, HooksAre DEF Counting
    <2>2. Said(Copy(entry)) /\ Excused(Copy(entry), request.url)
      BY <1>3, <1>9, CopySaysNothing
    <2>. QED
      BY <1>1, <1>3, <1>9, <2>1, <2>2, ItselfFits, ChainAnswers
  <1>10. CASE Proceed(kept, response)
    BY <1>1, <1>3, <1>5, <1>10, ChainStands, ItselfFits
  <1>. QED
    BY <1>2, <1>6, <1>7, <1>8, <1>9, <1>10

LEMMA MeetCacheKeeps ==
  ASSUME JourneyInv, stage = "chain", Counting, MeetCache
  PROVE  JourneyInv'
  <1>. DEFINE uncached == request.uncached /\ "dont_cache" \in request.opts
              marked == [request EXCEPT !.uncached = uncached]
              dropped == [request EXCEPT !.kept = NoEntry]
  <1>1. Hook("cache", "response") /\ jar' = jar /\ "response" \in Phases /\ phase = "response"
    BY RowsAre DEF MeetCache, Hook
  <1>2. \/ Proceed(marked, response) /\ cache' = cache
        \/ /\ "cached" \notin response.flags /\ request.kept # NoEntry
           /\ StillValid(request.url, response)
           /\ Proceed(dropped, request.kept) /\ cache' = cache
        \/ /\ Proceed(dropped, response)
           /\ \/ cache' = cache
              \/ cache' = [cache EXCEPT ![request.url] = [response EXCEPT !.flags = {}, !.fresh = TRUE]]
    BY DEF MeetCache
  <1>3. request.kept \in Responses /\ response \in Responses /\ cache \in [Urls -> Responses]
    BY ChainFacts DEF Requests
  <1>4. cache' \in [Urls -> Responses]
    <2>1. [response EXCEPT !.flags = {}, !.fresh = TRUE] \in Responses
      BY <1>3 DEF Responses, Flags
    <2>. QED
      BY <1>2, <1>3, <2>1
  <1>5. /\ Fits(marked) /\ SameJourney(marked, request)
        /\ marked.cookie = request.cookie /\ marked.ticket = request.ticket
        /\ marked.proxy = request.proxy
    <2>1. uncached \in BOOLEAN
      OBVIOUS
    <2>. QED
      BY <2>1, ItselfFits, CachingIsMarked
  <1>6. /\ Fits(dropped) /\ SameJourney(dropped, request)
        /\ dropped.cookie = request.cookie /\ dropped.ticket = request.ticket
        /\ dropped.proxy = request.proxy
    BY ItselfFits, CopyIsDropped
  <1>7. Said(response) /\ Excused(response, request.url)
    BY <1>1, HeardIs
  <1>. HIDE DEF marked, dropped
  <1>8. CASE Proceed(marked, response)
    BY <1>1, <1>3, <1>4, <1>5, <1>7, <1>8, ChainStands
  <1>9. CASE Proceed(dropped, response)
    BY <1>1, <1>3, <1>4, <1>6, <1>7, <1>9, ChainStands
  <1>10. CASE /\ "cached" \notin response.flags /\ request.kept # NoEntry
              /\ StillValid(request.url, response) /\ Proceed(dropped, request.kept)
    <2>1. "cached" \in request.kept.flags
      BY <1>10, ItselfFits DEF Fits
    <2>2. heard = "304" \/ (heard = "5xx" /\ request.url \notin Revalidated)
      BY <1>7, <1>10 DEF Said, StillValid
    <2>3. Said(request.kept) /\ Excused(request.kept, request.url)
      BY <2>1, <2>2, CopySaysNothing
    <2>. QED
      BY <1>1, <1>3, <1>4, <1>6, <1>10, <2>3, ChainStands
  <1>. QED
    BY <1>2, <1>8, <1>9, <1>10

LEMMA CatchCacheKeeps ==
  ASSUME JourneyInv, stage = "chain", Counting, CatchCache
  PROVE  JourneyInv'
  <1>. DEFINE dropped == [request EXCEPT !.kept = NoEntry]
  <1>1. /\ Hook("cache", "exception") /\ jar' = jar /\ cache' = cache
        /\ "exception" \in Phases /\ phase = "exception"
    BY RowsAre DEF CatchCache, Hook
  <1>2. request.kept \in Responses /\ response \in Responses /\ cache' \in [Urls -> Responses]
    BY <1>1, ChainFacts DEF Requests
  <1>3. /\ Fits(dropped) /\ SameJourney(dropped, request)
        /\ dropped.cookie = request.cookie /\ dropped.ticket = request.ticket
        /\ dropped.proxy = request.proxy
    BY ItselfFits, CopyIsDropped
  <1>4. \/ Proceed(dropped, response)
        \/ request.kept # NoEntry /\ error \in DownloadErrors /\ AnswerWith(dropped, request.kept)
    BY DEF CatchCache
  <1>. HIDE DEF dropped
  <1>5. CASE Proceed(dropped, response)
    BY <1>1, <1>2, <1>3, <1>5, ChainStands
  <1>6. CASE request.kept # NoEntry /\ error \in DownloadErrors /\ AnswerWith(dropped, request.kept)
    <2>1. UNCHANGED <<stage, wanted, downloads>> /\ meddles' \in Nat /\ meddles' >= meddles
      BY <1>1, HooksAre DEF Counting
    <2>2. "cached" \in request.kept.flags
      BY <1>6, ItselfFits DEF Fits
    <2>3. heard \in DownloadErrors
      BY <1>1, <1>6 DEF JourneyInv, AnswerIsHeard
    <2>4. Said(request.kept) /\ Excused(request.kept, request.url)
      BY <2>2, <2>3, CopySaysNothing
    <2>. QED
      BY <1>1, <1>2, <1>3, <1>6, <2>1, <2>4, ChainAnswers
  <1>. QED
    BY <1>4, <1>5, <1>6

LEMMA MeetCookiesKeeps ==
  ASSUME JourneyInv, stage = "chain", Counting, MeetCookies
  PROVE  JourneyInv'
  <1>1. /\ Hook("cookies", "response") /\ cache' = cache /\ "response" \in Phases
        /\ Proceed(request, response)
        /\ jar' = IF request.url \in Baking THEN jar \cup {Site[request.url]} ELSE jar
    BY RowsAre DEF MeetCookies
  <1>2. phase = "response" /\ phase \in Phases /\ UNCHANGED <<stage, wanted, downloads>>
    BY <1>1, HooksAre
  <1>3. meddles' \in Nat /\ meddles' >= meddles
    BY DEF Counting
  <1>4. /\ jar' \in SUBSET Hosts /\ jar \subseteq jar' /\ cache' \in [Urls -> Responses]
        /\ request.url \in Baking => Site[request.url] \in jar'
    BY <1>1, ChainFacts, SitesAre
  <1>5. Said(response) /\ Excused(response, request.url)
    BY <1>2, HeardIs
  <1>. QED
    BY <1>1, <1>2, <1>3, <1>4, <1>5, ItselfFits, ChainProceeds

\* What a retry, or a redirect from a page whose cookie is known, makes of the journey.
LEMMA RetryKeeps ==
  ASSUME JourneyInv, stage = "chain", Counting, UNCHANGED <<cache, jar>>,
         NEW p \in Phases, Hook("retry", p), MayRetry(request), ReplaceBy(Retried(request))
  PROVE  JourneyInv'
  <1>. DEFINE r == Retried(request)
  <1>1. /\ r \in Requests /\ Descends(r, wanted) /\ Counted(r, wanted)
        /\ r.retries = request.retries + 1 /\ r.hops = request.hops /\ r.via = request.via
    BY ChainFacts, RetryCounts
  <1>. HIDE DEF r
  <1>2. UNCHANGED <<stage, wanted, downloads>> /\ meddles' \in Nat /\ meddles' >= meddles
    BY HooksAre DEF Counting
  <1>3. Unpaid <= (r.retries - request.retries) + (r.hops - request.hops) + (meddles' - meddles)
    BY <1>1, <1>2, ChainFacts
  <1>4. r.via # <<>> => CookieOfPage(Last(r.via))
    BY <1>1 DEF JourneyInv, PageCookieIsKept
  <1>. QED
    BY <1>1, <1>2, <1>3, <1>4, ChainReplaces DEF r

LEMMA RedirectKeeps ==
  ASSUME JourneyInv, stage = "chain", Counting, UNCHANGED <<cache, jar>>,
         NEW c \in {"redirect", "metarefresh"}, Hook(c, "response"), NEW u \in Urls, RedirectTo(u)
  PROVE  JourneyInv'
  <1>. DEFINE r == Redirected(request, u)
  <1>1. "response" \in Phases
    BY RowsAre
  <1>2. phase = "response" /\ Row.response[at] = c /\ at \in DOMAIN Row.response
    BY DEF Hook
  <1>3. CASE request.hops + 1 <= RedirectMax /\ ReplaceBy(r)
    <2>1. /\ r \in Requests /\ Descends(r, wanted) /\ Counted(r, wanted)
          /\ r.retries = request.retries /\ r.hops = request.hops + 1
          /\ r.via # <<>> /\ Last(r.via) = request.url
      BY <1>3, ChainFacts, RedirectCounts
    <2>. HIDE DEF r
    <2>2. UNCHANGED <<stage, wanted, downloads>> /\ meddles' \in Nat /\ meddles' >= meddles
      BY <1>1, HooksAre DEF Counting
    <2>3. Unpaid <= (r.retries - request.retries) + (r.hops - request.hops) + (meddles' - meddles)
      BY <2>1, <2>2, ChainFacts
    <2>4. MetBy("cookies")
      <3>1. PICK j \in 1 .. at - 1 : Row.response[j] = "cookies"
        BY <1>2, OrderAssumption
      <3>2. j \in DOMAIN Row.response /\ j < at
        BY <1>2, <3>1, RowsAre
      <3>. QED
        BY <1>2, <3>1, <3>2 DEF MetBy
    <2>5. CookieOfPage(Last(r.via))
      BY <2>1, <2>4 DEF JourneyInv, PassageInOrder
    <2>. QED
      BY <1>3, <2>1, <2>2, <2>3, <2>5, ChainReplaces
  <1>4. CASE Raise("ignore")
    BY <1>1, <1>4, ChainStops
  <1>5. request.hops \in Nat /\ RedirectMax \in Nat
    BY ChainFacts, ChainAssumption
  <1>. QED
    BY <1>3, <1>4, <1>5 DEF RedirectTo

LEMMA MeetRetryKeeps ==
  ASSUME JourneyInv, stage = "chain", Counting, MeetRetry \/ CatchRetry
  PROVE  JourneyInv'
  <1>1. PICK p \in Phases :
          /\ Hook("retry", p) /\ UNCHANGED <<cache, jar>>
          /\ \/ MayRetry(request) /\ ReplaceBy(Retried(request))
             \/ Proceed(request, response)
    BY RowsAre DEF MeetRetry, CatchRetry
  <1>2. CASE Proceed(request, response)
    BY <1>1, <1>2, ChainPasses, ChainFacts
  <1>3. CASE MayRetry(request) /\ ReplaceBy(Retried(request))
    BY <1>1, <1>3, RetryKeeps
  <1>. QED
    BY <1>1, <1>2, <1>3

LEMMA MeetRedirectKeeps ==
  ASSUME JourneyInv, stage = "chain", Counting, MeetRedirect \/ MeetRefresh
  PROVE  JourneyInv'
  <1>1. PICK c \in {"redirect", "metarefresh"} :
          /\ Hook(c, "response") /\ UNCHANGED <<cache, jar>>
          /\ \/ Proceed(request, response)
             \/ response.to # None /\ RedirectTo(response.to)
             \/ \E u \in Urls \ {request.url} : RedirectTo(u)
    BY DEF MeetRedirect, MeetRefresh
  <1>2. "response" \in Phases /\ (response.to # None => response.to \in Urls)
    BY RowsAre, ChainFacts DEF Responses
  <1>3. CASE Proceed(request, response)
    BY <1>1, <1>2, <1>3, ChainPasses, ChainFacts
  <1>4. ASSUME NEW u \in Urls, RedirectTo(u) PROVE JourneyInv'
    BY <1>1, <1>4, RedirectKeeps
  <1>. QED
    BY <1>1, <1>2, <1>3, <1>4

LEMMA MeetCompressionKeeps ==
  ASSUME JourneyInv, stage = "chain", Counting, MeetCompression
  PROVE  JourneyInv'
  <1>. DEFINE a == [response EXCEPT !.coded = FALSE]
  <1>1. /\ Hook("compression", "response") /\ jar' = jar /\ cache' = cache
        /\ "response" \in Phases /\ phase = "response"
    BY RowsAre DEF MeetCompression, Hook
  <1>2. Proceed(request, a) \/ \E e \in {"ignore", "undecodable"} : Raise(e)
    BY DEF MeetCompression
  <1>3. /\ a \in Responses /\ a.status = response.status /\ a.flags = response.flags
        /\ a.fresh = response.fresh
    BY ChainFacts DEF Responses
  <1>. HIDE DEF a
  <1>4. Said(a) /\ Excused(a, request.url)
    BY <1>1, <1>3, HeardIs DEF Said, Excused
  <1>5. CASE Proceed(request, a)
    BY <1>1, <1>3, <1>4, <1>5, ChainStands, ItselfFits, ChainFacts
  <1>6. ASSUME NEW e \in {"ignore", "undecodable"}, Raise(e) PROVE JourneyInv'
    BY <1>1, <1>6, ChainStops
  <1>. QED
    BY <1>2, <1>5, <1>6

\* An intervention pays for one more download.
LEMMA MeddleKeeps ==
  ASSUME JourneyInv, stage = "chain", Counting, Meddle, meddles' = meddles + 1
  PROVE  JourneyInv'
  <1>. DEFINE set(p) == [request EXCEPT !.proxy = p]
  <1>1. PICK p \in Phases :
          /\ Hook("custom", p) /\ jar' = jar /\ cache' = cache
          /\ \/ AnswerWith(request, Page)
             \/ ReplaceBy(request)
             \/ \E e \in {"ignore", "other"} : Raise(e)
             \/ p = "request" /\ ReplaceBy(set(None))
             \/ p = "request" /\ \E x \in Proxies : Proceed(set(x), response)
    BY RowsAre DEF Meddle, MeddleInRequest, MeddleInResponse, MeddleInException
  <1>2. /\ UNCHANGED <<stage, wanted, downloads>> /\ meddles' \in Nat /\ meddles' >= meddles
        /\ phase = p /\ phase \in Phases /\ Row[phase][at] = "custom" /\ at \in DOMAIN Row[phase]
    BY <1>1, HooksAre DEF Counting
  <1>3. CASE AnswerWith(request, Page)
    <2>1. Said(Page) /\ Excused(Page, request.url)
      BY EntriesAre DEF Said, Excused
    <2>. QED
      BY <1>1, <1>2, <1>3, <2>1, EntriesAre, ItselfFits, ChainAnswers
  <1>4. ASSUME NEW r \in Requests, SameJourney(r, request), Fits(r), ReplaceBy(r) PROVE JourneyInv'
    <2>1. r.retries = request.retries /\ r.hops = request.hops /\ r.via = request.via
      BY <1>4 DEF SameJourney
    <2>2. Descends(r, wanted) /\ Counted(r, wanted)
      BY <1>4, ChainFacts, SameDescends, SameCounted
    <2>3. Unpaid <= (r.retries - request.retries) + (r.hops - request.hops) + (meddles' - meddles)
      BY <2>1, ChainFacts
    <2>4. r.via # <<>> => CookieOfPage(Last(r.via))
      BY <2>1 DEF JourneyInv, PageCookieIsKept
    <2>. QED
      BY <1>1, <1>2, <1>4, <2>2, <2>3, <2>4, ChainReplaces
  <1>5. ASSUME NEW e \in {"ignore", "other"}, Raise(e) PROVE JourneyInv'
    BY <1>1, <1>5, ChainStops
  <1>6. ASSUME NEW x \in Proxies \cup {None}
        PROVE  Fits(set(x)) /\ SameJourney(set(x), request) /\ set(x).cookie = request.cookie
    BY ItselfFits, ProxyIsSet
  <1>. HIDE DEF set
  <1>7. ASSUME NEW x \in Proxies, p = "request", Proceed(set(x), response) PROVE JourneyInv'
    <2>1. ~AskedFor("proxy")
      <3>. SUFFICES ASSUME NEW i \in DOMAIN Row.request, Row.request[i] = "proxy", i < at
                    PROVE  FALSE
        BY <1>2, <1>7 DEF AskedFor
      <3>1. at < i
        BY <1>2, <1>7, OrderAssumption
      <3>2. i \in Nat /\ at \in Nat
        BY RowsAre, ChainFacts
      <3>. QED
        BY <3>1, <3>2
    <2>2. phase = "request" /\ Row.request[at] = "custom"
      BY <1>2, <1>7
    <2>3. AskedFor("cookies") => set(x).cookie = (Site[set(x).url] \in jar)
      BY <1>6 DEF JourneyInv, PassageInOrder, SameJourney
    <2>4. jar' \in SUBSET Hosts /\ jar \subseteq jar' /\ cache' \in [Urls -> Responses]
      BY <1>1, ChainFacts
    <2>5. Fits(set(x)) /\ SameJourney(set(x), request) /\ response \in Responses
      BY <1>6, ChainFacts
    <2>. QED
      BY <1>1, <1>2, <1>7, <2>1, <2>2, <2>3, <2>4, <2>5, ChainProceeds
  <1>8. CASE ReplaceBy(request)
    BY <1>4, <1>8, ItselfFits, ChainFacts
  <1>9. CASE ReplaceBy(set(None))
    BY <1>4, <1>6, <1>9 DEF Fits
  <1>. QED
    BY <1>1, <1>3, <1>5, <1>7, <1>8, <1>9

LEMMA StandByKeeps ==
  ASSUME JourneyInv, stage = "chain", Counting, StandBy
  PROVE  JourneyInv'
  BY ChainPasses, ChainFacts DEF StandBy

LEMMA ReachKeeps ==
  ASSUME JourneyInv, stage = "chain", Counting, Reach
  PROVE  JourneyInv'
  <1>1. /\ phase \in {"request", "response", "exception"} /\ phase' = After(phase) /\ at' = 0
        /\ at \notin DOMAIN Row[phase]
        /\ UNCHANGED <<request, response, error, heard, cache, jar, stage, wanted, downloads>>
    BY RowsAre DEF Reach, Counting
  <1>2. meddles' \in Nat /\ meddles' >= meddles
    BY DEF Counting
  <1>3. /\ phase' \in {"fetch", "delivered", "failed"}
        /\ phase' = "fetch" <=> phase = "request"
        /\ phase' = "delivered" <=> phase = "response"
    BY <1>1 DEF After
  <1>4. JourneyTypeOK'
    BY <1>1, <1>2, <1>3 DEF JourneyInv, JourneyTypeOK, PhaseNames
  <1>5. DownloadsArePaid'
    <2>1. Unpaid' = Unpaid /\ Unpaid' \in Nat
      BY <1>1, <1>3 DEF Unpaid
    <2>2. /\ {request.retries, request.hops} \subseteq Nat /\ downloads \in Nat /\ meddles \in Nat
          /\ request' \in Requests /\ Counted(request', wanted)
      BY <1>1, ChainFacts
    <2>3. downloads' - downloads <= (request'.retries - request.retries)
           + (request'.hops - request.hops) + (meddles' - meddles) + (Unpaid' - Unpaid)
      BY <1>1, <1>2, <2>1, <2>2
    <2>. QED
      BY <1>1, <1>2, <2>1, <2>2, <2>3, StillPaid
  <1>6. AnswerIsHeard'
    BY <1>1, <1>3 DEF JourneyInv, AnswerIsHeard, Excused
  <1>7. PassageInOrder'
    <2>1. ASSUME phase = "request", NEW c \in {"offsite", "cookies", "proxy"} PROVE AskedFor(c)
      <3>1. PICK i \in DOMAIN Row.request : Row.request[i] = c
        BY <2>1, OrderAssumption
      <3>2. at \in Nat /\ at >= 1 /\ at \notin 1 .. Len(Row.request) /\ Len(Row.request) \in Nat
            /\ i \in 1 .. Len(Row.request)
        BY <1>1, <2>1, RowsAre, ChainFacts DEF JourneyInv, PassageInOrder
      <3>3. i < at
        BY <3>2
      <3>. QED
        BY <2>1, <3>1, <3>3 DEF AskedFor
    <2>2. CASE phase = "request"
      <3>1. /\ ~Offsite(request) /\ request.cookie = (Site[request.url] \in jar)
            /\ request.ticket \in {None, request.proxy}
        BY <2>1, <2>2 DEF JourneyInv, PassageInOrder
      <3>2. /\ ~Offsite(request)' /\ request'.cookie = (Site[request'.url] \in jar')
            /\ request'.ticket \in {None, request'.proxy}
        BY <1>1, <3>1 DEF Offsite, Allows
      <3>. QED
        BY <1>3, <2>2, <3>2 DEF PassageInOrder, MetBy
    <2>3. CASE phase # "request"
      BY <1>3, <2>3 DEF PassageInOrder, AskedFor, MetBy
    <2>. QED
      BY <2>2, <2>3
  <1>8. Descends(request, wanted)' /\ PageCookieIsKept'
    BY <1>1 DEF JourneyInv, Descends, PageCookieIsKept, CookieOfPage
  <1>. QED
    BY <1>4, <1>5, <1>6, <1>7, <1>8 DEF JourneyInv

\* The server says 304 and the errors it says; only the cache marks a copy.
LEMMA AnswersAre ==
  ASSUME NEW r, NEW a \in Answers(r)
  PROVE  a \in Responses /\ "cached" \notin a.flags
  <1>. DEFINE coded == r.url \in Zipped
              page(got) == [NoResponse EXCEPT !.status = 200, !.body = got.body,
                                              !.flags = got.flags, !.coded = coded]
              to(u) == [NoResponse EXCEPT !.status = 302, !.to = u]
              said(s) == [NoResponse EXCEPT !.status = s]
              statuses == {503} \cup IF r.conditional # None THEN {304} ELSE {}
  <1>1. NoResponse \in Responses /\ NoResponse.flags = {}
    BY EntriesAre
  <1>2. \A s \in Nat : said(s) \in Responses /\ "cached" \notin said(s).flags
    BY <1>1 DEF Responses
  <1>3. ASSUME NEW u \in Urls PROVE to(u) \in Responses /\ "cached" \notin to(u).flags
    <2>. DEFINE a1 == [NoResponse EXCEPT !.status = 302]
    <2>1. 302 \in Nat /\ u \in Urls \cup {None}
      OBVIOUS
    <2>2. a1 \in Responses /\ a1.flags = {}
      BY <1>1, <2>1 DEF Responses
    <2>3. to(u) = [a1 EXCEPT !.to = u]
      OBVIOUS
    <2>. HIDE DEF a1, to
    <2>. QED
      BY <2>1, <2>2, <2>3 DEF Responses
  <1>4. ASSUME NEW got \in Received
        PROVE  page(got) \in Responses /\ "cached" \notin page(got).flags
    <2>1. /\ got.body \in {"whole", "empty", "part"} /\ got.flags \in SUBSET Flags
          /\ "cached" \notin got.flags
      BY DEF Received, Flags
    <2>2. coded \in BOOLEAN
      OBVIOUS
    <2>. HIDE DEF coded
    <2>. DEFINE a1 == [NoResponse EXCEPT !.status = 200, !.body = got.body]
                a2 == [a1 EXCEPT !.flags = got.flags, !.coded = coded]
    <2>3. a1 \in Responses
      BY <1>1, <2>1, ZenonT(60) DEF Responses
    <2>4. page(got) = a2
      OBVIOUS
    <2>. HIDE DEF a1, page
    <2>. QED
      BY <2>1, <2>2, <2>3, <2>4, ZenonT(60) DEF Responses
  <1>5. Answers(r) = {page(got) : got \in Received} \cup {to(u) : u \in Urls \ {r.url}}
                     \cup {said(s) : s \in statuses}
    BY DEF Answers
  <1>6. statuses \subseteq Nat
    OBVIOUS
  <1>. HIDE DEF coded, page, to, said, statuses
  <1>. QED
    BY <1>2, <1>3, <1>4, <1>5, <1>6

LEMMA FetchKeeps ==
  ASSUME JourneyInv, stage = "chain", Counting, Fetch
  PROVE  JourneyInv'
  <1>1. /\ phase = "fetch" /\ at' = 1 /\ downloads' = downloads + 1
        /\ UNCHANGED <<request, cache, jar, stage, wanted>>
    BY DEF Fetch, Counting
  <1>2. meddles' \in Nat /\ meddles' >= meddles
    BY DEF Counting
  <1>3. \/ \E e \in DownloadErrors \cup {"unsupported", "stopped"} :
             phase' = "exception" /\ error' = e /\ heard' = e /\ response' = response
        \/ \E a \in Answers(request) :
             /\ phase' = "response" /\ response' = a /\ error' = error
             /\ heard' = CASE a.status = 304 -> "304" [] a.status >= 500 -> "5xx" [] OTHER -> "answer"
    BY DEF Fetch
  <1>4. /\ phase' \in {"response", "exception"} /\ response' \in Responses
        /\ heard' \in Reports /\ error' \in ErrorNames
        /\ phase' = "exception" => heard' = error'
        /\ phase' = "response" =>
             /\ "cached" \notin response'.flags
             /\ response'.status = 304 => heard' = "304"
             /\ response'.status >= 500 => heard' = "5xx"
    <2>1. CASE \E e \in DownloadErrors \cup {"unsupported", "stopped"} :
                 phase' = "exception" /\ error' = e /\ heard' = e /\ response' = response
      BY <2>1, ChainFacts DEF Reports, ErrorNames
    <2>2. ASSUME NEW a \in Answers(request), phase' = "response", response' = a, error' = error,
                 heard' = CASE a.status = 304 -> "304" [] a.status >= 500 -> "5xx" [] OTHER -> "answer"
          PROVE  <1>4!:
      <3>1. a \in Responses /\ "cached" \notin a.flags /\ a.status \in Nat
        BY AnswersAre DEF Responses
      <3>2. heard' \in Reports /\ (a.status = 304 => heard' = "304") /\ (a.status >= 500 => heard' = "5xx")
        BY <2>2, <3>1 DEF Reports
      <3>3. error' \in ErrorNames
        BY <2>2 DEF JourneyInv, JourneyTypeOK
      <3>. QED
        BY <2>2, <3>1, <3>2, <3>3
    <2>. QED
      BY <1>3, <2>1, <2>2
  <1>5. JourneyTypeOK'
    BY <1>1, <1>2, <1>4, ChainFacts DEF JourneyInv, JourneyTypeOK, PhaseNames
  <1>6. DownloadsArePaid'
    <2>1. Unpaid' = 1 /\ Unpaid = 0
      BY <1>1, <1>4 DEF Unpaid
    <2>2. /\ {request.retries, request.hops} \subseteq Nat /\ downloads \in Nat /\ meddles \in Nat
          /\ request' \in Requests /\ Counted(request', wanted)
      BY <1>1, ChainFacts
    <2>3. downloads' - downloads <= (request'.retries - request.retries)
           + (request'.hops - request.hops) + (meddles' - meddles) + (Unpaid' - Unpaid)
      BY <1>1, <1>2, <2>1, <2>2
    <2>4. downloads' \in Nat
      BY <1>1, <2>2
    <2>. QED
      BY <1>1, <1>2, <2>1, <2>2, <2>3, <2>4, StillPaid
  <1>7. AnswerIsHeard'
    BY <1>4 DEF AnswerIsHeard, Said, Excused
  <1>8. PassageInOrder'
    BY <1>1, <1>4, RowsAre DEF PassageInOrder, AskedFor, MetBy
  <1>9. Descends(request, wanted)' /\ PageCookieIsKept'
    BY <1>1 DEF JourneyInv, Descends, PageCookieIsKept, CookieOfPage
  <1>. QED
    BY <1>5, <1>6, <1>7, <1>8, <1>9 DEF JourneyInv

LEMMA HandleKeeps ==
  ASSUME JourneyInv, Handle
  PROVE  JourneyInv'
  <1>1. meddles \in Nat
    BY DEF JourneyInv, JourneyTypeOK
  <1>2. stage = "chain" /\ Counting /\ (HandlerStep \/ (Meddle /\ meddles' = meddles + 1))
    <2>1. \/ HandlerStep /\ meddles' = meddles
          \/ Meddle /\ meddles' = meddles + 1
      BY DEF Handle
    <2>2. meddles' \in Nat /\ meddles' >= meddles
      BY <1>1, <2>1
    <2>3. /\ stage = "chain" /\ UNCHANGED <<stage, wanted>>
          /\ downloads' = IF phase = "fetch" THEN downloads + 1 ELSE downloads
      BY DEF Handle
    <2>4. Counting
      BY <2>2, <2>3 DEF Counting
    <2>. QED
      BY <2>1, <2>3, <2>4
  <1>3. CASE Meddle /\ meddles' = meddles + 1
    BY <1>2, <1>3, MeddleKeeps
  <1>4. CASE HandlerStep
    <2>1. CASE AskOffsite \/ AskAuth \/ AskCookies \/ AskProxy \/ AskCache
      BY <1>2, <2>1, AskOffsiteKeeps, AskAuthKeeps, AskCookiesKeeps, AskProxyKeeps, AskCacheKeeps
    <2>2. CASE MeetCache \/ MeetCookies \/ MeetRedirect \/ MeetCompression \/ MeetRefresh \/ MeetRetry
      BY <1>2, <2>2, MeetCacheKeeps, MeetCookiesKeeps, MeetRedirectKeeps, MeetCompressionKeeps, MeetRetryKeeps
    <2>3. CASE CatchCache \/ CatchRetry \/ StandBy \/ Reach \/ Fetch
      BY <1>2, <2>3, CatchCacheKeeps, MeetRetryKeeps, StandByKeeps, ReachKeeps, FetchKeeps
    <2>. QED
      BY <1>4, <2>1, <2>2, <2>3, Zenon DEF HandlerStep
  <1>. QED
    BY <1>2, <1>3, <1>4

-----------------------------------------------------------------------------
(* From the schedule to the outcome. *)

LEMMA ForgetKeeps ==
  ASSUME JourneyInv, Forget, stage' \in {"idle", "outputs"}, UNCHANGED <<cache, jar>>
  PROVE  JourneyInv'
  <1>1. JourneyTypeOK'
    BY EntriesAre DEF JourneyInv, JourneyTypeOK, Forget, Stages, PhaseNames, Reports, ErrorNames
  <1>2. DownloadsArePaid'
    BY DEF DownloadsArePaid, Forget
  <1>3. AnswerIsHeard'
    BY DEF AnswerIsHeard, Forget
  <1>. QED
    BY <1>1, <1>2, <1>3 DEF JourneyInv

\* A passage begins with nothing heard and no hook asked.
LEMMA EnterKeeps ==
  ASSUME JourneyInv, stage' = "chain", UNCHANGED <<cache, jar>>, NEW r \in Requests, Enter(r),
         wanted' \in Requests, Descends(r, wanted'), Counted(r, wanted'),
         r.via # <<>> => CookieOfPage(Last(r.via)),
         downloads' \in Nat, meddles' \in Nat,
         downloads' <= (r.retries - wanted'.retries) + (r.hops - wanted'.hops) + meddles'
  PROVE  JourneyInv'
  <1>. USE DEF Enter
  <1>1. JourneyTypeOK'
    BY EntriesAre DEF JourneyInv, JourneyTypeOK, Stages, PhaseNames, Reports, ErrorNames
  <1>2. DownloadsArePaid'
    <2>1. Unpaid' = 0
      BY DEF Unpaid
    <2>2. {r.retries, r.hops, wanted'.retries, wanted'.hops} \subseteq Nat
      BY DEF Requests
    <2>3. downloads' <= (request'.retries - wanted'.retries) + (request'.hops - wanted'.hops)
                         + meddles' + Unpaid'
      BY <2>1, <2>2
    <2>4. Counted(request, wanted)'
      OBVIOUS
    <2>. QED
      BY <2>3, <2>4 DEF DownloadsArePaid
  <1>3. AnswerIsHeard'
    BY DEF AnswerIsHeard
  <1>4. PassageInOrder'
    <2>1. \A c : ~AskedFor(c)' /\ ~MetBy(c)'
      BY RowsAre DEF AskedFor, MetBy
    <2>. QED
      BY <2>1 DEF PassageInOrder
  <1>5. Descends(request, wanted)' /\ PageCookieIsKept'
    BY DEF Descends, PageCookieIsKept, CookieOfPage
  <1>. QED
    BY <1>1, <1>2, <1>3, <1>4, <1>5 DEF JourneyInv

\* What is scheduled is neither on a passage nor owes a download.
LEMMA ScheduledIs ==
  ASSUME JourneyInv, stage = "scheduling" \/ (stage = "chain" /\ phase = "replaced")
  PROVE  /\ request \in Requests /\ wanted \in Requests
         /\ Descends(request, wanted) /\ Counted(request, wanted)
         /\ request.via # <<>> => CookieOfPage(Last(request.via))
         /\ downloads \in Nat /\ meddles \in Nat
         /\ downloads <= (request.retries - wanted.retries) + (request.hops - wanted.hops) + meddles
  <1>1. request \in Requests /\ wanted \in Requests /\ downloads \in Nat /\ meddles \in Nat
    BY DEF JourneyInv, JourneyTypeOK
  <1>2. Descends(request, wanted) /\ (request.via # <<>> => CookieOfPage(Last(request.via)))
    BY DEF JourneyInv, PageCookieIsKept
  <1>3. Unpaid = 0
    BY DEF JourneyInv, JourneyTypeOK, Unpaid
  <1>4. /\ Counted(request, wanted)
        /\ downloads <= (request.retries - wanted.retries) + (request.hops - wanted.hops)
                         + meddles + Unpaid
    BY DEF JourneyInv, DownloadsArePaid
  <1>5. {request.retries, request.hops, wanted.retries, wanted.hops} \subseteq Nat
    BY <1>1 DEF Requests
  <1>. QED
    BY <1>1, <1>2, <1>3, <1>4, <1>5

\* A request made anew descends from itself.
LEMMA FreshDescends ==
  ASSUME NEW r \in Starts \cup Inner, NEW q \in Requests, q.referrer = RefererHeader(r.policy, r.from, r.url),
         q.url = r.url, q.retries = r.retries, q.hops = r.hops, q.via = r.via,
         q.unfiltered = r.unfiltered, q.opts = r.opts, q.policy = r.policy, q.from = r.from,
         q.ticket = r.ticket, q.ticketFor = r.ticketFor, q.authorized = r.authorized, q.kept = r.kept
  PROVE  Descends(q, r) /\ Counted(q, r) /\ q.via = <<>>
  <1>1. /\ r \in Requests /\ r.via = <<>> /\ r.kept = NoEntry /\ ~r.authorized /\ r.ticket = None
    BY StartsAssumption
  <1>2. r.retries \in Nat /\ r.hops \in Nat
    BY <1>1 DEF Requests
  <1>3. Counted(q, r)
    BY <1>2 DEF Counted
  <1>4. Descends(q, r)
    BY <1>1 DEF Descends
  <1>. QED
    BY <1>1, <1>3, <1>4

LEMMA BeginKeeps ==
  ASSUME JourneyInv, Begin
  PROVE  JourneyInv'
  <1>1. /\ stage = "idle" /\ downloads' = 0 /\ meddles' = 0 /\ UNCHANGED <<cache, jar>>
        /\ \/ \E r \in Starts :
                /\ stage' = "scheduling" /\ request' = Found(r) /\ wanted' = r
                /\ UNCHANGED <<phase, at, response, error, heard>>
           \/ \E r \in Inner : stage' = "chain" /\ Enter(r) /\ wanted' = r
    BY DEF Begin
  <1>2. ASSUME NEW r \in Starts, stage' = "scheduling", request' = Found(r), wanted' = r,
               UNCHANGED <<phase, at, response, error, heard>>
        PROVE  JourneyInv'
    <2>. DEFINE header == RefererHeader(r.policy, r.from, r.url)
                q == [r EXCEPT !.referrer = header]
    <2>1. r \in Requests
      BY StartsAssumption
    <2>2. header \in Referrers
      <3>1. r.policy \in {None} \cup STRING /\ r.from \in Urls \cup {None} /\ r.url \in Urls
        BY <2>1 DEF Requests
      <3>. QED
        BY <3>1, HeaderIs
    <2>3. request' = q /\ header = RefererHeader(r.policy, r.from, r.url)
      BY <1>2 DEF Found
    <2>. HIDE DEF header
    <2>4. q \in Requests
      BY <2>1, <2>2 DEF Requests
    <2>5. /\ q.referrer = header
          /\ q.url = r.url /\ q.retries = r.retries /\ q.hops = r.hops /\ q.via = r.via
          /\ q.unfiltered = r.unfiltered /\ q.opts = r.opts /\ q.policy = r.policy /\ q.from = r.from
          /\ q.ticket = r.ticket /\ q.ticketFor = r.ticketFor /\ q.authorized = r.authorized
          /\ q.kept = r.kept
      BY <2>1 DEF Requests
    <2>. HIDE DEF q
    <2>6. Descends(q, r) /\ Counted(q, r) /\ q.via = <<>>
      BY <2>3, <2>4, <2>5, FreshDescends
    <2>7. phase' \in {"none", "replaced"}
      BY <1>1, <1>2 DEF JourneyInv, JourneyTypeOK
    <2>8. JourneyTypeOK'
      BY <1>1, <1>2, <2>1, <2>3, <2>4, <2>7 DEF JourneyInv, JourneyTypeOK, Stages
    <2>9. DownloadsArePaid'
      <3>1. Unpaid' = 0 /\ {q.retries, q.hops, r.retries, r.hops} \subseteq Nat
        BY <2>1, <2>4, <2>7 DEF Unpaid, Requests
      <3>2. downloads' <= (request'.retries - wanted'.retries) + (request'.hops - wanted'.hops)
                           + meddles' + Unpaid'
        BY <1>1, <1>2, <2>3, <2>5, <3>1
      <3>3. Counted(request, wanted)'
        BY <1>2, <2>3, <2>6
      <3>. QED
        BY <1>2, <3>2, <3>3 DEF DownloadsArePaid
    <2>10. AnswerIsHeard'
      BY <2>7 DEF AnswerIsHeard
    <2>11. Descends(request, wanted)' /\ PageCookieIsKept'
      BY <1>2, <2>3, <2>6 DEF Descends, PageCookieIsKept
    <2>. QED
      BY <1>2, <2>8, <2>9, <2>10, <2>11 DEF JourneyInv
  <1>3. ASSUME NEW r \in Inner, stage' = "chain", Enter(r), wanted' = r
        PROVE  JourneyInv'
    <2>1. r \in Requests /\ r.from = None /\ r.referrer = None
      BY StartsAssumption
    <2>2. r.referrer = RefererHeader(r.policy, r.from, r.url)
      BY <2>1 DEF RefererHeader
    <2>3. Descends(r, r) /\ Counted(r, r) /\ r.via = <<>>
      BY <2>1, <2>2, FreshDescends
    <2>4. {r.retries, r.hops} \subseteq Nat
      BY <2>1 DEF Requests
    <2>. QED
      BY <1>1, <1>3, <2>1, <2>3, <2>4, EnterKeeps
  <1>. QED
    BY <1>1, <1>2, <1>3

LEMMA ReplacedKeeps ==
  ASSUME JourneyInv, Replaced
  PROVE  JourneyInv'
  <1>1. stage = "chain" /\ phase = "replaced" /\ UNCHANGED <<cache, jar>>
    BY DEF Replaced
  <1>2. CASE /\ stage' = "scheduling"
             /\ UNCHANGED <<phase, at, request, response, error, heard, internal, wanted, downloads, meddles>>
    <2>1. JourneyTypeOK'
      BY <1>1, <1>2 DEF JourneyInv, JourneyTypeOK, Stages
    <2>2. DownloadsArePaid'
      BY <1>1, <1>2 DEF JourneyInv, DownloadsArePaid, Unpaid, Counted
    <2>3. AnswerIsHeard'
      BY <1>1, <1>2 DEF AnswerIsHeard
    <2>4. Descends(request, wanted)' /\ PageCookieIsKept'
      BY <1>1, <1>2 DEF JourneyInv, Descends, PageCookieIsKept, CookieOfPage
    <2>. QED
      BY <1>2, <2>1, <2>2, <2>3, <2>4 DEF JourneyInv
  <1>3. CASE stage' = stage /\ Enter(request) /\ UNCHANGED <<wanted, downloads, meddles>>
    BY <1>1, <1>3, ScheduledIs, EnterKeeps
  <1>4. CASE Rest
    BY <1>1, <1>4, ForgetKeeps DEF Rest
  <1>. QED
    BY <1>2, <1>3, <1>4 DEF Replaced

LEMMA ScheduleKeeps ==
  ASSUME JourneyInv, Schedule
  PROVE  JourneyInv'
  <1>1. /\ stage = "scheduling" /\ stage' = "chain" /\ Enter(request)
        /\ UNCHANGED <<cache, jar, meddles, downloads, wanted>>
    BY DEF Schedule
  <1>. QED
    BY <1>1, ScheduledIs, EnterKeeps

LEMMA EndsKeep ==
  ASSUME JourneyInv, Drop \/ Delivered \/ Failure \/ OutputsEnd
  PROVE  JourneyInv'
  <1>1. Forget /\ stage' \in {"idle", "outputs"} /\ UNCHANGED <<cache, jar>>
    BY DEF Drop, Delivered, Failure, OutputsEnd, Rest
  <1>. QED
    BY <1>1, ForgetKeeps

LEMMA AgeKeeps ==
  ASSUME JourneyInv, Age
  PROVE  JourneyInv'
  <1>1. /\ stage = "idle" /\ phase \in {"none", "replaced"}
        /\ UNCHANGED <<phase, at, request, response, error, heard, jar, stage, meddles, downloads, wanted>>
    BY DEF Age, passageVars, engineVars, JourneyInv, JourneyTypeOK
  <1>2. cache' \in [Urls -> Responses]
    <2>1. PICK u \in Urls : cache' = [cache EXCEPT ![u].fresh = FALSE]
      BY DEF Age
    <2>2. cache \in [Urls -> Responses] /\ [cache[u] EXCEPT !.fresh = FALSE] \in Responses
      BY DEF JourneyInv, JourneyTypeOK, Responses
    <2>. QED
      BY <2>1, <2>2
  <1>3. JourneyTypeOK'
    BY <1>1, <1>2 DEF JourneyInv, JourneyTypeOK
  <1>4. DownloadsArePaid' /\ AnswerIsHeard'
    BY <1>1 DEF JourneyInv, DownloadsArePaid, AnswerIsHeard
  <1>. QED
    BY <1>1, <1>3, <1>4 DEF JourneyInv

LEMMA JourneyStands ==
  ASSUME JourneyInv, UNCHANGED <<passageVars, cache, jar, engineVars>>
  PROVE  JourneyInv'
  <1>1. UNCHANGED <<phase, at, request, response, error, heard, cache, jar,
                    stage, meddles, downloads, wanted>>
    BY DEF passageVars, engineVars
  <1>2. JourneyTypeOK' /\ DownloadsArePaid'
    BY <1>1 DEF JourneyInv, JourneyTypeOK, DownloadsArePaid, Counted, Unpaid
  <1>3. AnswerIsHeard'
    BY <1>1 DEF JourneyInv, AnswerIsHeard, Said, Excused
  <1>4. stage = "chain" => PassageInOrder'
    BY <1>1 DEF JourneyInv, PassageInOrder, AskedFor, MetBy, CookieOfPage, Offsite, Allows
  <1>5. stage \in {"scheduling", "chain"} => Descends(request, wanted)' /\ PageCookieIsKept'
    BY <1>1 DEF JourneyInv, Descends, PageCookieIsKept, CookieOfPage
  <1>. QED
    BY <1>1, <1>2, <1>3, <1>4, <1>5 DEF JourneyInv

LEMMA JourneyInit == Init => JourneyInv
  <1>. SUFFICES ASSUME Init PROVE JourneyInv
    OBVIOUS
  <1>1. /\ phase = "none" /\ at = 0 /\ response = NoResponse /\ error = "none" /\ heard = "nothing"
        /\ cache = [u \in Urls |-> NoEntry] /\ jar = {} /\ stage = "idle" /\ meddles = 0 /\ downloads = 0
    BY DEF Init
  <1>2. JourneyTypeOK
    BY <1>1, EntriesAre DEF JourneyTypeOK, Stages, PhaseNames, Reports, ErrorNames
  <1>3. DownloadsArePaid /\ AnswerIsHeard
    BY <1>1 DEF DownloadsArePaid, AnswerIsHeard
  <1>. QED
    BY <1>1, <1>2, <1>3 DEF JourneyInv

LEMMA JourneyNext ==
  ASSUME JourneyInv, [Next]_vars
  PROVE  JourneyInv'
  <1>1. CASE UNCHANGED vars
    BY <1>1, JourneyStands DEF vars
  <1>2. CASE Outputs
    BY <1>2, JourneyStands DEF Outputs
  <1>3. CASE Handle
    BY <1>3, HandleKeeps
  <1>4. CASE Begin
    BY <1>4, BeginKeeps
  <1>5. CASE Age
    BY <1>5, AgeKeeps
  <1>6. CASE Schedule \/ Replaced
    BY <1>6, ScheduleKeeps, ReplacedKeeps
  <1>7. CASE Drop \/ Delivered \/ Failure \/ OutputsEnd
    BY <1>7, EndsKeep
  <1>. QED
    BY <1>1, <1>2, <1>3, <1>4, <1>5, <1>6, <1>7, Zenon DEF Next, Journey

LEMMA JourneyHolds == Spec => []JourneyInv
  <1>1. JourneyInv /\ [Next]_vars => JourneyInv'
    BY JourneyNext
  <1>. QED
    BY <1>1, JourneyInit, PTL DEF Spec

\* Every download but the last is paid for by a retry, a redirect or an intervention of a
\* middleware, whatever the order (engine.py, RetryMiddleware and the redirect middlewares).
THEOREM JourneysAreBounded == Spec => []DownloadsBounded
  <1>1. ASSUME JourneyInv PROVE DownloadsBounded
    <2>1. RetryTimes \in Nat /\ RedirectMax \in Nat /\ downloads \in Nat /\ meddles \in Nat
      BY <1>1, ChainAssumption DEF JourneyInv, JourneyTypeOK
    <2>2. CASE stage \notin {"scheduling", "chain"}
      <3>1. downloads = 0
        BY <1>1, <2>2 DEF JourneyInv, DownloadsArePaid
      <3>. QED
        BY <2>1, <3>1 DEF DownloadsBounded
    <2>3. CASE stage \in {"scheduling", "chain"}
      <3>1. {request.retries, request.hops, wanted.retries, wanted.hops} \subseteq Nat
        BY <1>1, <2>3 DEF JourneyInv, JourneyTypeOK, Requests
      <3>2. /\ request.retries - wanted.retries <= RetryTimes
            /\ request.hops - wanted.hops <= RedirectMax
        BY <1>1, <2>1, <2>3, <3>1 DEF JourneyInv, DownloadsArePaid, Counted
      <3>3. Unpaid \in {0, 1}
        BY DEF Unpaid
      <3>4. downloads <= (request.retries - wanted.retries) + (request.hops - wanted.hops) + meddles + Unpaid
        BY <1>1, <2>3 DEF JourneyInv, DownloadsArePaid
      <3>. QED
        BY <2>1, <3>1, <3>2, <3>3, <3>4 DEF DownloadsBounded
    <2>. QED
      BY <2>2, <2>3
  <1>. QED
    BY <1>1, JourneyHolds, PTL

\* No stale copy is delivered but for a reason heard on this passage: the server said that it is
\* current, failed or was out of reach (HttpCacheMiddleware with RFC2616Policy).
THEOREM StaleCopiesAreExcused == Spec => []StaleNeedsAReason
  <1>1. JourneyInv => StaleNeedsAReason
    BY DEF JourneyInv, AnswerIsHeard, Excused, StaleNeedsAReason
  <1>. QED
    BY <1>1, JourneyHolds, PTL

\* Through any series of retries, redirects, cached answers and interventions, what a request
\* carries is what belongs to its url: permission, session, logins, proxy credentials and referrer.
THEOREM CopiesAreClean == Spec => []CopiesCarryTheirOwn
  <1>1. ASSUME JourneyInv, phase = "fetch"
        PROVE  /\ stage = "chain" /\ request \in Requests /\ wanted \in Requests
               /\ ~Offsite(request) /\ request.cookie = (Site[request.url] \in jar)
               /\ request.ticket \in {None, request.proxy}
               /\ Descends(request, wanted) /\ PageCookieIsKept
    <2>1. stage = "chain"
      BY <1>1 DEF JourneyInv, JourneyTypeOK
    <2>2. PassageInOrder
      BY <1>1, <2>1 DEF JourneyInv
    <2>. QED
      BY <1>1, <2>1, <2>2, ChainFacts DEF PassageInOrder, AskedFor, JourneyInv
  <1>2. ASSUME JourneyInv PROVE CopiesCarryTheirOwn
    <2>1. StrangersNeedAnExemption
      BY <1>1, <1>2 DEF StrangersNeedAnExemption, Offsite, Descends
    <2>2. SessionFollowsRedirect
      BY <1>1, <1>2 DEF SessionFollowsRedirect, PageCookieIsKept, CookieOfPage
    <2>3. TicketsFitTheProxy
      BY <1>1, <1>2 DEF TicketsFitTheProxy
    <2>4. LoginsStayInTheirDomain
      BY <1>1, <1>2 DEF LoginsStayInTheirDomain, Descends
    <2>5. ReferrersAreDiscreet
      <3>. SUFFICES ASSUME phase = "fetch" PROVE ReferrersAreDiscreet
        BY DEF ReferrersAreDiscreet
      <3>. DEFINE page == IF request.via = <<>> THEN wanted.from ELSE Last(request.via)
      <3>1. /\ request \in Requests /\ request.from = page
            /\ request.policy = wanted.policy
            /\ request.referrer = RefererHeader(request.policy, request.from, request.url)
        BY <1>1, <1>2 DEF Descends
      <3>. HIDE DEF page
      <3>2. /\ request.policy \in {None} \cup STRING /\ request.url \in Urls
            /\ request.from \in Urls \cup {None}
        BY <3>1 DEF Requests
      <3>3. IF page = None THEN request.referrer = None
            ELSE Discreet(PolicyOf(wanted.policy, page), page, request.url, request.referrer)
        BY <3>1, <3>2, HeaderIs
      <3>. QED
        BY <3>3 DEF ReferrersAreDiscreet, page
    <2>. QED
      BY <2>1, <2>2, <2>3, <2>4, <2>5 DEF CopiesCarryTheirOwn
  <1>. QED
    BY <1>2, JourneyHolds, PTL
=============================================================================
