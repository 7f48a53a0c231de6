------------------------- MODULE PythonCrawlProofs -------------------------
(***************************************************************************)
(* What holds of the Python engine for every site, every set of rules and  *)
(* every limit.  First the rules: the loops of CrawlSpider and             *)
(* LinkExtractor follow exactly the links that the spider wants.           *)
(***************************************************************************)
EXTENDS PythonCrawl, SequenceLemmas

-----------------------------------------------------------------------------
(* Sequences. *)

LEMMA KeptIs ==
  ASSUME NEW S, NEW s \in Seq(S), NEW places
  PROVE  /\ Kept(s, places) \in Seq(S)
         /\ ToSet(Kept(s, places)) = {s[n] : n \in places \cap DOMAIN s}
         /\ ToSet(Kept(s, places)) = {s[n] : n \in places \cap (1 .. Len(s))}
  <1>. DEFINE len == Len(s)
              all == Seq(S)
              kept[n \in 0 .. len] ==
                IF n = 0 THEN <<>>
                ELSE IF n \in places THEN Append(kept[n - 1], s[n])
                ELSE kept[n - 1]
              step == [p \in (1 .. len) \X all |->
                         IF p[1] \in places THEN Append(p[2], s[p[1]]) ELSE p[2]]
              K == {n \in 0 .. len : /\ kept[n] \in all
                                     /\ ToSet(kept[n]) = {s[m] : m \in places \cap (1 .. n)}}
  <1>1. /\ len \in Nat /\ <<>> \in all /\ DOMAIN s = 1 .. len /\ ToSet(<<>>) = {}
        /\ \A n \in 1 .. len : s[n] \in S
    BY LenProperties, ElementOfSeq DEF ToSet
  <1>2. \A x \in all : \A y \in S : Append(x, y) \in all /\ ToSet(Append(x, y)) = ToSet(x) \cup {y}
    BY SetOfAppended
  <1>3. Kept(s, places) = kept[len]
    BY DEF Kept
  <1>. HIDE DEF len, all, K
  <1>4. PICK f \in [0 .. len -> all] :
           /\ f[0] = <<>>
           /\ \A n \in 1 .. len :
                 f[n] = IF n \in places THEN Append(f[n - 1], s[n]) ELSE f[n - 1]
    <2>. HIDE DEF kept
    <2>1. \A n \in 1 .. len : \A x \in all :
             step[<<n, x>>] = IF n \in places THEN Append(x, s[n]) ELSE x
      OBVIOUS
    <2>2. step \in [(1 .. len) \X all -> all]
      BY <1>1, <1>2
    <2>. HIDE DEF step
    <2>5. len \in Nat /\ <<>> \in all
      BY <1>1
    <2>3. PICK f \in [0 .. len -> all] : Along(f, len, <<>>, step)
      BY <2>2, <2>5, Recursion
    <2>4. \A n \in 1 .. len : f[n - 1] \in all
      BY <2>5
    <2>6. f[0] = <<>> /\ \A n \in 1 .. len : f[n] = step[<<n, f[n - 1]>>]
      BY <2>3 DEF Along
    <2>7. \A n \in 1 .. len :
             f[n] = IF n \in places THEN Append(f[n - 1], s[n]) ELSE f[n - 1]
      BY <2>1, <2>4, <2>6
    <2>. QED
      BY <2>3, <2>6, <2>7
  <1>5. f = [n \in 0 .. len |-> IF n = 0 THEN <<>>
                                ELSE IF n \in places THEN Append(f[n - 1], s[n])
                                ELSE f[n - 1]]
    <2>. HIDE DEF kept, step
    <2>1. \A n \in 0 .. len : n = 0 \/ n \in 1 .. len
      BY <1>1
    <2>. QED
      BY <1>4, <2>1
  <1>6. kept = [n \in 0 .. len |-> IF n = 0 THEN <<>>
                                   ELSE IF n \in places THEN Append(kept[n - 1], s[n])
                                   ELSE kept[n - 1]]
    BY <1>5
  <1>. HIDE DEF kept, step
  <1>7. kept[0] = <<>> /\ \A n \in 1 .. len :
           kept[n] = IF n \in places THEN Append(kept[n - 1], s[n]) ELSE kept[n - 1]
    <2>1. 0 \in 0 .. len /\ \A n \in 1 .. len : n \in 0 .. len /\ n # 0
      BY <1>1
    <2>. QED
      BY <1>6, <2>1
  <1>8. 0 \in K
    BY <1>1, <1>7 DEF K
  <1>9. ASSUME NEW n \in 1 .. len, n - 1 \in K PROVE n \in K
    <2>1. s[n] \in S /\ n \in 0 .. len /\ 1 .. n = (1 .. n - 1) \cup {n}
      BY <1>1
    <2>2. ToSet(kept[n - 1]) = {s[m] : m \in places \cap (1 .. n - 1)} /\ kept[n - 1] \in all
      BY <1>9 DEF K
    <2>3. CASE n \in places
      <3>1. kept[n] \in all /\ ToSet(kept[n]) = ToSet(kept[n - 1]) \cup {s[n]}
        BY <1>2, <1>7, <2>1, <2>2, <2>3
      <3>. QED
        BY <2>1, <2>2, <2>3, <3>1 DEF K
    <2>4. CASE n \notin places
      <3>1. places \cap (1 .. n) = places \cap (1 .. n - 1)
        BY <2>1, <2>4
      <3>. QED
        BY <1>7, <2>1, <2>2, <2>4, <3>1 DEF K
    <2>. QED
      BY <2>3, <2>4
  <1>10. \A n \in 0 .. len : n \in K
    <2>1. len \in Int
      BY <1>1
    <2>. QED
      BY <2>1, <1>8, <1>9, UpTo
  <1>11. len \in K
    BY <1>1, <1>10
  <1>. QED
    BY <1>1, <1>3, <1>11 DEF K, len, all

LEMMA FlattenIs ==
  ASSUME NEW S, NEW ss \in Seq(Seq(S))
  PROVE  FlattenSeq(ss) \in Seq(S)
  <1>. DEFINE len == Len(ss)
              all == Seq(S)
              flatten[i \in 1 .. len] == IF i = 1 THEN ss[i] ELSE flatten[i - 1] \o ss[i]
              step == [p \in (1 .. len) \X all |->
                         IF p[1] = 1 THEN ss[p[1]] ELSE p[2] \o ss[p[1]]]
              K == {i \in 0 .. len : i = 0 \/ flatten[i] \in all}
  <1>1. /\ len \in Nat /\ <<>> \in all /\ \A n \in 1 .. len : ss[n] \in all
        /\ len = 0 => ss = <<>>
    BY LenProperties, ElementOfSeq, EmptySeq
  <1>2. \A x, y \in all : x \o y \in all
    BY ConcatProperties
  <1>3. FlattenSeq(ss) = IF len = 0 THEN ss ELSE flatten[len]
    BY DEF FlattenSeq
  <1>. HIDE DEF len, all, K
  <1>4. PICK f \in [0 .. len -> all] :
           \A n \in 1 .. len : f[n] = IF n = 1 THEN ss[n] ELSE f[n - 1] \o ss[n]
    <2>. HIDE DEF flatten
    <2>1. \A n \in 1 .. len : \A x \in all :
             step[<<n, x>>] = IF n = 1 THEN ss[n] ELSE x \o ss[n]
      OBVIOUS
    <2>2. step \in [(1 .. len) \X all -> all]
      BY <1>1, <1>2
    <2>. HIDE DEF step
    <2>5. len \in Nat /\ <<>> \in all
      BY <1>1
    <2>3. PICK f \in [0 .. len -> all] : Along(f, len, <<>>, step)
      BY <2>2, <2>5, Recursion
    <2>4. \A n \in 1 .. len : f[n - 1] \in all
      BY <2>5
    <2>6. f[0] = <<>> /\ \A n \in 1 .. len : f[n] = step[<<n, f[n - 1]>>]
      BY <2>3 DEF Along
    <2>7. \A n \in 1 .. len :
             f[n] = IF n = 1 THEN ss[n] ELSE f[n - 1] \o ss[n]
      BY <2>1, <2>4, <2>6
    <2>. QED
      BY <2>3, <2>6, <2>7
  <1>. DEFINE g == [i \in 1 .. len |-> f[i]]
  <1>5. g = [i \in 1 .. len |-> IF i = 1 THEN ss[i] ELSE g[i - 1] \o ss[i]]
    <2>. HIDE DEF flatten, step
    <2>1. \A i \in 1 .. len : i # 1 => i - 1 \in 1 .. len
      BY <1>1
    <2>2. \A i \in 1 .. len : g[i] = IF i = 1 THEN ss[i] ELSE g[i - 1] \o ss[i]
      BY <1>4, <2>1
    <2>. QED
      BY <2>2
  <1>. HIDE DEF g
  <1>6. flatten = [i \in 1 .. len |-> IF i = 1 THEN ss[i] ELSE flatten[i - 1] \o ss[i]]
    BY <1>5
  <1>. HIDE DEF flatten, step
  <1>7. 0 \in K
    BY <1>1 DEF K
  <1>8. ASSUME NEW i \in 1 .. len, i - 1 \in K PROVE i \in K
    <2>1. flatten[i] = IF i = 1 THEN ss[i] ELSE flatten[i - 1] \o ss[i]
      BY <1>6
    <2>2. ss[i] \in all /\ i \in 0 .. len /\ (i # 1 => flatten[i - 1] \in all)
      BY <1>1, <1>8 DEF K
    <2>. QED
      BY <1>2, <2>1, <2>2 DEF K
  <1>11. len \in Int
    BY <1>1
  <1>9. \A i \in 0 .. len : i \in K
    BY <1>7, <1>8, <1>11, UpTo
  <1>10. len \in K
    BY <1>1, <1>9
  <1>. QED
    BY <1>1, <1>3, <1>10 DEF K, all

LEMMA HeadAndTail ==
  ASSUME NEW S, NEW s \in Seq(S), s # <<>>
  PROVE  /\ Head(s) \in S /\ Tail(s) \in Seq(S)
         /\ ToSet(s) = {Head(s)} \cup ToSet(Tail(s))
         /\ Len(Tail(s)) = Len(s) - 1 /\ Len(s) \in Nat \ {0}
         /\ Head(s) = s[1] /\ \A i \in 1 .. Len(Tail(s)) : Tail(s)[i] = s[i + 1]
  <1>1. /\ Len(s) \in Nat \ {0} /\ Tail(s) \in Seq(S) /\ Len(Tail(s)) = Len(s) - 1
        /\ Head(s) = s[1] /\ \A i \in 1 .. Len(Tail(s)) : Tail(s)[i] = s[i + 1]
    BY HeadTailProperties, EmptySeq, LenProperties
  <1>2. /\ DOMAIN s = 1 .. Len(s) /\ DOMAIN Tail(s) = 1 .. Len(Tail(s))
        /\ \A i \in 1 .. Len(s) : s[i] \in S
    BY <1>1, LenProperties, ElementOfSeq
  <1>3. /\ \A i \in 1 .. Len(s) : i = 1 \/ (i - 1 \in 1 .. Len(Tail(s)) /\ (i - 1) + 1 = i)
        /\ 1 \in 1 .. Len(s) /\ \A i \in 1 .. Len(Tail(s)) : i + 1 \in 1 .. Len(s)
    BY <1>1
  <1>4. ToSet(s) \subseteq {Head(s)} \cup ToSet(Tail(s))
    <2>1. ASSUME NEW i \in 1 .. Len(s) PROVE s[i] \in {Head(s)} \cup ToSet(Tail(s))
      <3>1. CASE i = 1
        BY <1>1, <3>1
      <3>2. CASE i # 1
        <4>1. i - 1 \in 1 .. Len(Tail(s)) /\ (i - 1) + 1 = i
          BY <1>3, <3>2
        <4>2. s[i] = Tail(s)[i - 1]
          BY <1>1, <4>1
        <4>. QED
          BY <1>2, <4>1, <4>2 DEF ToSet
      <3>. QED
        BY <3>1, <3>2
    <2>. QED
      BY <1>2, <2>1 DEF ToSet
  <1>5. {Head(s)} \cup ToSet(Tail(s)) \subseteq ToSet(s)
    BY <1>1, <1>2, <1>3 DEF ToSet
  <1>. QED
    BY <1>1, <1>2, <1>3, <1>4, <1>5

-----------------------------------------------------------------------------
(* The links of a page. *)

ElementRecords == [tag : STRING, attr : STRING, url : DOMAIN Web, text : STRING]
Links == [url : DOMAIN Web, text : STRING]
FoundLinks == [url : DOMAIN Web, rule : DOMAIN Rules]

LEMMA ElementsAre ==
  ASSUME NEW i \in DOMAIN Rules, NEW page \in Html
  PROVE  Elements(Rules[i].extractor, page) \in Seq(ElementRecords)
  <1>. DEFINE x == Rules[i].extractor
              names == DOMAIN Regions[page]
              regions == IF x.restrict = <<>> THEN <<"page">> ELSE x.restrict
              parts == [j \in DOMAIN regions |-> Regions[page][regions[j]]]
  <1>1. "page" \in names /\ x.restrict \in Seq(names)
    BY WebAssumption DEF ToSet
  <1>2. \A name \in names : Regions[page][name] \in Seq(ElementRecords)
    BY WebAssumption DEF ElementRecords
  <1>. HIDE DEF x, names
  <1>3. regions \in Seq(names)
    BY <1>1
  <1>. HIDE DEF regions
  <1>4. Len(regions) \in Nat /\ DOMAIN regions = 1 .. Len(regions)
        /\ \A j \in 1 .. Len(regions) : regions[j] \in names
    BY <1>3, LenProperties, ElementOfSeq
  <1>5. parts \in [1 .. Len(regions) -> Seq(ElementRecords)]
    BY <1>2, <1>4
  <1>6. parts \in Seq(Seq(ElementRecords))
    BY <1>4, <1>5, SeqDef
  <1>. HIDE DEF parts
  <1>7. FlattenSeq(parts) \in Seq(ElementRecords)
    BY <1>6, FlattenIs
  <1>. QED
    BY <1>7 DEF Elements, parts, regions, x

LEMMA LinkIs ==
  ASSUME NEW x, NEW element \in ElementRecords
  PROVE  LinkOf(x, element) \in Links
  <1>1. element.url \in DOMAIN Web /\ element.text \in STRING
    BY DEF ElementRecords
  <1>2. Web[element.url].canonical \in DOMAIN Web
    BY <1>1, WebAssumption
  <1>. QED
    BY <1>1, <1>2 DEF LinkOf, Links

\* The loop of extract_links finds, of the elements that count, all or the first of each URL.
LEMMA ExtractedAre ==
  ASSUME NEW x, NEW page, Elements(x, page) \in Seq(ElementRecords)
  PROVE  LET elements == Elements(x, page)
             places == {n \in DOMAIN elements : Extracts(x, elements[n])}
             first == {n \in places : \A m \in places :
                         LinkOf(x, elements[m]).url = LinkOf(x, elements[n]).url => n <= m}
         IN  /\ ExtractLinks(x, page) \in Seq(Links)
             /\ ToSet(ExtractLinks(x, page)) =
                  {LinkOf(x, elements[n]) : n \in IF x.unique THEN first ELSE places}
  <1>. DEFINE elements == Elements(x, page)
              len == Len(elements)
              all == Seq(Links)
              of == [n \in 1 .. len |-> LinkOf(x, elements[n])]
              places == {n \in 1 .. len : Extracts(x, elements[n])}
              first == {n \in places : \A m \in places : of[m].url = of[n].url => n <= m}
              chosen == IF x.unique THEN first ELSE places
              links[n \in 0 .. len] ==
                IF n = 0 THEN <<>>
                ELSE LET link == LinkOf(x, elements[n])
                     IN  IF \/ ~Extracts(x, elements[n])
                            \/ x.unique /\ \E other \in ToSet(links[n - 1]) : other.url = link.url
                         THEN links[n - 1]
                         ELSE Append(links[n - 1], link)
              Turn(n, s) == IF \/ n \notin places
                               \/ x.unique /\ \E other \in ToSet(s) : other.url = of[n].url
                            THEN s ELSE Append(s, of[n])
              Body(n, s) ==
                LET link == LinkOf(x, elements[n])
                IN  IF \/ ~Extracts(x, elements[n])
                       \/ x.unique /\ \E other \in ToSet(s) : other.url = link.url
                    THEN s
                    ELSE Append(s, link)
              step == [p \in (1 .. len) \X all |-> Turn(p[1], p[2])]
              K == {n \in 0 .. len : /\ links[n] \in all
                                     /\ ToSet(links[n]) = {of[m] : m \in chosen \cap (1 .. n)}}
  <1>1. /\ len \in Nat /\ DOMAIN elements = 1 .. len
        /\ \A n \in 1 .. len : elements[n] \in ElementRecords
    BY LenProperties, ElementOfSeq
  <1>2. of \in [1 .. len -> Links] /\ <<>> \in all /\ ToSet(<<>>) = {}
    BY <1>1, LinkIs DEF ToSet
  <1>3. \A s \in all : \A l \in Links : Append(s, l) \in all /\ ToSet(Append(s, l)) = ToSet(s) \cup {l}
    BY SetOfAppended
  <1>4. ExtractLinks(x, page) = links[len]
    BY DEF ExtractLinks
  <1>5. /\ places = {n \in DOMAIN elements : Extracts(x, elements[n])}
        /\ first = {n \in places : \A m \in places :
                      LinkOf(x, elements[m]).url = LinkOf(x, elements[n]).url => n <= m}
        /\ {LinkOf(x, elements[n]) : n \in chosen} = {of[n] : n \in chosen}
        /\ \A n \in 1 .. len : /\ n \in places <=> Extracts(x, elements[n])
                               /\ of[n] = LinkOf(x, elements[n])
    <2>. HIDE DEF links, step
    <2>1. \A n \in 1 .. len : of[n] = LinkOf(x, elements[n])
      OBVIOUS
    <2>2. chosen \subseteq 1 .. len /\ places \subseteq 1 .. len
      OBVIOUS
    <2>. HIDE DEF of
    <2>3. places = {n \in DOMAIN elements : Extracts(x, elements[n])}
      BY <1>1
    <2>4. first = {n \in places : \A m \in places :
                      LinkOf(x, elements[m]).url = LinkOf(x, elements[n]).url => n <= m}
      BY <2>1, <2>2
    <2>. HIDE DEF chosen
    <2>5. {LinkOf(x, elements[n]) : n \in chosen} = {of[n] : n \in chosen}
      BY <2>1, <2>2
    <2>. QED
      BY <2>1, <2>3, <2>4, <2>5
  <1>. HIDE DEF elements, len, all, of, places, K
  <1>6. PICK f \in [0 .. len -> all] : f[0] = <<>> /\ \A n \in 1 .. len : f[n] = Turn(n, f[n - 1])
    <2>. HIDE DEF links
    <2>1. \A n \in 1 .. len : \A s \in all : step[<<n, s>>] = Turn(n, s)
      OBVIOUS
    <2>2. \A n \in 1 .. len : \A s \in all : Turn(n, s) \in all
      BY <1>2, <1>3
    <2>. HIDE DEF Turn
    <2>3. step \in [(1 .. len) \X all -> all]
      BY <2>2
    <2>. HIDE DEF step
    <2>4. len \in Nat /\ <<>> \in all
      BY <1>1, <1>2
    <2>5. PICK f \in [0 .. len -> all] : Along(f, len, <<>>, step)
      BY <2>3, <2>4, Recursion
    <2>6. \A n \in 1 .. len : f[n - 1] \in all
      BY <1>1
    <2>. QED
      BY <2>1, <2>5, <2>6 DEF Along
  <1>7. f = [n \in 0 .. len |-> IF n = 0 THEN <<>> ELSE Body(n, f[n - 1])]
    <2>. HIDE DEF links, step
    <2>1. \A n \in 0 .. len : n = 0 \/ n \in 1 .. len
      BY <1>1
    <2>2. \A n \in 1 .. len : \A s : Turn(n, s) = Body(n, s)
      BY <1>5
    <2>. HIDE DEF Turn, Body
    <2>. QED
      BY <1>6, <2>1, <2>2
  <1>8. links = [n \in 0 .. len |-> IF n = 0 THEN <<>> ELSE Body(n, links[n - 1])]
    BY <1>7
  <1>. HIDE DEF links, step
  <1>9. links[0] = <<>> /\ \A n \in 1 .. len : links[n] = Turn(n, links[n - 1])
    <2>1. 0 \in 0 .. len /\ \A n \in 1 .. len : n \in 0 .. len /\ n # 0
      BY <1>1
    <2>2. \A n \in 1 .. len : \A s : Turn(n, s) = Body(n, s)
      BY <1>5
    <2>. HIDE DEF Turn, Body
    <2>. QED
      BY <1>8, <2>1, <2>2
  <1>10. 0 \in K
    BY <1>1, <1>2, <1>9 DEF K
  <1>11. ASSUME NEW n \in 1 .. len, n - 1 \in K PROVE n \in K
    <2>1. of[n] \in Links /\ n \in 0 .. len /\ 1 .. n = (1 .. n - 1) \cup {n} /\ n \notin 1 .. n - 1
      BY <1>1, <1>2
    <2>2. /\ ToSet(links[n - 1]) = {of[m] : m \in chosen \cap (1 .. n - 1)} /\ links[n - 1] \in all
          /\ links[n] = Turn(n, links[n - 1])
      BY <1>9, <1>11 DEF K
    <2>3. CASE n \notin chosen
      <3>1. links[n] = links[n - 1]
        <4>1. CASE n \notin places
          BY <2>2, <4>1
        <4>2. CASE n \in places
          <5>. DEFINE same == {m \in places : of[m].url = of[n].url}
          <5>1. PICK m \in same : ~(n <= m)
            BY <2>3, <4>2
          <5>2. same \subseteq Nat /\ same # {} /\ \A k \in same : k \in 1 .. len
            BY <1>1, <5>1 DEF places
          <5>. HIDE DEF same
          <5>3. PICK k \in same : \A j \in same : k <= j
            BY <5>2, HasLeast
          <5>. USE DEF same
          <5>4. k \in first /\ k \in 1 .. n - 1
            BY <2>1, <5>1, <5>2, <5>3
          <5>5. x.unique
            BY <2>3, <4>2
          <5>6. of[k] \in ToSet(links[n - 1]) /\ of[k].url = of[n].url
            BY <2>2, <5>3, <5>4, <5>5
          <5>. QED
            BY <2>2, <5>5, <5>6
        <4>. QED
          BY <4>1, <4>2
      <3>2. chosen \cap (1 .. n) = chosen \cap (1 .. n - 1)
        BY <2>1, <2>3
      <3>. QED
        BY <2>1, <2>2, <3>1, <3>2 DEF K
    <2>4. CASE n \in chosen
      <3>1. n \in places
        BY <2>4
      <3>2. ASSUME x.unique, NEW other \in ToSet(links[n - 1]), other.url = of[n].url PROVE FALSE
        <4>1. PICK m \in first \cap (1 .. n - 1) : other = of[m]
          BY <2>2, <3>2
        <4>2. m \in places /\ ~(n <= m) /\ n \in first
          BY <2>1, <2>4, <3>2, <4>1
        <4>. QED
          BY <3>2, <4>1, <4>2
      <3>3. links[n] = Append(links[n - 1], of[n])
        BY <2>2, <3>1, <3>2
      <3>. HIDE DEF chosen
      <3>4. ToSet(links[n]) = {of[m] : m \in chosen \cap (1 .. n)} /\ links[n] \in all
        BY <1>3, <2>1, <2>2, <2>4, <3>3
      <3>. QED
        BY <2>1, <3>4 DEF K
    <2>. QED
      BY <2>3, <2>4
  <1>12. len \in Int
    BY <1>1
  <1>. HIDE DEF chosen
  <1>13. \A n \in 0 .. len : n \in K
    BY <1>10, <1>11, <1>12, UpTo
  <1>14. chosen \cap (1 .. len) = chosen
    BY DEF chosen, places
  <1>15. links[len] \in all /\ ToSet(links[len]) = {of[n] : n \in chosen}
    <2>1. len \in 0 .. len
      BY <1>1
    <2>. QED
      BY <1>13, <1>14, <2>1 DEF K
  <1>16. ExtractLinks(x, page) \in Seq(Links)
    BY <1>4, <1>15 DEF all
  <1>17. ToSet(ExtractLinks(x, page)) = {LinkOf(x, elements[n]) : n \in chosen}
    BY <1>4, <1>5, <1>15
  <1>. QED
    <2>. HIDE DEF first
    <2>. QED
      BY <1>5, <1>16, <1>17 DEF chosen, elements

-----------------------------------------------------------------------------
(* The rules of a spider. *)

LEMMA RulesAre ==
  Len(Rules) \in Nat /\ DOMAIN Rules = 1 .. Len(Rules)
  BY WebAssumption, LenProperties

LEMMA TakesAre ==
  ASSUME NEW i \in DOMAIN Rules, NEW page \in Html
  PROVE  LET links == ExtractLinks(Rules[i].extractor, page)
         IN  /\ links \in Seq(Links)
             /\ Takes(i, page) = {link \in ToSet(links) : link.url \notin Rules[i].unlinked}
             /\ Takes(i, page) \subseteq Links
  <1>. DEFINE x == Rules[i].extractor
              links == ExtractLinks(x, page)
              elements == Elements(x, page)
              places == {n \in DOMAIN elements : Extracts(x, elements[n])}
              first == {n \in places : \A m \in places :
                          LinkOf(x, elements[m]).url = LinkOf(x, elements[n]).url => n <= m}
              taken == {LinkOf(x, elements[n]) : n \in IF x.unique THEN first ELSE places}
  <1>1. elements \in Seq(ElementRecords)
    BY ElementsAre
  <1>2. Takes(i, page) = {link \in taken : link.url \notin Rules[i].unlinked}
    BY DEF Takes
  <1>. HIDE DEF x
  <1>3. links \in Seq(Links) /\ ToSet(links) = taken
    BY <1>1, ExtractedAre
  <1>. HIDE DEF links, taken
  <1>4. ToSet(links) \subseteq Links
    BY <1>3, LenProperties, ElementOfSeq DEF ToSet
  <1>. QED
    BY <1>2, <1>3, <1>4 DEF links, x

FollowStates == [seen : SUBSET Links, requests : Seq(FoundLinks)]

\* The requests that a rule makes of the links it is the first to take.
Made(i, links) == {[url |-> link.url, rule |-> i] : link \in links}

LEMMA WithoutIs ==
  ASSUME NEW links \in Seq(Links), NEW known, NEW urls
  PROVE  /\ Without(links, known, urls) \in Seq(Links)
         /\ ToSet(Without(links, known, urls)) =
              {link \in ToSet(links) : link \notin known /\ link.url \notin urls}
  <1>. DEFINE P == {n \in DOMAIN links : links[n] \notin known /\ links[n].url \notin urls}
  <1>1. Without(links, known, urls) = Kept(links, P)
    BY DEF Without
  <1>2. {links[n] : n \in P} =
          {link \in {links[n] : n \in DOMAIN links} : link \notin known /\ link.url \notin urls}
    OBVIOUS
  <1>3. ToSet(links) = {links[n] : n \in DOMAIN links}
    BY DEF ToSet
  <1>4. P \cap DOMAIN links = P
    OBVIOUS
  <1>. HIDE DEF P
  <1>5. Kept(links, P) \in Seq(Links) /\ ToSet(Kept(links, P)) = {links[n] : n \in P}
    BY <1>4, KeptIs
  <1>. QED
    BY <1>1, <1>2, <1>3, <1>5

\* One turn of the loop takes what the rule takes, and asks for what it does not refuse of it
\* and no rule before it took.
LEMMA FollowedAre ==
  ASSUME NEW i \in DOMAIN Rules, NEW page \in Html, NEW f \in FollowStates
  PROVE  LET g == Followed(f, i, page)
         IN  /\ g \in FollowStates
             /\ g.seen = f.seen \cup Takes(i, page)
             /\ ToSet(g.requests) = ToSet(f.requests) \cup
                  Made(i, {link \in Takes(i, page) :
                             link \notin f.seen /\ link.url \notin Rules[i].refused})
  <1>. DEFINE found == ExtractLinks(Rules[i].extractor, page)
              links == Without(found, f.seen, Rules[i].unlinked)
              kept == Without(links, {}, Rules[i].refused)
              new == [k \in DOMAIN kept |-> [url |-> kept[k].url, rule |-> i]]
              g == Followed(f, i, page)
              newly == {link \in Takes(i, page) :
                             link \notin f.seen /\ link.url \notin Rules[i].refused}
  <1>1. /\ found \in Seq(Links) /\ Takes(i, page) \subseteq Links
        /\ Takes(i, page) = {link \in ToSet(found) : link.url \notin Rules[i].unlinked}
    BY TakesAre
  <1>2. g = [seen |-> f.seen \cup ToSet(links), requests |-> f.requests \o new]
    BY DEF Followed
  <1>3. f.seen \in SUBSET Links /\ f.requests \in Seq(FoundLinks)
    BY DEF FollowStates
  <1>. HIDE DEF found
  <1>4. links \in Seq(Links) /\ ToSet(links) = {link \in Takes(i, page) : link \notin f.seen}
    BY <1>1, WithoutIs
  <1>. HIDE DEF links
  <1>6. kept \in Seq(Links) /\ ToSet(kept) = {link \in ToSet(links) : link.url \notin Rules[i].refused}
    BY <1>4, WithoutIs
  <1>7. ToSet(kept) = newly
    BY <1>4, <1>6
  <1>. HIDE DEF kept, newly
  <1>8. new \in Seq(FoundLinks) /\ ToSet(new) = Made(i, newly)
    <2>1. Len(kept) \in Nat /\ DOMAIN kept = 1 .. Len(kept) /\ \A k \in 1 .. Len(kept) : kept[k] \in Links
      BY <1>6, LenProperties, ElementOfSeq
    <2>2. \A link \in Links : [url |-> link.url, rule |-> i] \in FoundLinks
      BY DEF Links, FoundLinks
    <2>3. new \in [1 .. Len(kept) -> FoundLinks]
      BY <2>1, <2>2
    <2>4. new \in Seq(FoundLinks) /\ DOMAIN new = DOMAIN kept
      BY <2>1, <2>3, SeqDef
    <2>5. ToSet(new) = {[url |-> kept[k].url, rule |-> i] : k \in DOMAIN kept}
      BY <2>4 DEF ToSet
    <2>6. newly = {kept[k] : k \in DOMAIN kept}
      BY <1>7 DEF ToSet
    <2>. QED
      BY <2>4, <2>5, <2>6 DEF Made
  <1>. HIDE DEF new
  <1>9. f.requests \o new \in Seq(FoundLinks)
        /\ ToSet(f.requests \o new) = ToSet(f.requests) \cup Made(i, newly)
    BY <1>3, <1>8, SetOfJoined
  <1>10. f.seen \cup ToSet(links) = f.seen \cup Takes(i, page)
         /\ f.seen \cup Takes(i, page) \in SUBSET Links
    BY <1>1, <1>3, <1>4
  <1>11. g.seen = f.seen \cup Takes(i, page) /\ g.requests = f.requests \o new
    BY <1>2, <1>10
  <1>12. g \in FollowStates
    BY <1>2, <1>9, <1>10 DEF FollowStates
  <1>. QED
    BY <1>9, <1>11, <1>12 DEF g, newly

\* For each page the spider follows, once each or more, what the rules say it wants.
THEOREM RulesAreFollowed ==
  ASSUME NEW page \in Html
  PROVE  /\ RequestsToFollow[page] \in Seq(FoundLinks)
         /\ ToSet(RequestsToFollow[page]) = Wanted[page]
         /\ Wanted[page] \subseteq FoundLinks
  <1>. DEFINE len == Len(Rules)
              start == [seen |-> {}, requests |-> <<>>]
              followed[i \in 0 .. len] ==
                IF i = 0 THEN [seen |-> {}, requests |-> <<>>]
                ELSE Followed(followed[i - 1], i, page)
              step == [p \in (1 .. len) \X FollowStates |-> Followed(p[2], p[1], page)]
              K == {i \in 0 .. len :
                      /\ followed[i] \in FollowStates
                      /\ followed[i].seen = UNION {Takes(j, page) : j \in 1 .. i}
                      /\ ToSet(followed[i].requests)
                           = UNION {Made(j, Wants(j, page)) : j \in 1 .. i}}
  <1>1. len \in Nat /\ DOMAIN Rules = 1 .. len
    BY RulesAre
  <1>2. start \in FollowStates /\ start.seen = {} /\ ToSet(start.requests) = {}
    <2>1. <<>> \in Seq(FoundLinks) /\ ToSet(<<>>) = {}
      BY DEF ToSet
    <2>2. {} \in SUBSET Links
      OBVIOUS
    <2>. QED
      BY <2>1, <2>2 DEF FollowStates
  <1>3. RequestsToFollow[page] = followed[len].requests
    BY DEF RequestsToFollow
  <1>. HIDE DEF len, start
  <1>4. PICK f \in [0 .. len -> FollowStates] :
           f[0] = start /\ \A i \in 1 .. len : f[i] = Followed(f[i - 1], i, page)
    <2>. HIDE DEF followed, K
    <2>1. \A i \in 1 .. len : \A s \in FollowStates : step[<<i, s>>] = Followed(s, i, page)
      OBVIOUS
    <2>2. \A i \in 1 .. len : \A s \in FollowStates : Followed(s, i, page) \in FollowStates
      BY <1>1, FollowedAre
    <2>3. step \in [(1 .. len) \X FollowStates -> FollowStates]
      BY <2>2
    <2>. HIDE DEF step
    <2>4. len \in Nat /\ start \in FollowStates
      BY <1>1, <1>2
    <2>5. PICK f \in [0 .. len -> FollowStates] : Along(f, len, start, step)
      BY <2>3, <2>4, Recursion
    <2>6. \A i \in 1 .. len : f[i - 1] \in FollowStates
      BY <1>1
    <2>. QED
      BY <2>1, <2>5, <2>6 DEF Along
  <1>5. f = [i \in 0 .. len |-> IF i = 0 THEN [seen |-> {}, requests |-> <<>>]
                                ELSE Followed(f[i - 1], i, page)]
    <2>. HIDE DEF followed, step, K
    <2>1. \A i \in 0 .. len : i = 0 \/ i \in 1 .. len
      BY <1>1
    <2>. QED
      BY <1>4, <2>1 DEF start
  <1>6. followed = [i \in 0 .. len |-> IF i = 0 THEN [seen |-> {}, requests |-> <<>>]
                                       ELSE Followed(followed[i - 1], i, page)]
    <2>. HIDE DEF K, step
    <2>. QED
      BY <1>5
  <1>. HIDE DEF followed, step
  <1>7. followed[0] = start /\ \A i \in 1 .. len : followed[i] = Followed(followed[i - 1], i, page)
    <2>1. 0 \in 0 .. len /\ \A i \in 1 .. len : i \in 0 .. len /\ i # 0
      BY <1>1
    <2>. QED
      BY <1>6, <2>1 DEF start
  <1>8. 0 \in K
    BY <1>1, <1>2, <1>7
  <1>9. ASSUME NEW i \in 1 .. len, i - 1 \in K PROVE i \in K
    <2>. DEFINE before == followed[i - 1]
                newly == {link \in Takes(i, page) :
                            link \notin before.seen /\ link.url \notin Rules[i].refused}
    <2>1. /\ before \in FollowStates /\ followed[i] = Followed(before, i, page)
          /\ before.seen = UNION {Takes(j, page) : j \in 1 .. i - 1}
          /\ ToSet(before.requests) = UNION {Made(j, Wants(j, page)) : j \in 1 .. i - 1}
      BY <1>7, <1>9
    <2>2. i \in 0 .. len /\ i \in DOMAIN Rules /\ 1 .. i = (1 .. i - 1) \cup {i}
      BY <1>1
    <2>3. newly = Wants(i, page)
      BY <2>1 DEF Wants
    <2>. HIDE DEF before, newly, K
    <2>4. /\ followed[i] \in FollowStates
          /\ followed[i].seen = before.seen \cup Takes(i, page)
          /\ ToSet(followed[i].requests) = ToSet(before.requests) \cup Made(i, newly)
      <3>. DEFINE g == Followed(before, i, page)
      <3>1. /\ g \in FollowStates
            /\ g.seen = before.seen \cup Takes(i, page)
            /\ ToSet(g.requests) = ToSet(before.requests) \cup
                 Made(i, {link \in Takes(i, page) :
                            link \notin before.seen /\ link.url \notin Rules[i].refused})
        BY <2>1, <2>2, FollowedAre
      <3>. HIDE DEF g
      <3>2. followed[i] = g
        BY <2>1 DEF g
      <3>. QED
        BY <3>1, <3>2 DEF newly
    <2>5. followed[i].seen = UNION {Takes(j, page) : j \in 1 .. i}
      BY <2>1, <2>2, <2>4
    <2>6. ToSet(followed[i].requests) = UNION {Made(j, Wants(j, page)) : j \in 1 .. i}
      BY <2>1, <2>2, <2>3, <2>4
    <2>. QED
      BY <2>2, <2>4, <2>5, <2>6 DEF K
  <1>10. len \in K
    <2>. HIDE DEF K
    <2>1. len \in Int /\ len \in 0 .. len
      BY <1>1
    <2>2. \A i \in 0 .. len : i \in K
      BY <1>8, <1>9, <2>1, UpTo
    <2>. QED
      BY <2>1, <2>2
  <1>11. Wanted[page] = UNION {Made(j, Wants(j, page)) : j \in 1 .. len}
    BY <1>1 DEF Wanted, Made
  <1>12. RequestsToFollow[page] \in Seq(FoundLinks)
    BY <1>3, <1>10 DEF FollowStates
  <1>13. ToSet(RequestsToFollow[page]) \subseteq FoundLinks
    BY <1>12, LenProperties, ElementOfSeq DEF ToSet
  <1>. QED
    BY <1>3, <1>10, <1>11, <1>12, <1>13

-----------------------------------------------------------------------------
(***************************************************************************)
(* The inductive invariant, part by part.  What is in the loop's hands in  *)
(* each of its phases; where start()'s outputs are; which walk a request   *)
(* comes from; and what the outputs not yet processed still owe.           *)
(***************************************************************************)

\* The type invariant, with what a step needs of numbers, records and finite sets.
ShapeInv ==
    /\ PythonTypeOK
    /\ nextId # 0
    /\ results = [e \in DOMAIN results |-> results[e]]
    /\ extrasLeft \subseteq Extras
    /\ handled \subseteq seen

\* Nothing is under way, and only extensions have asked for more.
Exhausted ==
    tasks = {} /\ DOMAIN results = {} /\ nextStart = "none" /\ PagesOf(queued) \subseteq Extras

\* Between its batches crawl() holds no output; when it looks for the end nothing is under way.
LoopInv ==
    /\ phase \in {"dispatch", "select", "idle", "waiting"} =>
          current = NoEntry /\ DOMAIN results \subseteq tasks
    /\ phase \in {"idle", "waiting"} => Exhausted /\ (~wakeup => queued = {})
    /\ phase \in {"stopping", "ended"} /\ reason = "finished" => Exhausted
    /\ NoIdleCapacity

\* Where outputs of start() are that the loop has not scheduled.
StartStream == {nextStart} \cup ToSet(startQueue) \cup ToSet(startLeft)

\* How start() ended is the last of its outputs, and nothing overtakes it.
StartInv ==
    /\ \A i \in DOMAIN startLeft : startLeft[i] \in Signals => i = Len(startLeft)
    /\ \A i \in DOMAIN startQueue :
          startQueue[i] \in Signals => i = Len(startQueue) /\ startLeft = <<>>
    /\ nextStart \in Signals \cup {"none"} => startQueue = <<>> /\ startLeft = <<>>
    /\ StartStream \cap Fingerprints \subseteq StartsWanted
    /\ StartsWanted \subseteq seen \cup Rejected \cup StartStream \/ "failed" \in StartStream

\* The walk that a request is the last of is as long as its depth.
OnWalk(r) ==
    DepthOf(r) \in 0 .. Within /\ [page |-> r.fp, rule |-> r.rule] \in Walks[DepthOf(r)]

\* An output is a link of the parsed page, or a retry of its request.
OutputOf(r, e) ==
    /\ OnWalk(r)
    /\ IF r.filter
       THEN /\ results[e].verdict = "ok" /\ e.fp \in Html /\ r.fp \in PagesWanted[e.fp]
            /\ DepthLimit = 0 => DepthOf(r) <= Cardinality(seen)
       ELSE /\ r.fp = e.fp
            /\ DepthLimit = 0 => DepthOf(r) < Cardinality(seen)

\* Without a depth limit a walk is shorter than the pages seen are many: each of its steps
\* was to a page that was new.
WalkInv ==
    /\ IsFiniteSet(seen)
    /\ \A e \in queued \cup tasks \cup DOMAIN results :
          /\ e.fp \in seen /\ OnWalk(e)
          /\ DepthLimit = 0 => DepthOf(e) < Cardinality(seen)
    /\ \A e \in DOMAIN results : \A r \in ToSet(results[e].outputs) : OutputOf(r, e)
    /\ seen \subseteq PagesWithin

\* Pages whose callback ran.
Parsed == handled \cup {e.fp : e \in {f \in DOMAIN results : results[f].verdict = "ok"}}

\* A page that is not asked for directly is wanted by a page that was parsed, and what a hub
\* wants is known or still among the outputs of its callback.
LinksInv ==
    /\ seen \subseteq StartsWanted \cup Extras \cup UNION {PagesWanted[p] : p \in Html \cap Parsed}
    /\ \A e \in DOMAIN results :
          results[e].verdict = "ok" /\ e.fp \in Hubs =>
              PagesWanted[e.fp] \ Rejected \subseteq seen \cup PagesOf(ToSet(results[e].outputs))

PythonInv == ShapeInv /\ LoopInv /\ StartInv /\ WalkInv /\ LinksInv

-----------------------------------------------------------------------------
(* Walks, pages and outputs. *)

LEMMA PagesAre ==
  /\ \A url \in DOMAIN Web : PageOf(url) \in Fingerprints
  /\ StartsWanted \subseteq Fingerprints
  /\ StartPages \in Seq(Fingerprints) /\ ToSet(StartPages) = StartsWanted
  <1>. DEFINE urls == ProcessStart(StartUrls)
              P == {i \in DOMAIN StartUrls : StartUrls[i] \notin LongUrls}
  <1>1. \A url \in DOMAIN Web : PageOf(url) \in Fingerprints
    BY WebAssumption, CrawlAssumption DEF PageOf
  <1>2. StartUrls \in Seq(DOMAIN Web) /\ urls = Kept(StartUrls, P)
    BY CrawlAssumption DEF ProcessStart
  <1>3. urls \in Seq(DOMAIN Web) /\ ToSet(urls) = {StartUrls[i] : i \in P}
    <2>1. P \cap DOMAIN StartUrls = P
      OBVIOUS
    <2>. HIDE DEF P
    <2>. QED
      BY <1>2, <2>1, KeptIs
  <1>4. ToSet(urls) = ToSet(StartUrls) \ LongUrls
    <2>. HIDE DEF urls
    <2>. QED
      BY <1>3 DEF ToSet
  <1>5. StartPages = [i \in DOMAIN urls |-> PageOf(urls[i])]
    BY DEF StartPages
  <1>. HIDE DEF urls
  <1>6. Len(urls) \in Nat /\ DOMAIN urls = 1 .. Len(urls)
        /\ \A i \in 1 .. Len(urls) : urls[i] \in DOMAIN Web
    BY <1>3, LenProperties, ElementOfSeq
  <1>7. StartPages \in [1 .. Len(urls) -> Fingerprints]
    BY <1>1, <1>5, <1>6
  <1>8. StartPages \in Seq(Fingerprints) /\ DOMAIN StartPages = DOMAIN urls
    BY <1>6, <1>7, SeqDef
  <1>9. ToSet(StartPages) = {PageOf(url) : url \in ToSet(urls)}
    BY <1>5, <1>8 DEF ToSet
  <1>10. StartsWanted \subseteq Fingerprints
    <2>1. ToSet(StartUrls) \subseteq DOMAIN Web
      BY <1>2, LenProperties, ElementOfSeq DEF ToSet
    <2>. QED
      BY <1>1, <2>1 DEF StartsWanted
  <1>. QED
    BY <1>1, <1>4, <1>8, <1>9, <1>10 DEF StartsWanted

LEMMA WithinIs == Within \in Nat /\ (DepthLimit # 0 => Within = DepthLimit)
  BY FiltersAssumption, CrawlAssumption, FS_CardinalityType DEF Within

\* The requests that the links of a page are followed by, for the response to one request.
LinksFrom(request) ==
    IF ~Parses(request.page, request.rule) THEN {}
    ELSE {[page |-> PageOf(w.url), rule |-> w.rule] :
             w \in {v \in Wanted[request.page] : v.url \notin LongUrls}}

Onward(requests) == UNION {LinksFrom(request) : request \in requests}

LEMMA WalksAre ==
  /\ Walks[0] = {[page |-> p, rule |-> 0] : p \in StartsWanted \cup Extras}
  /\ \A n \in 1 .. Within : Walks[n] = Onward(Walks[n - 1])
  /\ DOMAIN Walks = 0 .. Within
  <1>. DEFINE all == SUBSET [page : Fingerprints, rule : 0 .. Len(Rules)]
              base == {[page |-> p, rule |-> 0] : p \in StartsWanted \cup Extras}
              walk[n \in 0 .. Within] ==
                IF n = 0 THEN base ELSE Onward(walk[n - 1])
              step == [p \in (1 .. Within) \X all |-> Onward(p[2])]
  <1>1. Walks = walk
    BY DEF Walks, Walk, LinksFrom, Onward
  <1>2. Within \in Nat /\ base \in all
    <2>1. Len(Rules) \in Nat /\ Within \in Nat
      BY RulesAre, WithinIs
    <2>2. StartsWanted \cup Extras \subseteq Fingerprints
      BY PagesAre, CrawlAssumption
    <2>. QED
      BY <2>1, <2>2
  <1>3. \A s \in all : Onward(s) \in all
    <2>1. ASSUME NEW request \in [page : Fingerprints, rule : 0 .. Len(Rules)]
          PROVE  LinksFrom(request) \in all
      <3>. SUFFICES ASSUME Parses(request.page, request.rule) PROVE LinksFrom(request) \in all
        BY DEF LinksFrom
      <3>1. request.page \in Html
        BY DEF Parses
      <3>2. Wanted[request.page] \subseteq FoundLinks
        BY <3>1, RulesAreFollowed
      <3>3. \A w \in FoundLinks :
               [page |-> PageOf(w.url), rule |-> w.rule] \in [page : Fingerprints, rule : 0 .. Len(Rules)]
        BY PagesAre, RulesAre DEF FoundLinks
      <3>. QED
        BY <3>2, <3>3 DEF LinksFrom
    <2>. QED
      BY <2>1 DEF Onward
  <1>. HIDE DEF base, all
  <1>4. PICK f \in [0 .. Within -> all] :
           f[0] = base /\ \A n \in 1 .. Within :
                             f[n] = Onward(f[n - 1])
    <2>. HIDE DEF walk
    <2>1. \A n \in 1 .. Within : \A s \in all :
             step[<<n, s>>] = Onward(s)
      OBVIOUS
    <2>2. step \in [(1 .. Within) \X all -> all]
      BY <1>3
    <2>. HIDE DEF step
    <2>3. Within \in Nat /\ base \in all
      BY <1>2
    <2>4. PICK f \in [0 .. Within -> all] : Along(f, Within, base, step)
      BY <2>2, <2>3, Recursion
    <2>5. \A n \in 1 .. Within : f[n - 1] \in all
      BY <1>2
    <2>. QED
      BY <2>1, <2>4, <2>5 DEF Along
  <1>5. f = [n \in 0 .. Within |->
               IF n = 0 THEN base ELSE Onward(f[n - 1])]
    <2>. HIDE DEF walk, step
    <2>1. \A n \in 0 .. Within : n = 0 \/ n \in 1 .. Within
      BY <1>2
    <2>. QED
      BY <1>4, <2>1
  <1>6. walk = [n \in 0 .. Within |->
               IF n = 0 THEN base ELSE Onward(walk[n - 1])]
    <2>. HIDE DEF step
    <2>. QED
      BY <1>5
  <1>. HIDE DEF walk, step
  <1>7. /\ walk[0] = base /\ DOMAIN walk = 0 .. Within
        /\ \A n \in 1 .. Within : walk[n] = Onward(walk[n - 1])
    <2>1. 0 \in 0 .. Within /\ \A n \in 1 .. Within : n \in 0 .. Within /\ n # 0
      BY <1>2
    <2>. QED
      BY <1>6, <2>1
  <1>. QED
    BY <1>1, <1>7 DEF base

\* A link that is followed leads one step further.
LEMMA WalksGoOn ==
  ASSUME NEW n \in 0 .. Within, n + 1 <= Within, NEW p, NEW rule, Parses(p, rule),
         [page |-> p, rule |-> rule] \in Walks[n],
         NEW w \in Wanted[p], w.url \notin LongUrls
  PROVE  n + 1 \in 0 .. Within /\ [page |-> PageOf(w.url), rule |-> w.rule] \in Walks[n + 1]
  <1>. DEFINE request == [page |-> p, rule |-> rule]
  <1>1. n + 1 \in 1 .. Within /\ (n + 1) - 1 = n
    BY WithinIs
  <1>2. Walks[n + 1] = Onward(Walks[n])
    BY <1>1, WalksAre
  <1>3. [page |-> PageOf(w.url), rule |-> w.rule] \in LinksFrom(request)
    BY DEF LinksFrom
  <1>. QED
    BY <1>1, <1>2, <1>3 DEF Onward

\* Walks start at the pages that are asked for directly, and lead to pages within the crawl.
LEMMA WalksLead ==
  /\ \A p \in StartsWanted \cup Extras : 0 \in 0 .. Within /\ [page |-> p, rule |-> 0] \in Walks[0]
  /\ \A r : OnWalk(r) => r.fp \in PagesWithin
  <1>1. ASSUME NEW r, OnWalk(r) PROVE r.fp \in PagesWithin
    <2>1. Walks[DepthOf(r)] \in Range(Walks)
      BY <1>1, WalksAre DEF OnWalk, Range
    <2>. QED
      BY <1>1, <2>1 DEF OnWalk, PagesWithin
  <1>2. \A p \in StartsWanted \cup Extras : 0 \in 0 .. Within /\ [page |-> p, rule |-> 0] \in Walks[0]
    BY WalksAre, WithinIs
  <1>. QED
    BY <1>1, <1>2

\* What CallbackReturns makes of a request.
Answers(e) ==
    LET links == ShortLinks(ParseWithRules(e.fp, e.rule))
        yielded == [i \in DOMAIN links |-> RequestOf(PageOf(links[i].url), links[i].rule)]
    IN  ProcessSpiderOutput(yielded, e)

LinkedFrom(e) ==
    IF Parses(e.fp, e.rule) THEN {w \in Wanted[e.fp] : w.url \notin LongUrls} ELSE {}

\* A request of a link of the response to e.
LinkRequest(w, e) == Deeper(RequestOf(PageOf(w.url), w.rule), e)

LEMMA LinkRequestIs ==
  ASSUME NEW e \in Entries, DepthOf(e) \in Nat, NEW w \in FoundLinks
  PROVE  LET r == LinkRequest(w, e)
         IN  /\ r \in Requests /\ r.fp = PageOf(w.url) /\ r.rule = w.rule /\ r.filter = TRUE
             /\ r.depth = DepthOf(e) + 1 /\ DepthOf(r) = DepthOf(e) + 1
  <1>1. /\ PageOf(w.url) \in Fingerprints /\ w.rule \in 0 .. Len(Rules)
        /\ e.depth \in Int /\ DepthPriority \in Int
    BY PagesAre, RulesAre, FiltersAssumption DEF FoundLinks, Entries, RequestsNumbered
  <1>. DEFINE depth == DepthOf(e) + 1
              r == LinkRequest(w, e)
  <1>2. depth \in Int /\ 0 - depth * DepthPriority \in Int
    BY <1>1 DEF DepthOf, NoDepth
  <1>3. r = [id |-> 0, fp |-> PageOf(w.url), rule |-> w.rule, filter |-> TRUE,
             priority |-> 0 - depth * DepthPriority, start |-> FALSE, persistent |-> FALSE,
             depth |-> depth]
    <2>. DEFINE q == RequestOf(PageOf(w.url), w.rule)
    <2>1. q = [id |-> 0, fp |-> PageOf(w.url), rule |-> w.rule, filter |-> TRUE,
               priority |-> 0, start |-> FALSE, persistent |-> FALSE, depth |-> NoDepth]
      BY DEF RequestOf
    <2>2. r = [q EXCEPT !.depth = depth, !.priority = @ - depth * DepthPriority]
      BY DEF LinkRequest, Deeper
    <2>. HIDE DEF q, r, depth
    <2>. QED
      BY <2>1, <2>2
  <1>4. DepthOf(r) = depth
    <2>1. depth # NoDepth /\ r.depth = depth
      BY <1>3 DEF NoDepth
    <2>. HIDE DEF r, depth
    <2>. QED
      BY <2>1 DEF DepthOf
  <1>. QED
    BY <1>1, <1>2, <1>3, <1>4 DEF Requests, RequestsNumbered

LEMMA AnswersAre ==
  ASSUME NEW e \in Entries, DepthOf(e) \in Nat
  PROVE  /\ Answers(e) \in Seq(Requests)
         /\ ToSet(Answers(e)) =
              IF Accepted(DepthOf(e) + 1) THEN {LinkRequest(w, e) : w \in LinkedFrom(e)} ELSE {}
         /\ LinkedFrom(e) \subseteq FoundLinks
  <1>. DEFINE all == ParseWithRules(e.fp, e.rule)
              P == {i \in DOMAIN all : all[i].url \notin LongUrls}
              links == ShortLinks(all)
              yielded == [i \in DOMAIN links |-> RequestOf(PageOf(links[i].url), links[i].rule)]
              deeper == [i \in DOMAIN yielded |-> Deeper(yielded[i], e)]
  <1>1. all \in Seq(FoundLinks) /\ ToSet(all) = IF Parses(e.fp, e.rule) THEN Wanted[e.fp] ELSE {}
    <2>1. CASE Parses(e.fp, e.rule)
      <3>1. e.fp \in Html /\ all = RequestsToFollow[e.fp]
        BY <2>1 DEF Parses, ParseWithRules
      <3>. QED
        BY <2>1, <3>1, RulesAreFollowed
    <2>2. CASE ~Parses(e.fp, e.rule)
      BY <2>2 DEF ParseWithRules, ToSet
    <2>. QED
      BY <2>1, <2>2
  <1>2. links = Kept(all, P)
    BY DEF ShortLinks
  <1>3. Answers(e) = IF Accepted(DepthOf(e) + 1) THEN deeper ELSE <<>>
    BY DEF Answers, ProcessSpiderOutput
  <1>. HIDE DEF all
  <1>4. links \in Seq(FoundLinks) /\ ToSet(links) = {all[i] : i \in P}
    <2>1. P \cap DOMAIN all = P
      OBVIOUS
    <2>. HIDE DEF P, links
    <2>. QED
      BY <1>1, <1>2, <2>1, KeptIs
  <1>. HIDE DEF links
  <1>5. ToSet(links) = LinkedFrom(e)
    <2>1. ToSet(links) = {w \in ToSet(all) : w.url \notin LongUrls}
      BY <1>4 DEF ToSet
    <2>. QED
      BY <1>1, <2>1 DEF LinkedFrom
  <1>6. Len(links) \in Nat /\ DOMAIN links = 1 .. Len(links)
        /\ \A i \in 1 .. Len(links) : links[i] \in FoundLinks
    BY <1>4, LenProperties, ElementOfSeq
  <1>7. ToSet(links) \subseteq FoundLinks
    BY <1>6 DEF ToSet
  <1>8. \A i \in DOMAIN links :
           /\ Deeper(yielded[i], e) = LinkRequest(links[i], e)
           /\ LinkRequest(links[i], e) \in Requests
           /\ LinkRequest(links[i], e).depth = DepthOf(e) + 1
    <2>1. \A i \in DOMAIN links : Deeper(yielded[i], e) = LinkRequest(links[i], e)
      BY DEF LinkRequest
    <2>. HIDE DEF yielded
    <2>. QED
      BY <1>6, <2>1, LinkRequestIs
  <1>9. DOMAIN yielded = DOMAIN links
    OBVIOUS
  <1>. HIDE DEF yielded
  <1>10. deeper \in [1 .. Len(links) -> Requests]
    BY <1>6, <1>8, <1>9
  <1>11. deeper \in Seq(Requests) /\ DOMAIN deeper = DOMAIN links
         /\ \A i \in DOMAIN links : deeper[i] = LinkRequest(links[i], e)
    BY <1>6, <1>8, <1>9, <1>10, SeqDef
  <1>. HIDE DEF deeper
  <1>12. CASE Accepted(DepthOf(e) + 1)
    <2>1. ToSet(deeper) = {LinkRequest(links[i], e) : i \in DOMAIN links}
      BY <1>11 DEF ToSet
    <2>2. {LinkRequest(links[i], e) : i \in DOMAIN links} = {LinkRequest(w, e) : w \in LinkedFrom(e)}
      <3>1. LinkedFrom(e) = {links[i] : i \in DOMAIN links}
        BY <1>5 DEF ToSet
      <3>. QED
        BY <3>1
    <2>. QED
      BY <1>3, <1>5, <1>7, <1>11, <1>12, <2>1, <2>2
  <1>13. CASE ~Accepted(DepthOf(e) + 1)
    <2>1. <<>> \in Seq(Requests) /\ ToSet(<<>>) = {}
      BY DEF ToSet
    <2>. QED
      BY <1>3, <1>5, <1>7, <1>13, <2>1
  <1>. QED
    BY <1>12, <1>13

-----------------------------------------------------------------------------
(* Scheduling. *)

\* An entry for the request r.
EntryOf(e, r) ==
    /\ e \in Entries
    /\ e.fp = r.fp /\ e.rule = r.rule /\ e.filter = r.filter /\ e.depth = r.depth

\* What Schedule does: nothing to a refused or a known page, else it queues the request and
\* the duplicate filter remembers it.
Scheduled(r) ==
    \/ /\ r.fp \in Rejected \/ (r.filter /\ r.fp \in seen)
       /\ UNCHANGED schedulerVars
    \/ /\ ~(r.filter /\ r.fp \in seen)
       /\ wakeup' = TRUE
       /\ \E e \in Entries : EntryOf(e, r) /\ queued' = queued \cup {e}
       /\ seen' = IF r.filter THEN seen \cup {r.fp} ELSE seen
       /\ nextId' \in Nat /\ nextId' # 0

LEMMA Scheduling ==
  ASSUME NEW r \in Requests, Schedule(r), nextId \in Nat, nextId # 0
  PROVE  Scheduled(r)
  <1>1. CASE r.fp \in Rejected \/ IsSeen(r)
    BY <1>1 DEF Schedule, Scheduled, IsSeen
  <1>2. CASE ~(r.fp \in Rejected \/ IsSeen(r))
    <2>1. queued' = queued \cup {Numbered(r)} /\ seen' = SeenWith(r) /\ nextId' = nextId + 1 /\ wakeup' = TRUE
      BY <1>2 DEF Schedule
    <2>. DEFINE e == Numbered(r)
    <2>2. e = [r EXCEPT !.id = nextId]
      BY DEF Numbered
    <2>3. e \in Entries
      BY <2>2 DEF Entries, Requests, RequestsNumbered
    <2>4. EntryOf(e, r)
      BY <2>2, <2>3 DEF EntryOf, Requests, RequestsNumbered
    <2>. HIDE DEF e
    <2>. QED
      BY <1>2, <2>1, <2>3, <2>4 DEF Scheduled, SeenWith, IsSeen, e
  <1>. QED
    BY <1>1, <1>2

\* The requests that are scheduled without a response.
LEMMA FirstRequests ==
  ASSUME NEW p \in Fingerprints
  PROVE  /\ RequestOf(p, 0) \in Requests /\ StartRequestOf(p) \in Requests
         /\ \A r \in {RequestOf(p, 0), StartRequestOf(p)} :
               r.fp = p /\ r.rule = 0 /\ r.filter = TRUE /\ DepthOf(r) = 0
  <1>1. 0 \in 0 .. Len(Rules) /\ NoDepth \in Int
    BY RulesAre DEF NoDepth
  <1>2. RequestOf(p, 0) = [id |-> 0, fp |-> p, rule |-> 0, filter |-> TRUE, priority |-> 0,
                           start |-> FALSE, persistent |-> FALSE, depth |-> NoDepth]
    BY DEF RequestOf
  <1>3. StartRequestOf(p) = [id |-> 0, fp |-> p, rule |-> 0, filter |-> TRUE, priority |-> 0,
                             start |-> TRUE, persistent |-> FALSE, depth |-> NoDepth]
    <2>. DEFINE q == RequestOf(p, 0)
    <2>1. StartRequestOf(p) = [q EXCEPT !.start = TRUE]
      BY DEF StartRequestOf
    <2>2. q = [id |-> 0, fp |-> p, rule |-> 0, filter |-> TRUE, priority |-> 0,
               start |-> FALSE, persistent |-> FALSE, depth |-> NoDepth]
      BY <1>2
    <2>. HIDE DEF q
    <2>. QED
      BY <2>1, <2>2
  <1>4. \A s \in BOOLEAN :
           [id |-> 0, fp |-> p, rule |-> 0, filter |-> TRUE, priority |-> 0,
            start |-> s, persistent |-> FALSE, depth |-> NoDepth] \in Requests
    BY <1>1 DEF Requests, RequestsNumbered
  <1>5. RequestOf(p, 0) \in Requests /\ StartRequestOf(p) \in Requests
    BY <1>2, <1>3, <1>4
  <1>6. \A r \in {RequestOf(p, 0), StartRequestOf(p)} :
           r.fp = p /\ r.rule = 0 /\ r.filter = TRUE /\ r.depth = NoDepth
    BY <1>2, <1>3
  <1>. QED
    BY <1>5, <1>6 DEF DepthOf

-----------------------------------------------------------------------------
(* The steps, by what they touch. *)

\* crawl() changes its phase, or the environment asks it to.
Quietly ==
    \/ Select \/ ResumeFails \/ ResultRaises \/ BatchDone \/ GoesIdle \/ IdleKeepsAlive
    \/ IdleEnds \/ Woke \/ ReactsToClose \/ RunEnds
    \/ CloseSpider \/ CloseWaiterRaises \/ CrawlCancelled \/ NothingToDo \/ UNCHANGED vars

StartMoves == ProducerPuts \/ StartRaises \/ GetsStart

LEMMA Steps ==
  ASSUME [Next]_vars
  PROVE  \/ Quietly \/ StartMoves \/ \E e \in tasks : TaskReturns(e)
         \/ Dispatch \/ Resume \/ TakeResult \/ ProcessOutput \/ OutputsDone \/ ExtraSchedules
  BY Zenon DEF Next, LoopStep, Quietly, StartMoves

LEMMA QuietSteps ==
  ASSUME Quietly, PythonTypeOK
  PROVE  /\ UNCHANGED <<queued, seen, nextId, taskVars, startVars, extrasLeft, handled, gaveUp>>
         /\ phase' \in Phases
         /\ reason' \in {"none", "finished", "shutdown", "cancelled", "error"}
         /\ close' \in {"open", "asked", "raised"} /\ wakeup' \in BOOLEAN
  <1>. USE DEF schedulerVars, loopVars, taskVars, startVars, historyVars
  <1>1. CASE Select
    BY <1>1 DEF Select, PythonTypeOK, Phases
  <1>2. CASE ResumeFails
    BY <1>2 DEF ResumeFails, Stops, PythonTypeOK, Phases
  <1>3. CASE ResultRaises
    BY <1>3 DEF ResultRaises, Stops, PythonTypeOK, Phases
  <1>4. CASE BatchDone
    BY <1>4 DEF BatchDone, PythonTypeOK, Phases
  <1>5. CASE GoesIdle
    BY <1>5 DEF GoesIdle, PythonTypeOK, Phases
  <1>6. CASE IdleKeepsAlive
    BY <1>6 DEF IdleKeepsAlive, PythonTypeOK, Phases
  <1>7. CASE IdleEnds
    BY <1>7 DEF IdleEnds, Stops, PythonTypeOK, Phases
  <1>8. CASE Woke
    BY <1>8 DEF Woke, PythonTypeOK, Phases
  <1>9. CASE ReactsToClose
    BY <1>9 DEF ReactsToClose, Stops, PythonTypeOK, Phases
  <1>10. CASE RunEnds
    BY <1>10 DEF RunEnds, PythonTypeOK, Phases
  <1>11. CASE CloseSpider
    BY <1>11 DEF CloseSpider, PythonTypeOK
  <1>12. CASE CloseWaiterRaises
    BY <1>12 DEF CloseWaiterRaises, PythonTypeOK
  <1>13. CASE CrawlCancelled
    BY <1>13 DEF CrawlCancelled, Stops, PythonTypeOK, Phases
  <1>14. CASE NothingToDo \/ UNCHANGED vars
    BY <1>14 DEF NothingToDo, vars, PythonTypeOK
  <1>. QED
    BY <1>1, <1>2, <1>3, <1>4, <1>5, <1>6, <1>7, <1>8, <1>9, <1>10, <1>11, <1>12, <1>13, <1>14
       DEF Quietly

LEMMA RetryRecord ==
  ASSUME NEW e, NEW id, NEW fp, NEW rule, NEW filter, NEW priority, NEW start, NEW persistent,
         NEW depth, NEW i, NEW f, NEW p,
         e = [id |-> id, fp |-> fp, rule |-> rule, filter |-> filter, priority |-> priority,
              start |-> start, persistent |-> persistent, depth |-> depth]
  PROVE  [[[e EXCEPT !.id = i] EXCEPT !.filter = f] EXCEPT !.priority = p] =
            [id |-> i, fp |-> fp, rule |-> rule, filter |-> f, priority |-> p,
             start |-> start, persistent |-> persistent, depth |-> depth]
  <1>. DEFINE d == [e EXCEPT !.id = i]
              g == [d EXCEPT !.filter = f]
  <1>1. d =
            [id |-> i, fp |-> fp, rule |-> rule, filter |-> filter, priority |-> priority,
             start |-> start, persistent |-> persistent, depth |-> depth]
    BY SMT
  <1>. HIDE DEF d
  <1>2. g =
            [id |-> i, fp |-> fp, rule |-> rule, filter |-> f, priority |-> priority,
             start |-> start, persistent |-> persistent, depth |-> depth]
    BY <1>1, SMT
  <1>. HIDE DEF g
  <1>3. [g EXCEPT !.priority = p] =
            [id |-> i, fp |-> fp, rule |-> rule, filter |-> f, priority |-> p,
             start |-> start, persistent |-> persistent, depth |-> depth]
    BY <1>2, SMT
  <1>. QED
    BY <1>3 DEF g, d

LEMMA RetryIs ==
  ASSUME NEW e \in Entries
  PROVE  /\ RetryOf(e) \in Requests
         /\ RetryOf(e).fp = e.fp /\ RetryOf(e).rule = e.rule /\ RetryOf(e).filter = FALSE
         /\ RetryOf(e).depth = e.depth
  <1>1. PICK id \in Nat \ {0}, fp \in Fingerprints, rule \in 0 .. Len(Rules), filter \in BOOLEAN,
             priority \in Int, start \in BOOLEAN, persistent \in {FALSE}, depth \in Int :
           e = [id |-> id, fp |-> fp, rule |-> rule, filter |-> filter, priority |-> priority,
                start |-> start, persistent |-> persistent, depth |-> depth]
    BY DEF Entries, RequestsNumbered
  <1>2. RetryOf(e) = [id |-> 0, fp |-> fp, rule |-> rule, filter |-> FALSE,
                      priority |-> priority - 1, start |-> start, persistent |-> persistent,
                      depth |-> depth]
    <2>1. RetryOf(e) = [[[e EXCEPT !.id = 0] EXCEPT !.filter = FALSE]
                          EXCEPT !.priority = e.priority - 1]
      BY Zenon DEF RetryOf
    <2>2. e.priority = priority
      BY <1>1
    <2>. QED
      BY <1>1, <2>1, <2>2, RetryRecord, Zenon
  <1>3. priority - 1 \in Int /\ 0 \in {0} /\ FALSE \in BOOLEAN
    OBVIOUS
  <1>4. RetryOf(e) \in Requests
    BY <1>2, <1>3 DEF Requests, RequestsNumbered
  <1>5. e.fp = fp /\ e.rule = rule /\ e.depth = depth
    BY <1>1
  <1>6. /\ RetryOf(e).fp = fp /\ RetryOf(e).rule = rule /\ RetryOf(e).filter = FALSE
        /\ RetryOf(e).depth = depth
    BY <1>2
  <1>. QED
    BY <1>4, <1>5, <1>6

\* A task returns: it stays with crawl() until that collects it, and so does what it returned.
Returned(e, result) ==
    /\ phase \in {"select", "batch"}
    /\ e \in Running
    /\ result \in [verdict : Verdicts, outputs : Seq(Requests)]
    /\ DOMAIN results' = DOMAIN results \cup {e}
    /\ results' = [f \in DOMAIN results' |-> results'[f]]
    /\ results'[e] = result
    /\ \A f \in DOMAIN results : results'[f] = results[f]
    /\ UNCHANGED <<schedulerVars, loopVars, tasks, current, startVars, historyVars>>

LEMMA ReturnSteps ==
  ASSUME NEW e, TaskReturns(e), PythonTypeOK, \A f \in tasks : DepthOf(f) \in Nat
  PROVE  \E result :
            /\ Returned(e, result)
            /\ \/ result.verdict = "ok" /\ result.outputs = Answers(e)
               \/ result.verdict # "ok" /\ result.outputs \in {<<>>, <<RetryOf(e)>>}
  <1>. DEFINE Sort == [verdict : Verdicts, outputs : Seq(Requests)]
  <1>1. ASSUME NEW verdict \in Verdicts, NEW outputs \in Seq(Requests), Returns(e, verdict, outputs)
        PROVE  \E result :
                  Returned(e, result) /\ result.verdict = verdict /\ result.outputs = outputs
    <2>. DEFINE result == [verdict |-> verdict, outputs |-> outputs]
                new == [f \in DOMAIN results \cup {e} |-> IF f = e THEN result ELSE results[f]]
    <2>1. results' = new /\ e \in Running
      BY <1>1 DEF Returns
    <2>2. DOMAIN new = DOMAIN results \cup {e} /\ new[e] = result
          /\ \A f \in DOMAIN results \ {e} : new[f] = results[f]
      OBVIOUS
    <2>3. e \notin DOMAIN results
      BY <2>1 DEF Running
    <2>4. new = [f \in DOMAIN new |-> new[f]]
      OBVIOUS
    <2>5. result \in Sort /\ result.verdict = verdict /\ result.outputs = outputs
      OBVIOUS
    <2>. HIDE DEF new
    <2>6. Returned(e, result)
      <3>. HIDE DEF result
      <3>. QED
        BY <1>1, <2>1, <2>2, <2>3, <2>4, <2>5 DEF Returned, Returns
    <2>. QED
      BY <2>5, <2>6
  <1>2. e \in Entries /\ DepthOf(e) \in Nat
    BY DEF TaskReturns, CallbackReturns, DownloadFails, DownloadRetried, HandlerRaises, Returns,
           Running, PythonTypeOK
  <1>3. CASE CallbackReturns(e)
    <2>1. Returns(e, "ok", Answers(e))
      BY <1>3 DEF CallbackReturns, Answers
    <2>2. Answers(e) \in Seq(Requests)
      BY <1>2, AnswersAre
    <2>3. "ok" \in Verdicts
      BY DEF Verdicts
    <2>. QED
      BY <1>1, <2>1, <2>2, <2>3
  <1>4. CASE DownloadFails(e)
    <2>1. Returns(e, "give_up", <<>>) /\ "give_up" \in Verdicts /\ "give_up" # "ok" /\ <<>> \in Seq(Requests)
      BY <1>4 DEF DownloadFails, Verdicts
    <2>2. PICK result : Returned(e, result) /\ result.verdict = "give_up" /\ result.outputs = <<>>
      BY <1>1, <2>1
    <2>. QED
      BY <2>1, <2>2
  <1>5. CASE DownloadRetried(e)
    <2>1. RetryOf(e) \in Requests
      BY <1>2, RetryIs
    <2>2. Returns(e, "retry", <<RetryOf(e)>>)
      BY <1>5 DEF DownloadRetried
    <2>3. "retry" \in Verdicts /\ "retry" # "ok" /\ <<RetryOf(e)>> \in Seq(Requests)
      BY <2>1 DEF Verdicts
    <2>4. PICK result : Returned(e, result) /\ result.verdict = "retry"
                        /\ result.outputs = <<RetryOf(e)>>
      BY <1>1, <2>2, <2>3
    <2>. QED
      BY <2>3, <2>4
  <1>6. CASE HandlerRaises(e)
    <2>1. Returns(e, "raise", <<>>) /\ "raise" \in Verdicts /\ "raise" # "ok" /\ <<>> \in Seq(Requests)
      BY <1>6 DEF HandlerRaises, Verdicts
    <2>2. PICK result : Returned(e, result) /\ result.verdict = "raise" /\ result.outputs = <<>>
      BY <1>1, <2>1
    <2>. QED
      BY <2>1, <2>2
  <1>. QED
    BY <1>3, <1>4, <1>5, <1>6 DEF TaskReturns

-----------------------------------------------------------------------------
(* The shape of the state. *)

\* The outputs of one entry change, or an entry goes: results stays a function.
LEMMA OutputSteps ==
  ASSUME ProcessOutput, PythonTypeOK, nextId # 0
  PROVE  /\ phase = "batch" /\ current \in Collected
         /\ results[current].outputs # <<>>
         /\ Scheduled(Head(results[current].outputs))
         /\ Head(results[current].outputs) \in Requests
         /\ Tail(results[current].outputs) \in Seq(Requests)
         /\ ToSet(results[current].outputs) =
              {Head(results[current].outputs)} \cup ToSet(Tail(results[current].outputs))
         /\ DOMAIN results' = DOMAIN results
         /\ results' = [f \in DOMAIN results' |-> results'[f]]
         /\ results'[current] = [verdict |-> results[current].verdict,
                                 outputs |-> Tail(results[current].outputs)]
         /\ \A f \in DOMAIN results \ {current} : results'[f] = results[f]
         /\ UNCHANGED <<loopVars, tasks, current, startVars, extrasLeft, handled, gaveUp>>
  <1>. DEFINE outputs == results[current].outputs
              new == [results EXCEPT ![current].outputs = Tail(@)]
  <1>1. /\ phase = "batch" /\ current # NoEntry /\ outputs # <<>>
        /\ Schedule(Head(outputs)) /\ results' = new
        /\ UNCHANGED <<loopVars, tasks, current, startVars, extrasLeft, handled, gaveUp>>
    BY DEF ProcessOutput, historyVars
  <1>2. current \in Collected /\ current \in DOMAIN results
        /\ results[current] \in [verdict : Verdicts, outputs : Seq(Requests)]
    BY <1>1 DEF PythonTypeOK, Collected
  <1>3. outputs \in Seq(Requests)
    BY <1>2
  <1>4. Head(outputs) \in Requests /\ Tail(outputs) \in Seq(Requests)
        /\ ToSet(outputs) = {Head(outputs)} \cup ToSet(Tail(outputs))
    BY <1>1, <1>3, HeadAndTail
  <1>5. Scheduled(Head(outputs))
    BY <1>1, <1>4, Scheduling DEF PythonTypeOK
  <1>6. /\ DOMAIN new = DOMAIN results
        /\ new = [f \in DOMAIN new |-> new[f]]
        /\ new[current] = [results[current] EXCEPT !.outputs = Tail(outputs)]
        /\ \A f \in DOMAIN results \ {current} : new[f] = results[f]
    BY <1>2
  <1>7. [results[current] EXCEPT !.outputs = Tail(outputs)] =
          [verdict |-> results[current].verdict, outputs |-> Tail(outputs)]
    <2>1. PICK v \in Verdicts, o \in Seq(Requests) : results[current] = [verdict |-> v, outputs |-> o]
      BY <1>2
    <2>. DEFINE t == Tail(outputs)
                r == results[current]
    <2>2. r = [verdict |-> v, outputs |-> o]
      BY <2>1
    <2>. HIDE DEF r, t
    <2>3. [r EXCEPT !.outputs = t] = [verdict |-> r.verdict, outputs |-> t]
      BY <2>2
    <2>. QED
      BY <2>3 DEF r, t
  <1>. HIDE DEF new, outputs
  <1>. QED
    BY <1>1, <1>2, <1>4, <1>5, <1>6, <1>7 DEF outputs

LEMMA DoneSteps ==
  ASSUME OutputsDone, PythonTypeOK
  PROVE  /\ phase = "batch" /\ current \in Collected /\ current' = NoEntry
         /\ results[current].outputs = <<>>
         /\ DOMAIN results' = DOMAIN results \ {current}
         /\ results' = [f \in DOMAIN results' |-> results'[f]]
         /\ \A f \in DOMAIN results' : results'[f] = results[f]
         /\ handled' = IF results[current].verdict = "ok" THEN handled \cup {current.fp} ELSE handled
         /\ UNCHANGED <<schedulerVars, loopVars, tasks, startVars, extrasLeft>>
  <1>. DEFINE new == [f \in DOMAIN results \ {current} |-> results[f]]
  <1>1. /\ phase = "batch" /\ current # NoEntry /\ results[current].outputs = <<>>
        /\ Settled(current)
    BY DEF OutputsDone
  <1>2. /\ results' = new /\ current' = NoEntry
        /\ handled' = IF results[current].verdict = "ok" THEN handled \cup {current.fp} ELSE handled
        /\ UNCHANGED <<schedulerVars, loopVars, tasks, startVars, extrasLeft>>
    BY <1>1 DEF Settled
  <1>3. DOMAIN new = DOMAIN results \ {current} /\ new = [f \in DOMAIN new |-> new[f]]
        /\ \A f \in DOMAIN new : new[f] = results[f]
    OBVIOUS
  <1>4. current \in Collected
    BY <1>1 DEF PythonTypeOK
  <1>. HIDE DEF new
  <1>. QED
    BY <1>1, <1>2, <1>3, <1>4

LEMMA ResumeSteps ==
  ASSUME Resume, PythonTypeOK, nextId # 0
  PROVE  /\ phase = "select" /\ phase' = "batch" /\ tasks' = Running
         /\ nextStart \in Fingerprints =>
              /\ StartRequestOf(nextStart) \in Requests /\ Scheduled(StartRequestOf(nextStart))
              /\ nextStart' = "getting"
         /\ nextStart \notin Fingerprints =>
              /\ UNCHANGED schedulerVars
              /\ nextStart' = IF nextStart = "done" THEN "none" ELSE nextStart
         /\ nextStart # "failed"
         /\ UNCHANGED <<reason, close, results, current, startLeft, startQueue, extrasLeft,
                        handled, gaveUp>>
  <1>1. nextStart \in Fingerprints => Schedule(StartRequestOf(nextStart))
    BY DEF Resume
  <1>2. nextStart \in Fingerprints => StartRequestOf(nextStart) \in Requests
    BY FirstRequests
  <1>3. nextStart \in Fingerprints => Scheduled(StartRequestOf(nextStart))
    BY <1>1, <1>2, Scheduling DEF PythonTypeOK
  <1>. QED
    BY <1>2, <1>3 DEF Resume, Replaced, historyVars

LEMMA ExtraSteps ==
  ASSUME ExtraSchedules, ShapeInv
  PROVE  /\ phase \notin {"dispatch", "ended"}
         /\ \E x \in Extras : RequestOf(x, 0) \in Requests /\ Scheduled(RequestOf(x, 0))
         /\ extrasLeft' \subseteq Extras
         /\ UNCHANGED <<loopVars, taskVars, startVars, handled, gaveUp>>
  <1>1. PICK x \in extrasLeft : Schedule(RequestOf(x, 0)) /\ extrasLeft' = extrasLeft \ {x}
    BY DEF ExtraSchedules
  <1>2. x \in Extras /\ x \in Fingerprints /\ extrasLeft' \subseteq Extras
    BY <1>1, CrawlAssumption DEF ShapeInv
  <1>3. RequestOf(x, 0) \in Requests
    BY <1>2, FirstRequests
  <1>4. Scheduled(RequestOf(x, 0))
    BY <1>1, <1>3, Scheduling DEF ShapeInv, PythonTypeOK
  <1>. QED
    BY <1>2, <1>3, <1>4 DEF ExtraSchedules, Awaiting

LEMMA DispatchSteps ==
  ASSUME Dispatch
  PROVE  /\ phase = "dispatch"
         /\ \E e \in queued : queued' = queued \ {e} /\ tasks' = tasks \cup {e}
         /\ UNCHANGED <<seen, nextId, wakeup, loopVars, results, current, startVars, extrasLeft,
                        handled, gaveUp>>
  BY DEF Dispatch, Pops, historyVars

LEMMA TakeSteps ==
  ASSUME TakeResult
  PROVE  /\ phase = "batch" /\ current = NoEntry /\ current' \in Collected
         /\ UNCHANGED <<schedulerVars, loopVars, tasks, results, startVars, extrasLeft, handled,
                        gaveUp>>
  BY DEF TakeResult, historyVars

\* What the requests of the scheduler are after one more.
LEMMA ScheduledShape ==
  ASSUME NEW r \in Requests, Scheduled(r), ShapeInv
  PROVE  /\ queued' \subseteq Entries /\ seen' \subseteq Fingerprints
         /\ nextId' \in Nat /\ nextId' # 0 /\ wakeup' \in BOOLEAN
         /\ seen \subseteq seen' /\ seen' \subseteq seen \cup {r.fp}
         /\ queued \subseteq queued'
         /\ \A e \in queued' \ queued : EntryOf(e, r)
         /\ PagesOf(queued') \subseteq PagesOf(queued) \cup {r.fp}
         /\ r.filter => r.fp \in seen' \cup Rejected
  <1>1. r.fp \in Fingerprints
    BY DEF Requests, RequestsNumbered
  <1>2. CASE UNCHANGED schedulerVars /\ (r.fp \in Rejected \/ (r.filter /\ r.fp \in seen))
    BY <1>2 DEF schedulerVars, ShapeInv, PythonTypeOK
  <1>3. CASE /\ wakeup' = TRUE
             /\ \E e \in Entries : EntryOf(e, r) /\ queued' = queued \cup {e}
             /\ seen' = IF r.filter THEN seen \cup {r.fp} ELSE seen
             /\ nextId' \in Nat /\ nextId' # 0
    <2>1. PICK e \in Entries : EntryOf(e, r) /\ queued' = queued \cup {e}
      BY <1>3
    <2>2. e.fp = r.fp
      BY <2>1 DEF EntryOf
    <2>3. PagesOf(queued') \subseteq PagesOf(queued) \cup {r.fp}
      BY <2>1, <2>2 DEF PagesOf
    <2>. QED
      BY <1>1, <1>3, <2>1, <2>3 DEF ShapeInv, PythonTypeOK
  <1>. QED
    BY <1>2, <1>3 DEF Scheduled

LEMMA DepthsAre ==
  ASSUME PythonInv
  PROVE  \A e \in queued \cup tasks \cup DOMAIN results : DepthOf(e) \in Nat
  <1>1. \A e \in queued \cup tasks \cup DOMAIN results : OnWalk(e)
    BY DEF PythonInv, WalkInv
  <1>2. \A e : OnWalk(e) => DepthOf(e) \in Nat
    BY WithinIs DEF OnWalk
  <1>. QED
    BY <1>1, <1>2

LEMMA ShapeIsKept ==
  ASSUME PythonInv, [Next]_vars
  PROVE  ShapeInv'
  <1>. USE DEF schedulerVars, loopVars, taskVars, startVars, historyVars
  <1>1. /\ PythonTypeOK /\ ShapeInv /\ nextId # 0 /\ nextId \in Nat
        /\ \A e \in DOMAIN results : e.fp \in seen
        /\ \A e \in tasks : DepthOf(e) \in Nat
        /\ phase = "dispatch" => current = NoEntry
    <2>1. ShapeInv /\ LoopInv /\ WalkInv
      BY DEF PythonInv
    <2>2. PythonTypeOK /\ nextId # 0 /\ nextId \in Nat
      BY <2>1 DEF ShapeInv, PythonTypeOK
    <2>3. \A e \in tasks \cup DOMAIN results : e.fp \in seen /\ OnWalk(e)
      BY <2>1 DEF WalkInv
    <2>4. \A e : OnWalk(e) => DepthOf(e) \in Nat
      BY WithinIs DEF OnWalk
    <2>5. phase = "dispatch" => current = NoEntry
      BY <2>1 DEF LoopInv
    <2>. QED
      BY <2>1, <2>2, <2>3, <2>4, <2>5
  <1>2. CASE Quietly
    BY <1>1, <1>2, QuietSteps DEF ShapeInv, PythonTypeOK, Collected
  <1>3. CASE StartMoves
    <2>. DEFINE S == Fingerprints \cup Signals
    <2>1. /\ UNCHANGED <<schedulerVars, loopVars, taskVars, historyVars>>
          /\ startLeft \in Seq(S) /\ startQueue \in Seq(S) /\ "failed" \in S
      BY <1>1, <1>3 DEF StartMoves, ProducerPuts, StartRaises, GetsStart, PythonTypeOK, Signals
    <2>2. /\ startLeft # <<>> => Head(startLeft) \in S /\ Tail(startLeft) \in Seq(S)
          /\ startQueue # <<>> => Head(startQueue) \in S /\ Tail(startQueue) \in Seq(S)
          /\ <<"failed">> \in Seq(S)
      BY <2>1, HeadAndTail
    <2>3. startLeft # <<>> => Append(startQueue, Head(startLeft)) \in Seq(S)
      BY <2>1, <2>2, AppendProperties
    <2>. HIDE DEF S
    <2>4. startLeft' \in Seq(S) /\ startQueue' \in Seq(S) /\ (nextStart' = nextStart \/ nextStart' \in S)
      BY <1>3, <2>1, <2>2, <2>3 DEF StartMoves, ProducerPuts, StartRaises, GetsStart
    <2>. QED
      BY <1>1, <2>1, <2>4 DEF S, ShapeInv, PythonTypeOK, Collected
  <1>4. CASE \E e \in tasks : TaskReturns(e)
    <2>1. PICK e \in tasks : TaskReturns(e)
      BY <1>4
    <2>2. PICK result : Returned(e, result)
      BY <1>1, <2>1, ReturnSteps
    <2>3. e \in tasks /\ e \in Entries /\ DOMAIN results' = DOMAIN results \cup {e}
      BY <1>1, <2>1, <2>2 DEF Returned, PythonTypeOK
    <2>4. Collected' = Collected
      BY <2>2, <2>3 DEF Collected, Returned
    <2>5. \A f \in DOMAIN results' : results'[f] \in [verdict : Verdicts, outputs : Seq(Requests)]
      BY <1>1, <2>2, <2>3 DEF Returned, PythonTypeOK
    <2>6. results' = [f \in DOMAIN results' |-> results'[f]]
      BY <2>2 DEF Returned
    <2>. QED
      BY <1>1, <2>2, <2>3, <2>4, <2>5, <2>6 DEF Returned, ShapeInv, PythonTypeOK
  <1>5. CASE Dispatch
    BY <1>1, <1>5, DispatchSteps DEF ShapeInv, PythonTypeOK
  <1>6. CASE Resume
    <2>1. /\ UNCHANGED <<reason, close, results, current, startLeft, startQueue, extrasLeft, handled>>
          /\ phase' \in Phases /\ tasks' = Running
          /\ nextStart' \in Fingerprints \cup Signals \cup {"none", "getting"}
      BY <1>1, <1>6, ResumeSteps DEF Phases, Signals, PythonTypeOK
    <2>2. queued' \subseteq Entries /\ seen' \subseteq Fingerprints /\ nextId' \in Nat
          /\ nextId' # 0 /\ wakeup' \in BOOLEAN /\ seen \subseteq seen'
      BY <1>1, <1>6, ResumeSteps, ScheduledShape DEF PythonTypeOK
    <2>3. Collected \subseteq Collected' /\ tasks' \subseteq tasks
      BY <2>1 DEF Collected, Running
    <2>. QED
      BY <1>1, <2>1, <2>2, <2>3 DEF ShapeInv, PythonTypeOK
  <1>7. CASE TakeResult
    BY <1>1, <1>7, TakeSteps DEF ShapeInv, PythonTypeOK, Collected
  <1>8. CASE ProcessOutput
    <2>. DEFINE r == Head(results[current].outputs)
    <2>1. /\ UNCHANGED <<loopVars, tasks, current, startVars, extrasLeft, handled>>
          /\ r \in Requests /\ Scheduled(r)
      BY <1>1, <1>8, OutputSteps
    <2>2. queued' \subseteq Entries /\ seen' \subseteq Fingerprints /\ nextId' \in Nat
          /\ nextId' # 0 /\ wakeup' \in BOOLEAN /\ seen \subseteq seen'
      <3>. HIDE DEF r
      <3>. QED
        BY <1>1, <2>1, ScheduledShape
    <2>3. /\ DOMAIN results' = DOMAIN results /\ results' = [f \in DOMAIN results' |-> results'[f]]
          /\ results'[current] = [verdict |-> results[current].verdict,
                                  outputs |-> Tail(results[current].outputs)]
          /\ \A f \in DOMAIN results \ {current} : results'[f] = results[f]
          /\ Tail(results[current].outputs) \in Seq(Requests) /\ current \in DOMAIN results
      BY <1>1, <1>8, OutputSteps DEF Collected
    <2>4. results'[current] \in [verdict : Verdicts, outputs : Seq(Requests)]
      BY <1>1, <2>3 DEF PythonTypeOK
    <2>5. \A f \in DOMAIN results' : results'[f] \in [verdict : Verdicts, outputs : Seq(Requests)]
      BY <1>1, <2>3, <2>4 DEF PythonTypeOK
    <2>6. Collected' = Collected
      BY <2>1, <2>3 DEF Collected
    <2>. QED
      BY <1>1, <2>1, <2>2, <2>3, <2>5, <2>6 DEF ShapeInv, PythonTypeOK
  <1>9. CASE OutputsDone
    <2>1. /\ current \in DOMAIN results /\ current' = NoEntry
          /\ DOMAIN results' = DOMAIN results \ {current}
          /\ results' = [f \in DOMAIN results' |-> results'[f]]
          /\ \A f \in DOMAIN results' : results'[f] = results[f]
          /\ handled' \subseteq handled \cup {current.fp}
          /\ UNCHANGED <<schedulerVars, loopVars, tasks, startVars, extrasLeft>>
      BY <1>1, <1>9, DoneSteps DEF Collected
    <2>. QED
      BY <1>1, <2>1 DEF ShapeInv, PythonTypeOK
  <1>10. CASE ExtraSchedules
    <2>1. PICK x \in Extras : RequestOf(x, 0) \in Requests /\ Scheduled(RequestOf(x, 0))
      BY <1>1, <1>10, ExtraSteps
    <2>2. queued' \subseteq Entries /\ seen' \subseteq Fingerprints /\ nextId' \in Nat
          /\ nextId' # 0 /\ wakeup' \in BOOLEAN /\ seen \subseteq seen'
      BY <1>1, <2>1, ScheduledShape
    <2>3. extrasLeft' \subseteq Extras /\ UNCHANGED <<loopVars, taskVars, startVars, handled>>
      BY <1>1, <1>10, ExtraSteps
    <2>. QED
      BY <1>1, <2>2, <2>3 DEF ShapeInv, PythonTypeOK, Collected
  <1>. QED
    BY <1>2, <1>3, <1>4, <1>5, <1>6, <1>7, <1>8, <1>9, <1>10, Steps

-----------------------------------------------------------------------------
(* The loop. *)

LEMMA LoopIsKept ==
  ASSUME PythonInv, [Next]_vars
  PROVE  LoopInv'
  <1>. USE DEF schedulerVars, loopVars, taskVars, startVars, historyVars
  <1>1. PythonTypeOK /\ ShapeInv /\ LoopInv /\ nextId # 0
    BY DEF PythonInv, ShapeInv
  <1>2. CASE Quietly
    <2>1. UNCHANGED <<queued, tasks, results, current, nextStart>>
      BY <1>1, <1>2, QuietSteps
    <2>2. (Exhausted' <=> Exhausted) /\ (HasRoom' <=> HasRoom)
          /\ Collected' = Collected /\ PagesOf(queued)' = PagesOf(queued)
      BY <2>1 DEF Exhausted, HasRoom, Collected, PagesOf
    <2>3. CASE Select
      <3>1. phase = "dispatch" /\ phase' = "select" /\ (HasRoom => queued = {})
        BY <2>3 DEF Select
      <3>2. HasRoom => PagesOf(queued) \subseteq Extras
        BY <3>1 DEF PagesOf
      <3>. QED
        BY <1>1, <2>1, <2>2, <3>1, <3>2 DEF LoopInv, NoIdleCapacity
    <2>4. CASE ResumeFails \/ ResultRaises \/ ReactsToClose \/ CrawlCancelled
      <3>1. phase' = "stopping" /\ reason' # "finished"
        BY <2>4 DEF ResumeFails, ResultRaises, ReactsToClose, CrawlCancelled, Stops
      <3>. QED
        BY <1>1, <2>1, <2>2, <3>1 DEF LoopInv, NoIdleCapacity
    <2>5. CASE BatchDone
      <3>1. current = NoEntry /\ Collected = {} /\ phase' = "dispatch"
        BY <2>5 DEF BatchDone
      <3>. QED
        BY <1>1, <2>1, <2>2, <3>1 DEF LoopInv, NoIdleCapacity, Collected
    <2>6. CASE GoesIdle
      <3>1. /\ phase = "dispatch" /\ phase' = "idle"
            /\ queued = {} /\ tasks = {} /\ nextStart = "none"
        BY <2>6 DEF GoesIdle, WorkLeft
      <3>2. Exhausted
        BY <1>1, <3>1 DEF LoopInv, Exhausted, PagesOf
      <3>. QED
        BY <1>1, <2>1, <2>2, <3>1, <3>2 DEF LoopInv, NoIdleCapacity
    <2>7. CASE IdleKeepsAlive
      <3>1. phase = "idle" /\ phase' = IF queued # {} THEN "dispatch" ELSE "waiting"
        BY <2>7 DEF IdleKeepsAlive
      <3>. QED
        BY <1>1, <2>1, <2>2, <3>1 DEF LoopInv, NoIdleCapacity
    <2>8. CASE IdleEnds
      <3>1. phase = "idle" /\ phase' = "stopping"
        BY <2>8 DEF IdleEnds, Stops
      <3>. QED
        BY <1>1, <2>1, <2>2, <3>1 DEF LoopInv, NoIdleCapacity
    <2>9. CASE Woke
      <3>1. phase = "waiting" /\ phase' = "dispatch"
        BY <2>9 DEF Woke
      <3>. QED
        BY <1>1, <2>1, <2>2, <3>1 DEF LoopInv, NoIdleCapacity
    <2>10. CASE RunEnds
      <3>1. phase = "stopping" /\ phase' = "ended" /\ reason' = reason
        BY <2>10 DEF RunEnds
      <3>. QED
        BY <1>1, <2>1, <2>2, <3>1 DEF LoopInv, NoIdleCapacity
    <2>11. CASE CloseSpider \/ CloseWaiterRaises \/ NothingToDo \/ UNCHANGED vars
      <3>1. UNCHANGED <<phase, reason, wakeup>>
        BY <2>11 DEF CloseSpider, CloseWaiterRaises, NothingToDo, vars
      <3>. QED
        BY <1>1, <2>1, <2>2, <3>1 DEF LoopInv, NoIdleCapacity
    <2>. QED
      BY <1>2, <2>3, <2>4, <2>5, <2>6, <2>7, <2>8, <2>9, <2>10, <2>11 DEF Quietly
  <1>3. CASE StartMoves
    <2>1. /\ UNCHANGED <<schedulerVars, loopVars, taskVars>>
          /\ phase \notin {"stopping", "ended"}
          /\ nextStart' # nextStart => nextStart = "getting"
      BY <1>3 DEF StartMoves, ProducerPuts, StartRaises, GetsStart, Awaiting
    <2>2. phase \in {"idle", "waiting"} => Exhausted'
      BY <1>1, <2>1 DEF LoopInv, Exhausted, PagesOf
    <2>3. UNCHANGED <<phase, reason, current, tasks, results, queued, wakeup>>
      BY <2>1
    <2>4. NoIdleCapacity'
      BY <1>1, <2>3 DEF LoopInv, NoIdleCapacity, HasRoom, PagesOf
    <2>5. phase' \in {"dispatch", "select", "idle", "waiting"} =>
             current' = NoEntry /\ DOMAIN results' \subseteq tasks'
      BY <1>1, <2>3 DEF LoopInv
    <2>6. phase' \in {"idle", "waiting"} => Exhausted' /\ (~wakeup' => queued' = {})
      BY <1>1, <2>2, <2>3 DEF LoopInv
    <2>7. phase' \notin {"stopping", "ended"}
      BY <2>1, <2>3
    <2>. QED
      BY <2>4, <2>5, <2>6, <2>7 DEF LoopInv
  <1>4. CASE \E e \in tasks : TaskReturns(e)
    <2>0. \A e \in tasks : DepthOf(e) \in Nat
      BY DepthsAre
    <2>1. PICK e \in tasks : TaskReturns(e)
      BY <1>4
    <2>2. PICK result : Returned(e, result)
      BY <1>1, <2>0, <2>1, ReturnSteps
    <2>3. /\ phase \in {"select", "batch"} /\ DOMAIN results' = DOMAIN results \cup {e}
          /\ UNCHANGED <<schedulerVars, loopVars, tasks, current, startVars>>
      BY <2>2 DEF Returned
    <2>. QED
      BY <1>1, <2>3 DEF LoopInv, NoIdleCapacity, HasRoom, PagesOf
  <1>5. CASE Dispatch
    <2>1. phase = "dispatch" /\ phase' = phase /\ UNCHANGED <<results, current>> /\ tasks \subseteq tasks'
      BY <1>5, DispatchSteps
    <2>. QED
      BY <1>1, <2>1 DEF LoopInv, NoIdleCapacity
  <1>6. CASE Resume \/ TakeResult \/ ProcessOutput \/ OutputsDone
    <2>1. phase' = "batch"
      BY <1>1, <1>6, ResumeSteps, TakeSteps, OutputSteps, DoneSteps
    <2>. QED
      BY <2>1 DEF LoopInv, NoIdleCapacity
  <1>7. CASE ExtraSchedules
    <2>1. /\ phase # "dispatch" /\ phase # "ended"
          /\ UNCHANGED <<loopVars, taskVars, startVars>>
      BY <1>1, <1>7, ExtraSteps
    <2>2. PICK x \in Extras : RequestOf(x, 0) \in Requests /\ Scheduled(RequestOf(x, 0))
      BY <1>1, <1>7, ExtraSteps
    <2>3. x \in Fingerprints
      BY CrawlAssumption
    <2>4. RequestOf(x, 0).fp = x
      BY <2>3, FirstRequests
    <2>5. PagesOf(queued') \subseteq PagesOf(queued) \cup {x}
      BY <1>1, <2>2, <2>4, ScheduledShape
    <2>6. PagesOf(queued)' = PagesOf(queued')
      BY DEF PagesOf
    <2>7. wakeup' = TRUE \/ (UNCHANGED <<queued, wakeup>>)
      BY <2>2 DEF Scheduled
    <2>8. (Exhausted => Exhausted') /\ (HasRoom' <=> HasRoom)
      BY <2>1, <2>5, <2>6 DEF Exhausted, HasRoom
    <2>9. NoIdleCapacity'
      BY <1>1, <2>1, <2>5, <2>6, <2>8 DEF LoopInv, NoIdleCapacity
    <2>. QED
      BY <1>1, <2>1, <2>7, <2>8, <2>9 DEF LoopInv
  <1>. QED
    BY <1>2, <1>3, <1>4, <1>5, <1>6, <1>7, Steps

-----------------------------------------------------------------------------
(* start(). *)

LEMMA SignalsAre ==
  /\ Signals = {"done", "failed"} /\ Signals \cap Fingerprints = {}
  /\ "none" \notin Fingerprints /\ "getting" \notin Fingerprints
  BY CrawlAssumption DEF Signals

\* The loop took the next output, or nothing of the stream moved.
LEMMA StartsSeen ==
  ASSUME StartInv, seen \subseteq seen', UNCHANGED <<startLeft, startQueue>>,
         nextStart \in Fingerprints => nextStart \in seen' \cup Rejected,
         nextStart' = nextStart \/ (nextStart \in Fingerprints /\ nextStart' = "getting")
                                \/ (nextStart = "done" /\ nextStart' = "none")
  PROVE  StartInv'
  <1>1. CASE nextStart' = nextStart
    BY <1>1 DEF StartInv, StartStream
  <1>2. CASE nextStart \in Fingerprints /\ nextStart' = "getting"
    BY <1>2, SignalsAre DEF StartInv, StartStream
  <1>3. CASE nextStart = "done" /\ nextStart' = "none"
    <2>1. startQueue = <<>> /\ startLeft = <<>>
      BY <1>3, SignalsAre DEF StartInv
    <2>2. StartStream = {"done"} /\ StartStream' = {"none"}
      BY <1>3, <2>1 DEF StartStream, ToSet
    <2>3. StartsWanted \subseteq seen \cup Rejected \cup {"done"}
      BY <2>2 DEF StartInv
    <2>4. StartsWanted \subseteq seen' \cup Rejected
      BY <2>3, PagesAre, SignalsAre
    <2>5. {"none"} \cap Fingerprints = {}
      BY SignalsAre
    <2>. QED
      BY <2>1, <2>2, <2>4, <2>5 DEF StartInv
  <1>. QED
    BY <1>1, <1>2, <1>3

LEMMA StartIsKept ==
  ASSUME PythonInv, [Next]_vars
  PROVE  StartInv'
  <1>. USE DEF schedulerVars, loopVars, taskVars, startVars, historyVars
  <1>1. PythonTypeOK /\ ShapeInv /\ StartInv /\ nextId # 0
    BY DEF PythonInv, ShapeInv
  <1>. DEFINE S == Fingerprints \cup Signals
  <1>2. startLeft \in Seq(S) /\ startQueue \in Seq(S)
    BY <1>1 DEF PythonTypeOK
  <1>3. CASE UNCHANGED <<startVars, seen>>
    BY <1>1, <1>3 DEF StartInv, StartStream
  <1>4. CASE Quietly
    BY <1>1, <1>3, <1>4, QuietSteps
  <1>5. CASE StartMoves
    <2>0. UNCHANGED <<seen>>
      BY <1>5 DEF StartMoves, ProducerPuts, StartRaises, GetsStart
    <2>1. CASE ProducerPuts
      <3>. DEFINE h == Head(startLeft)
                  q == Append(startQueue, h)
      <3>1. startLeft # <<>> /\ startQueue' = q /\ startLeft' = Tail(startLeft) /\ nextStart' = nextStart
        BY <2>1 DEF ProducerPuts
      <3>2. /\ h \in S /\ Tail(startLeft) \in Seq(S) /\ ToSet(startLeft) = {h} \cup ToSet(Tail(startLeft))
            /\ Len(Tail(startLeft)) = Len(startLeft) - 1 /\ Len(startLeft) \in Nat \ {0}
            /\ h = startLeft[1]
            /\ \A i \in 1 .. Len(Tail(startLeft)) : Tail(startLeft)[i] = startLeft[i + 1]
        BY <1>2, <3>1, HeadAndTail
      <3>3. /\ q \in Seq(S) /\ ToSet(q) = ToSet(startQueue) \cup {h}
            /\ Len(q) = Len(startQueue) + 1 /\ Len(startQueue) \in Nat
            /\ \A i \in 1 .. Len(startQueue) : q[i] = startQueue[i]
            /\ q[Len(startQueue) + 1] = h
        BY <1>2, <3>2, SetOfAppended, AppendProperties
      <3>4. /\ DOMAIN startLeft = 1 .. Len(startLeft) /\ DOMAIN q = 1 .. Len(q)
            /\ DOMAIN startQueue = 1 .. Len(startQueue)
            /\ DOMAIN Tail(startLeft) = 1 .. Len(Tail(startLeft))
            /\ Len(Tail(startLeft)) = 0 => Tail(startLeft) = <<>>
        BY <1>2, <3>2, <3>3, LenProperties, EmptySeq
      <3>. HIDE DEF h, q, S
      <3>5. StartStream' = StartStream
        BY <3>1, <3>2, <3>3 DEF StartStream
      <3>6. nextStart \notin Signals \cup {"none"}
        BY <1>1, <3>1 DEF StartInv
      <3>7. h \in Signals => Tail(startLeft) = <<>>
        <4>1. h \in Signals => 1 = Len(startLeft)
          BY <1>1, <3>2, <3>4 DEF StartInv
        <4>. QED
          BY <3>2, <3>4, <4>1
      <3>8. \A i \in DOMAIN q : q[i] \in Signals => i = Len(q) /\ Tail(startLeft) = <<>>
        <4>1. \A i \in 1 .. Len(startQueue) : startQueue[i] \notin Signals
          BY <1>1, <3>1, <3>4 DEF StartInv
        <4>2. \A i \in 1 .. Len(q) : i \in 1 .. Len(startQueue) \/ i = Len(q)
          BY <3>3
        <4>. QED
          BY <3>3, <3>4, <3>7, <4>1, <4>2
      <3>9. \A i \in DOMAIN Tail(startLeft) :
               Tail(startLeft)[i] \in Signals => i = Len(Tail(startLeft))
        <4>1. \A i \in 1 .. Len(Tail(startLeft)) : i + 1 \in 1 .. Len(startLeft)
          BY <3>2
        <4>2. \A i \in 1 .. Len(Tail(startLeft)) :
                 startLeft[i + 1] \in Signals => i + 1 = Len(startLeft)
          BY <1>1, <3>4, <4>1 DEF StartInv
        <4>3. \A i \in 1 .. Len(Tail(startLeft)) :
                 i + 1 = Len(startLeft) => i = Len(Tail(startLeft))
          <5>. DEFINE m == Len(startLeft)
                      n == Len(Tail(startLeft))
          <5>1. m \in Nat /\ n = m - 1
            BY <3>2
          <5>. HIDE DEF m, n
          <5>2. \A i \in 1 .. n : i + 1 = m => i = n
            BY <5>1
          <5>. QED
            BY <5>2 DEF m, n
        <4>. QED
          BY <3>2, <3>4, <4>2, <4>3
      <3>. QED
        BY <1>1, <2>0, <3>1, <3>5, <3>6, <3>8, <3>9 DEF StartInv
    <2>2. CASE StartRaises
      <3>1. startLeft # <<>> /\ startLeft' = <<"failed">> /\ UNCHANGED <<startQueue, nextStart>>
        BY <2>2 DEF StartRaises
      <3>2. "failed" \in StartStream' /\ StartStream' \subseteq StartStream \cup {"failed"}
        BY <3>1 DEF StartStream, ToSet
      <3>3. "failed" \notin Fingerprints
        BY SignalsAre
      <3>. QED
        BY <1>1, <3>1, <3>2, <3>3 DEF StartInv
    <2>3. CASE GetsStart
      <3>. DEFINE h == Head(startQueue)
                  t == Tail(startQueue)
      <3>1. /\ nextStart = "getting" /\ startQueue # <<>> /\ nextStart' = h /\ startQueue' = t
            /\ startLeft' = startLeft
        BY <2>3 DEF GetsStart
      <3>2. /\ h \in S /\ t \in Seq(S) /\ ToSet(startQueue) = {h} \cup ToSet(t)
            /\ Len(t) = Len(startQueue) - 1 /\ Len(startQueue) \in Nat \ {0}
            /\ h = startQueue[1] /\ \A i \in 1 .. Len(t) : t[i] = startQueue[i + 1]
        BY <1>2, <3>1, HeadAndTail
      <3>3. /\ DOMAIN startQueue = 1 .. Len(startQueue) /\ DOMAIN t = 1 .. Len(t)
            /\ Len(t) = 0 => t = <<>>
        BY <1>2, <3>2, LenProperties, EmptySeq
      <3>4. "none" \notin S
        BY SignalsAre
      <3>. HIDE DEF h, t, S
      <3>5. StartStream = StartStream' \cup {"getting"}
        BY <3>1, <3>2 DEF StartStream
      <3>6. h \in Signals => t = <<>> /\ startLeft = <<>>
        <4>1. h \in Signals => 1 = Len(startQueue) /\ startLeft = <<>>
          BY <1>1, <3>2, <3>3 DEF StartInv
        <4>. QED
          BY <3>2, <3>3, <4>1
      <3>7. \A i \in DOMAIN t : t[i] \in Signals => i = Len(t) /\ startLeft = <<>>
        <4>1. \A i \in 1 .. Len(t) : i + 1 \in 1 .. Len(startQueue)
          BY <3>2
        <4>2. \A i \in 1 .. Len(t) :
                 startQueue[i + 1] \in Signals => i + 1 = Len(startQueue) /\ startLeft = <<>>
          BY <1>1, <3>3, <4>1 DEF StartInv
        <4>. QED
          BY <3>2, <3>3, <4>2
      <3>8. "getting" \notin Fingerprints /\ "getting" # "failed"
        BY SignalsAre
      <3>9. \/ StartsWanted \subseteq seen' \cup Rejected \cup StartStream'
            \/ "failed" \in StartStream'
        BY <1>1, <2>0, <3>5, <3>8, PagesAre DEF StartInv
      <3>. QED
        BY <1>1, <3>1, <3>2, <3>4, <3>5, <3>6, <3>7, <3>9 DEF StartInv
    <2>. QED
      BY <1>5, <2>1, <2>2, <2>3 DEF StartMoves
  <1>6. CASE \E e \in tasks : TaskReturns(e)
    <2>1. PICK e \in tasks : TaskReturns(e)
      BY <1>6
    <2>2. PICK result : Returned(e, result)
      BY <1>1, <2>1, DepthsAre, ReturnSteps
    <2>. QED
      BY <1>3, <2>2 DEF Returned
  <1>7. CASE Dispatch \/ TakeResult \/ OutputsDone
    <2>1. UNCHANGED <<startVars, seen>>
      BY <1>1, <1>7, DispatchSteps, TakeSteps, DoneSteps
    <2>. QED
      BY <1>3, <2>1
  <1>8. CASE Resume
    <2>1. nextStart \in Fingerprints =>
             /\ StartRequestOf(nextStart) \in Requests /\ Scheduled(StartRequestOf(nextStart))
             /\ StartRequestOf(nextStart).fp = nextStart /\ StartRequestOf(nextStart).filter = TRUE
      BY <1>1, <1>8, ResumeSteps, FirstRequests
    <2>2. nextStart \in Fingerprints => seen \subseteq seen' /\ nextStart \in seen' \cup Rejected
      BY <1>1, <2>1, ScheduledShape
    <2>3. nextStart \notin Fingerprints => seen' = seen
      BY <1>1, <1>8, ResumeSteps
    <2>4. UNCHANGED <<startLeft, startQueue>>
          /\ (nextStart' = nextStart \/ (nextStart \in Fingerprints /\ nextStart' = "getting")
                                     \/ (nextStart = "done" /\ nextStart' = "none"))
      BY <1>1, <1>8, ResumeSteps
    <2>. QED
      BY <1>1, <2>2, <2>3, <2>4, StartsSeen
  <1>9. CASE ProcessOutput \/ ExtraSchedules
    <2>1. UNCHANGED startVars /\ \E r \in Requests : Scheduled(r)
      BY <1>1, <1>9, OutputSteps, ExtraSteps
    <2>2. seen \subseteq seen'
      BY <1>1, <2>1, ScheduledShape
    <2>. QED
      BY <1>1, <2>1, <2>2 DEF StartInv, StartStream
  <1>. QED
    BY <1>4, <1>5, <1>6, <1>7, <1>8, <1>9, Steps

-----------------------------------------------------------------------------
(* Walks. *)

\* A depth is short of the pages seen, if no limit is.
IsShort(depth, pages) == DepthLimit = 0 => depth < Cardinality(pages)

LEMMA DepthIs == \A r : OnWalk(r) => DepthOf(r) \in Nat
  BY WithinIs DEF OnWalk

LEMMA SeenGrows ==
  ASSUME WalkInv, seen \subseteq seen', IsFiniteSet(seen')
  PROVE  /\ Cardinality(seen) \in Nat /\ Cardinality(seen') \in Nat
         /\ Cardinality(seen) <= Cardinality(seen')
  BY FS_Subset, FS_CardinalityType DEF WalkInv

LEMMA ScheduledWalk ==
  ASSUME NEW r \in Requests, Scheduled(r), ShapeInv, WalkInv, OnWalk(r),
         r.filter => (DepthLimit = 0 => DepthOf(r) <= Cardinality(seen)),
         ~r.filter => r.fp \in seen /\ IsShort(DepthOf(r), seen)
  PROVE  /\ IsFiniteSet(seen') /\ seen \subseteq seen' /\ seen' \subseteq PagesWithin
         /\ \A e \in queued' : e.fp \in seen' /\ OnWalk(e) /\ IsShort(DepthOf(e), seen')
  <1>1. /\ IsFiniteSet(seen) /\ Cardinality(seen) \in Nat /\ seen \subseteq PagesWithin
        /\ \A e \in queued : e.fp \in seen /\ OnWalk(e) /\ IsShort(DepthOf(e), seen)
    BY FS_CardinalityType DEF WalkInv, IsShort
  <1>2. CASE UNCHANGED schedulerVars
    <2>1. queued' = queued /\ seen' = seen
      BY <1>2 DEF schedulerVars
    <2>. QED
      BY <1>1, <2>1
  <1>3. ASSUME ~(r.filter /\ r.fp \in seen), NEW new \in Entries, EntryOf(new, r),
               queued' = queued \cup {new},
               seen' = IF r.filter THEN seen \cup {r.fp} ELSE seen
        PROVE  /\ IsFiniteSet(seen') /\ seen \subseteq seen' /\ seen' \subseteq PagesWithin
               /\ \A e \in queued' : e.fp \in seen' /\ OnWalk(e) /\ IsShort(DepthOf(e), seen')
    <2>1. new.fp = r.fp /\ DepthOf(new) = DepthOf(r) /\ OnWalk(new)
      BY <1>3 DEF EntryOf, OnWalk, DepthOf
    <2>2. DepthOf(r) \in Nat /\ r.fp \in PagesWithin
      BY DepthIs, WalksLead
    <2>3. /\ IsFiniteSet(seen') /\ seen \subseteq seen' /\ seen' \subseteq PagesWithin
          /\ Cardinality(seen') = IF r.filter THEN Cardinality(seen) + 1 ELSE Cardinality(seen)
      BY <1>1, <1>3, <2>2, FS_AddElement
    <2>4. \A e \in queued : e.fp \in seen' /\ OnWalk(e) /\ IsShort(DepthOf(e), seen')
      <3>1. \A e \in queued : DepthOf(e) \in Nat
        BY <1>1, DepthIs
      <3>. QED
        BY <1>1, <2>3, <3>1 DEF IsShort
    <2>5. new.fp \in seen' /\ IsShort(DepthOf(new), seen')
      BY <1>1, <1>3, <2>1, <2>2, <2>3 DEF IsShort
    <2>. QED
      BY <1>3, <2>1, <2>3, <2>4, <2>5
  <1>. QED
    BY <1>2, <1>3 DEF Scheduled

\* A step that adds what is on walks.
LEMMA WalkCarried ==
  ASSUME WalkInv, IsFiniteSet(seen'), seen \subseteq seen', seen' \subseteq PagesWithin,
         \A e \in queued' \ queued : e.fp \in seen' /\ OnWalk(e) /\ IsShort(DepthOf(e), seen'),
         tasks' \subseteq queued \cup tasks, DOMAIN results' \subseteq tasks \cup DOMAIN results,
         \A e \in DOMAIN results' : \A r \in ToSet(results'[e].outputs) : OutputOf(r, e)'
  PROVE  WalkInv'
  <1>1. /\ Cardinality(seen) \in Nat /\ Cardinality(seen') \in Nat
        /\ Cardinality(seen) <= Cardinality(seen')
    BY SeenGrows
  <1>2. ASSUME NEW e \in queued \cup tasks \cup DOMAIN results
        PROVE  e.fp \in seen' /\ OnWalk(e) /\ (DepthLimit = 0 => DepthOf(e) < Cardinality(seen'))
    <2>1. e.fp \in seen /\ OnWalk(e) /\ (DepthLimit = 0 => DepthOf(e) < Cardinality(seen))
      BY DEF WalkInv
    <2>2. DepthOf(e) \in Nat
      BY <2>1, DepthIs
    <2>. QED
      BY <1>1, <2>1, <2>2
  <1>3. \A e \in queued' \cup tasks' \cup DOMAIN results' :
           e.fp \in seen' /\ OnWalk(e) /\ (DepthLimit = 0 => DepthOf(e) < Cardinality(seen'))
    BY <1>2 DEF IsShort
  <1>. QED
    BY <1>3 DEF WalkInv

\* Outputs that stay stay what they are.
LEMMA OutputsCarried ==
  ASSUME WalkInv, seen \subseteq seen', IsFiniteSet(seen'),
         NEW e \in DOMAIN results, results'[e].verdict = results[e].verdict,
         ToSet(results'[e].outputs) \subseteq ToSet(results[e].outputs)
  PROVE  \A r \in ToSet(results'[e].outputs) : OutputOf(r, e)'
  <1>. SUFFICES ASSUME NEW r \in ToSet(results'[e].outputs) PROVE OutputOf(r, e)'
    OBVIOUS
  <1>1. OutputOf(r, e)
    BY DEF WalkInv
  <1>2. /\ Cardinality(seen) \in Nat /\ Cardinality(seen') \in Nat
        /\ Cardinality(seen) <= Cardinality(seen')
    BY SeenGrows
  <1>3. DepthOf(r) \in Nat
    BY <1>1, DepthIs DEF OutputOf
  <1>. QED
    BY <1>1, <1>2, <1>3 DEF OutputOf

\* What a callback yields leads on, and a retry stays where it is.
LEMMA OutputsLead ==
  ASSUME PythonInv, NEW e \in tasks, NEW result, Returned(e, result),
         \/ result.verdict = "ok" /\ result.outputs = Answers(e)
         \/ result.verdict # "ok" /\ result.outputs \in {<<>>, <<RetryOf(e)>>}
  PROVE  \A r \in ToSet(result.outputs) : OutputOf(r, e)'
  <1>. SUFFICES ASSUME NEW r \in ToSet(result.outputs) PROVE OutputOf(r, e)'
    OBVIOUS
  <1>1. /\ e \in Entries /\ OnWalk(e) /\ (DepthLimit = 0 => DepthOf(e) < Cardinality(seen))
        /\ IsFiniteSet(seen) /\ seen \subseteq Fingerprints
        /\ results'[e] = result /\ seen' = seen
    BY DEF PythonInv, ShapeInv, PythonTypeOK, WalkInv, Returned, schedulerVars
  <1>2. DepthOf(e) \in Nat /\ DepthOf(e) \in 0 .. Within /\ Cardinality(seen) \in Nat
        /\ [page |-> e.fp, rule |-> e.rule] \in Walks[DepthOf(e)]
    BY <1>1, WithinIs, FS_CardinalityType DEF OnWalk
  <1>3. CASE result.verdict = "ok" /\ result.outputs = Answers(e)
    <2>1. PICK w \in LinkedFrom(e) : r = LinkRequest(w, e) /\ Accepted(DepthOf(e) + 1)
      BY <1>1, <1>2, <1>3, AnswersAre
    <2>2. Parses(e.fp, e.rule) /\ w \in Wanted[e.fp] /\ w.url \notin LongUrls
      BY <2>1 DEF LinkedFrom
    <2>3. /\ r.fp = PageOf(w.url) /\ r.rule = w.rule /\ r.filter = TRUE
          /\ DepthOf(r) = DepthOf(e) + 1
      BY <1>1, <1>2, <2>1, LinkRequestIs, AnswersAre
    <2>4. DepthOf(e) + 1 <= Within
      <3>1. CASE DepthLimit # 0
        BY <1>2, <2>1, <3>1, WithinIs, FiltersAssumption DEF Accepted
      <3>2. CASE DepthLimit = 0
        <4>1. IsFiniteSet(Fingerprints) /\ Within = Cardinality(Fingerprints)
          BY <3>2, CrawlAssumption DEF Within
        <4>2. Cardinality(seen) <= Within
          BY <1>1, <4>1, FS_Subset
        <4>. QED
          BY <1>1, <1>2, <3>2, <4>2, WithinIs
      <3>. QED
        BY <3>1, <3>2
    <2>5. DepthOf(e) + 1 \in 0 .. Within
          /\ [page |-> PageOf(w.url), rule |-> w.rule] \in Walks[DepthOf(e) + 1]
      BY <1>2, <2>2, <2>4, WalksGoOn
    <2>6. OnWalk(r)
      BY <2>3, <2>5 DEF OnWalk
    <2>7. e.fp \in Html
      BY <2>2 DEF Parses
    <2>8. r.fp \in PagesWanted[e.fp]
      BY <2>2, <2>3, <2>7 DEF PagesWanted
    <2>. QED
      BY <1>1, <1>2, <1>3, <2>3, <2>6, <2>7, <2>8 DEF OutputOf
  <1>4. CASE result.verdict # "ok" /\ result.outputs \in {<<>>, <<RetryOf(e)>>}
    <2>1. r = RetryOf(e)
      BY <1>4 DEF ToSet
    <2>2. r.fp = e.fp /\ r.rule = e.rule /\ r.filter = FALSE /\ r.depth = e.depth
      BY <1>1, <2>1, RetryIs
    <2>3. DepthOf(r) = DepthOf(e) /\ OnWalk(r)
      BY <1>1, <2>2 DEF DepthOf, OnWalk
    <2>. QED
      BY <1>1, <2>2, <2>3 DEF OutputOf
  <1>. QED
    BY <1>3, <1>4

LEMMA WalkIsKept ==
  ASSUME PythonInv, [Next]_vars
  PROVE  WalkInv'
  <1>. USE DEF schedulerVars, loopVars, taskVars, startVars, historyVars
  <1>1. /\ PythonTypeOK /\ ShapeInv /\ LoopInv /\ StartInv /\ WalkInv /\ nextId # 0
        /\ IsFiniteSet(seen) /\ seen \subseteq PagesWithin
    BY DEF PythonInv, ShapeInv, WalkInv
  <1>2. CASE UNCHANGED <<queued, seen, tasks, results>>
    BY <1>1, <1>2 DEF WalkInv, OutputOf
  <1>3. CASE Quietly
    BY <1>1, <1>2, <1>3, QuietSteps
  <1>4. CASE StartMoves \/ TakeResult
    BY <1>2, <1>4, TakeSteps DEF StartMoves, ProducerPuts, StartRaises, GetsStart
  <1>5. CASE \E e \in tasks : TaskReturns(e)
    <2>1. PICK e \in tasks : TaskReturns(e)
      BY <1>5
    <2>2. PICK result :
             /\ Returned(e, result)
             /\ \/ result.verdict = "ok" /\ result.outputs = Answers(e)
                \/ result.verdict # "ok" /\ result.outputs \in {<<>>, <<RetryOf(e)>>}
      BY <1>1, <2>1, DepthsAre, ReturnSteps
    <2>3. /\ UNCHANGED <<queued, seen, tasks>> /\ DOMAIN results' = DOMAIN results \cup {e}
          /\ results'[e] = result /\ \A f \in DOMAIN results : results'[f] = results[f]
      BY <2>2 DEF Returned
    <2>4. \A r \in ToSet(results'[e].outputs) : OutputOf(r, e)'
      BY <2>1, <2>2, <2>3, OutputsLead
    <2>5. ASSUME NEW f \in DOMAIN results
          PROVE  \A r \in ToSet(results'[f].outputs) : OutputOf(r, f)'
      BY <1>1, <2>3, OutputsCarried
    <2>6. \A f \in DOMAIN results' : \A r \in ToSet(results'[f].outputs) : OutputOf(r, f)'
      BY <2>3, <2>4, <2>5
    <2>. QED
      BY <1>1, <2>1, <2>3, <2>6, WalkCarried
  <1>6. CASE Dispatch
    <2>1. /\ queued' \subseteq queued /\ tasks' \subseteq queued \cup tasks
          /\ UNCHANGED <<seen, results>>
      BY <1>6, DispatchSteps
    <2>2. \A f \in DOMAIN results' : \A r \in ToSet(results'[f].outputs) : OutputOf(r, f)'
      BY <1>1, <2>1, OutputsCarried
    <2>. QED
      BY <1>1, <2>1, <2>2, WalkCarried
  <1>7. CASE OutputsDone
    <2>1. /\ UNCHANGED <<queued, seen, tasks>> /\ DOMAIN results' \subseteq DOMAIN results
          /\ \A f \in DOMAIN results' : results'[f] = results[f]
      BY <1>1, <1>7, DoneSteps
    <2>2. \A f \in DOMAIN results' : \A r \in ToSet(results'[f].outputs) : OutputOf(r, f)'
      BY <1>1, <2>1, OutputsCarried
    <2>. QED
      BY <1>1, <2>1, <2>2, WalkCarried
  <1>8. ASSUME NEW p \in StartsWanted \cup Extras,
               NEW r \in {RequestOf(p, 0), StartRequestOf(p)}, r \in Requests, Scheduled(r),
               tasks' \subseteq tasks, UNCHANGED results
        PROVE  WalkInv'
    <2>1. p \in Fingerprints
      BY PagesAre, CrawlAssumption
    <2>2. r.fp = p /\ r.rule = 0 /\ r.filter = TRUE /\ DepthOf(r) = 0
      BY <1>8, <2>1, FirstRequests
    <2>3. OnWalk(r)
      BY <2>2, WalksLead DEF OnWalk
    <2>4. DepthOf(r) <= Cardinality(seen)
      BY <1>1, <2>2, FS_CardinalityType
    <2>5. /\ IsFiniteSet(seen') /\ seen \subseteq seen' /\ seen' \subseteq PagesWithin
          /\ \A e \in queued' : e.fp \in seen' /\ OnWalk(e) /\ IsShort(DepthOf(e), seen')
      BY <1>1, <1>8, <2>2, <2>3, <2>4, ScheduledWalk
    <2>6. \A f \in DOMAIN results' : \A q \in ToSet(results'[f].outputs) : OutputOf(q, f)'
      BY <1>1, <1>8, <2>5, OutputsCarried
    <2>. QED
      BY <1>1, <1>8, <2>5, <2>6, WalkCarried
  <1>9. CASE Resume
    <2>1. /\ tasks' = Running /\ UNCHANGED results
          /\ nextStart \in Fingerprints =>
                StartRequestOf(nextStart) \in Requests /\ Scheduled(StartRequestOf(nextStart))
          /\ nextStart \notin Fingerprints => UNCHANGED schedulerVars
      BY <1>1, <1>9, ResumeSteps
    <2>2. tasks' \subseteq tasks
      BY <2>1 DEF Running
    <2>3. nextStart \in Fingerprints => nextStart \in StartsWanted
      BY <1>1 DEF StartInv, StartStream
    <2>4. CASE nextStart \in Fingerprints
      BY <1>8, <2>1, <2>2, <2>3, <2>4
    <2>5. CASE nextStart \notin Fingerprints
      <3>1. UNCHANGED <<queued, seen, results>>
        BY <2>1, <2>5
      <3>2. \A f \in DOMAIN results' : \A r \in ToSet(results'[f].outputs) : OutputOf(r, f)'
        BY <1>1, <3>1, OutputsCarried
      <3>. QED
        BY <1>1, <2>2, <3>1, <3>2, WalkCarried
    <2>. QED
      BY <2>4, <2>5
  <1>10. CASE ExtraSchedules
    <2>1. PICK x \in Extras : RequestOf(x, 0) \in Requests /\ Scheduled(RequestOf(x, 0))
      BY <1>1, <1>10, ExtraSteps
    <2>2. UNCHANGED <<tasks, results>>
      BY <1>1, <1>10, ExtraSteps
    <2>. QED
      BY <1>8, <2>1, <2>2
  <1>11. CASE ProcessOutput
    <2>. DEFINE r == Head(results[current].outputs)
                rest == Tail(results[current].outputs)
    <2>1. /\ r \in Requests /\ Scheduled(r) /\ UNCHANGED tasks
          /\ ToSet(results[current].outputs) = {r} \cup ToSet(rest)
          /\ DOMAIN results' = DOMAIN results /\ current \in DOMAIN results
          /\ results'[current] = [verdict |-> results[current].verdict, outputs |-> rest]
          /\ \A f \in DOMAIN results \ {current} : results'[f] = results[f]
      BY <1>1, <1>11, OutputSteps DEF Collected
    <2>. HIDE DEF r, rest
    <2>2. OutputOf(r, current) /\ current.fp \in seen
      BY <1>1, <2>1 DEF WalkInv
    <2>3. /\ IsFiniteSet(seen') /\ seen \subseteq seen' /\ seen' \subseteq PagesWithin
          /\ \A e \in queued' : e.fp \in seen' /\ OnWalk(e) /\ IsShort(DepthOf(e), seen')
      BY <1>1, <2>1, <2>2, ScheduledWalk DEF OutputOf, IsShort
    <2>4. \A f \in DOMAIN results :
             /\ results'[f].verdict = results[f].verdict
             /\ ToSet(results'[f].outputs) \subseteq ToSet(results[f].outputs)
      BY <2>1
    <2>5. \A f \in DOMAIN results' : \A q \in ToSet(results'[f].outputs) : OutputOf(q, f)'
      BY <1>1, <2>1, <2>3, <2>4, OutputsCarried
    <2>. QED
      BY <1>1, <2>1, <2>3, <2>5, WalkCarried
  <1>. QED
    BY <1>3, <1>4, <1>5, <1>6, <1>7, <1>9, <1>10, <1>11, Steps

-----------------------------------------------------------------------------
(* Links. *)

\* A hub's callback yields a request for every page it wants.
LEMMA HubsAnswer ==
  ASSUME NEW e \in Entries, OnWalk(e), e.fp \in Hubs
  PROVE  PagesWanted[e.fp] \subseteq PagesOf(ToSet(Answers(e)))
  <1>1. /\ DepthOf(e) \in 0 .. Within /\ DepthOf(e) \in Nat
        /\ [page |-> e.fp, rule |-> e.rule] \in Walks[DepthOf(e)]
    BY DepthIs DEF OnWalk
  <1>. DEFINE request == [page |-> e.fp, rule |-> e.rule]
  <1>2. e.fp \in Html /\ \A n \in 0 .. Within : \A r \in Walks[n] :
            r.page = e.fp => (DepthLimit = 0 \/ n < DepthLimit) /\ Parses(e.fp, r.rule)
    BY DEF Hubs
  <1>3. request.page = e.fp /\ request.rule = e.rule
    OBVIOUS
  <1>4. (DepthLimit = 0 \/ DepthOf(e) < DepthLimit) /\ Parses(e.fp, e.rule)
    BY <1>1, <1>2, <1>3
  <1>5. Accepted(DepthOf(e) + 1)
    BY <1>1, <1>4, FiltersAssumption DEF Accepted
  <1>6. ToSet(Answers(e)) = {LinkRequest(w, e) : w \in LinkedFrom(e)} /\ LinkedFrom(e) \subseteq FoundLinks
    BY <1>1, <1>5, AnswersAre
  <1>7. PagesWanted[e.fp] = {PageOf(w.url) : w \in LinkedFrom(e)}
    BY <1>2, <1>4 DEF PagesWanted, LinkedFrom
  <1>8. \A w \in LinkedFrom(e) : LinkRequest(w, e).fp = PageOf(w.url)
    BY <1>1, <1>6, LinkRequestIs
  <1>. QED
    BY <1>6, <1>7, <1>8 DEF PagesOf

\* A step that leaves what was parsed, adds no page that nothing wants, and no result or one
\* whose outputs are all there.
LEMMA LinksCarried ==
  ASSUME LinksInv, seen \subseteq seen',
         seen' \subseteq seen \cup StartsWanted \cup Extras
                    \cup UNION {PagesWanted[p] : p \in Html \cap Parsed},
         Parsed \subseteq Parsed',
         \A e \in DOMAIN results' \cap DOMAIN results :
            /\ results'[e].verdict = results[e].verdict
            /\ PagesOf(ToSet(results[e].outputs)) \subseteq
                  PagesOf(ToSet(results'[e].outputs)) \cup seen' \cup Rejected,
         \A e \in DOMAIN results' \ DOMAIN results :
            results'[e].verdict = "ok" /\ e.fp \in Hubs =>
                PagesWanted[e.fp] \subseteq PagesOf(ToSet(results'[e].outputs))
  PROVE  LinksInv'
  <1>1. seen' \subseteq StartsWanted \cup Extras \cup UNION {PagesWanted[p] : p \in Html \cap Parsed'}
    BY DEF LinksInv
  <1>2. ASSUME NEW e \in DOMAIN results', results'[e].verdict = "ok", e.fp \in Hubs
        PROVE  PagesWanted[e.fp] \ Rejected \subseteq seen' \cup PagesOf(ToSet(results'[e].outputs))
    <2>1. CASE e \in DOMAIN results
      BY <1>2, <2>1 DEF LinksInv
    <2>2. CASE e \notin DOMAIN results
      BY <1>2, <2>2
    <2>. QED
      BY <2>1, <2>2
  <1>. QED
    BY <1>1, <1>2 DEF LinksInv, PagesOf

LEMMA LinksAreKept ==
  ASSUME PythonInv, [Next]_vars
  PROVE  LinksInv'
  <1>. USE DEF schedulerVars, loopVars, taskVars, startVars, historyVars
  <1>1. PythonTypeOK /\ ShapeInv /\ LoopInv /\ StartInv /\ WalkInv /\ LinksInv /\ nextId # 0
    BY DEF PythonInv, ShapeInv
  <1>2. CASE UNCHANGED <<seen, results, handled>>
    BY <1>1, <1>2 DEF LinksInv, Parsed
  <1>3. CASE Quietly
    BY <1>1, <1>2, <1>3, QuietSteps
  <1>4. CASE StartMoves \/ TakeResult \/ Dispatch
    <2>1. CASE StartMoves
      BY <1>2, <2>1 DEF StartMoves, ProducerPuts, StartRaises, GetsStart
    <2>2. CASE TakeResult \/ Dispatch
      BY <1>2, <2>2, TakeSteps, DispatchSteps
    <2>. QED
      BY <1>4, <2>1, <2>2
  <1>5. CASE \E e \in tasks : TaskReturns(e)
    <2>1. PICK e \in tasks : TaskReturns(e)
      BY <1>5
    <2>2. PICK result :
             /\ Returned(e, result)
             /\ \/ result.verdict = "ok" /\ result.outputs = Answers(e)
                \/ result.verdict # "ok" /\ result.outputs \in {<<>>, <<RetryOf(e)>>}
      BY <1>1, <2>1, DepthsAre, ReturnSteps
    <2>3. /\ UNCHANGED <<seen, handled>> /\ DOMAIN results' = DOMAIN results \cup {e}
          /\ results'[e] = result /\ \A f \in DOMAIN results : results'[f] = results[f]
      BY <2>2 DEF Returned
    <2>4. e \in Entries /\ OnWalk(e)
      BY <1>1, <2>1 DEF PythonTypeOK, WalkInv
    <2>5. result.verdict = "ok" /\ e.fp \in Hubs => PagesWanted[e.fp] \subseteq PagesOf(ToSet(result.outputs))
      BY <2>2, <2>4, HubsAnswer
    <2>6. Parsed \subseteq Parsed'
      BY <2>3 DEF Parsed
    <2>. QED
      BY <1>1, <2>3, <2>5, <2>6, LinksCarried
  <1>6. CASE OutputsDone
    <2>1. /\ seen' = seen /\ DOMAIN results' = DOMAIN results \ {current}
          /\ \A f \in DOMAIN results' : results'[f] = results[f]
          /\ handled' = IF results[current].verdict = "ok" THEN handled \cup {current.fp} ELSE handled
      BY <1>1, <1>6, DoneSteps
    <2>2. Parsed \subseteq Parsed'
      BY <2>1 DEF Parsed
    <2>. QED
      BY <1>1, <2>1, <2>2, LinksCarried
  <1>7. CASE Resume \/ ExtraSchedules
    <2>1. /\ UNCHANGED <<results, handled>>
          /\ \/ seen' = seen
             \/ \E p \in StartsWanted \cup Extras :
                   \E r \in Requests : r.fp = p /\ Scheduled(r)
      <3>1. CASE Resume
        <4>1. /\ UNCHANGED <<results, handled>>
              /\ nextStart \in Fingerprints =>
                    StartRequestOf(nextStart) \in Requests /\ Scheduled(StartRequestOf(nextStart))
              /\ nextStart \notin Fingerprints => UNCHANGED schedulerVars
          BY <1>1, <3>1, ResumeSteps
        <4>2. nextStart \in Fingerprints => nextStart \in StartsWanted
          BY <1>1 DEF StartInv, StartStream
        <4>3. nextStart \in Fingerprints => StartRequestOf(nextStart).fp = nextStart
          BY FirstRequests
        <4>. QED
          BY <4>1, <4>2, <4>3
      <3>2. CASE ExtraSchedules
        <4>1. PICK x \in Extras : RequestOf(x, 0) \in Requests /\ Scheduled(RequestOf(x, 0))
          BY <1>1, <3>2, ExtraSteps
        <4>2. RequestOf(x, 0).fp = x
          BY CrawlAssumption, FirstRequests
        <4>3. UNCHANGED <<results, handled>>
          BY <1>1, <3>2, ExtraSteps
        <4>. QED
          BY <4>1, <4>2, <4>3
      <3>. QED
        BY <1>7, <3>1, <3>2
    <2>2. seen \subseteq seen' /\ seen' \subseteq seen \cup StartsWanted \cup Extras
      BY <1>1, <2>1, ScheduledShape
    <2>3. Parsed' = Parsed
      BY <2>1 DEF Parsed
    <2>. QED
      BY <1>1, <2>1, <2>2, <2>3, LinksCarried
  <1>8. CASE ProcessOutput
    <2>. DEFINE r == Head(results[current].outputs)
                rest == Tail(results[current].outputs)
    <2>1. /\ r \in Requests /\ Scheduled(r) /\ UNCHANGED handled
          /\ ToSet(results[current].outputs) = {r} \cup ToSet(rest)
          /\ DOMAIN results' = DOMAIN results /\ current \in DOMAIN results
          /\ results'[current] = [verdict |-> results[current].verdict, outputs |-> rest]
          /\ \A f \in DOMAIN results \ {current} : results'[f] = results[f]
      BY <1>1, <1>8, OutputSteps DEF Collected
    <2>. HIDE DEF r, rest
    <2>2. OutputOf(r, current) /\ current.fp \in seen
      BY <1>1, <2>1 DEF WalkInv
    <2>3. /\ seen \subseteq seen' /\ seen' \subseteq seen \cup {r.fp}
          /\ r.filter => r.fp \in seen' \cup Rejected
      BY <1>1, <2>1, ScheduledShape
    <2>4. r.fp \in seen' \cup Rejected
      BY <2>2, <2>3 DEF OutputOf
    <2>5. results[current].verdict = "ok" => current.fp \in Parsed
      BY <2>1 DEF Parsed
    <2>6. seen' \subseteq seen \cup UNION {PagesWanted[p] : p \in Html \cap Parsed}
      BY <2>2, <2>3, <2>5 DEF OutputOf
    <2>7. \A f \in DOMAIN results : results'[f].verdict = results[f].verdict
      BY <2>1
    <2>8. Parsed' = Parsed
      BY <2>1, <2>7 DEF Parsed
    <2>9. PagesOf(ToSet(results[current].outputs)) \subseteq
            PagesOf(ToSet(results'[current].outputs)) \cup seen' \cup Rejected
      BY <2>1, <2>4 DEF PagesOf
    <2>10. \A f \in DOMAIN results :
             PagesOf(ToSet(results[f].outputs)) \subseteq
               PagesOf(ToSet(results'[f].outputs)) \cup seen' \cup Rejected
      BY <2>1, <2>9
    <2>. QED
      BY <1>1, <2>1, <2>3, <2>6, <2>7, <2>8, <2>10, LinksCarried
  <1>. QED
    BY <1>3, <1>4, <1>5, <1>6, <1>7, <1>8, Steps

-----------------------------------------------------------------------------
(* The theorems. *)

LEMMA InitIsWell == Init => PythonInv
  <1>. SUFFICES ASSUME Init PROVE PythonInv
    OBVIOUS
  <1>. DEFINE S == Fingerprints \cup Signals
              stream == StartPages \o <<"done">>
  <1>1. /\ phase = "dispatch" /\ reason = "none" /\ close = "open" /\ wakeup = FALSE
        /\ queued = {} /\ seen = {} /\ nextId = 1 /\ tasks = {} /\ results = <<>>
        /\ current = NoEntry /\ startLeft = stream /\ startQueue = <<>> /\ nextStart = "getting"
        /\ extrasLeft = Extras /\ handled = {}
    BY DEF Init
  <1>2. DOMAIN results = {} /\ results = [e \in DOMAIN results |-> results[e]]
    BY <1>1
  <1>3. /\ StartPages \in Seq(S) /\ <<"done">> \in Seq(S) /\ "done" \in S
        /\ StartPages \in Seq(Fingerprints) /\ <<>> \in Seq(S)
    <2>1. StartPages \in Seq(Fingerprints) /\ "done" \in S
      BY PagesAre DEF Signals
    <2>2. Len(StartPages) \in Nat /\ \A i \in 1 .. Len(StartPages) : StartPages[i] \in Fingerprints
      BY <2>1, LenProperties, ElementOfSeq
    <2>3. StartPages \in [1 .. Len(StartPages) -> S]
      BY <2>1, <2>2, LenProperties
    <2>4. StartPages \in Seq(S)
      BY <2>2, <2>3, SeqDef
    <2>. QED
      BY <2>1, <2>4
  <1>4. /\ stream \in Seq(S) /\ ToSet(stream) = ToSet(StartPages) \cup {"done"}
    <2>1. ToSet(<<"done">>) = {"done"}
      BY DEF ToSet
    <2>. DEFINE last == <<"done">>
    <2>2. StartPages \in Seq(S) /\ last \in Seq(S) /\ ToSet(last) = {"done"}
      BY <1>3, <2>1
    <2>. HIDE DEF last, S
    <2>3. StartPages \o last \in Seq(S) /\ ToSet(StartPages \o last) = ToSet(StartPages) \cup ToSet(last)
      BY <2>2, SetOfJoined
    <2>. QED
      BY <2>2, <2>3 DEF last
  <1>5. /\ Len(stream) = Len(StartPages) + 1 /\ Len(StartPages) \in Nat
        /\ DOMAIN stream = 1 .. Len(stream)
        /\ \A i \in 1 .. Len(StartPages) : stream[i] \in Fingerprints
    <2>1. /\ Len(StartPages) \in Nat /\ Len(<<"done">>) = 1
          /\ \A i \in 1 .. Len(StartPages) : StartPages[i] \in Fingerprints
      BY <1>3, LenProperties, ElementOfSeq
    <2>2. /\ Len(stream) = Len(StartPages) + Len(<<"done">>)
          /\ \A i \in 1 .. Len(StartPages) + Len(<<"done">>) :
                stream[i] = IF i <= Len(StartPages) THEN StartPages[i]
                            ELSE <<"done">>[i - Len(StartPages)]
      BY <1>3, ConcatProperties
    <2>3. \A i \in 1 .. Len(StartPages) :
             i \in 1 .. Len(StartPages) + Len(<<"done">>) /\ i <= Len(StartPages)
      BY <2>1
    <2>. QED
      BY <1>4, <2>1, <2>2, <2>3, LenProperties
  <1>6. ToSet(StartPages) = StartsWanted /\ StartsWanted \subseteq Fingerprints
    BY PagesAre
  <1>. HIDE DEF stream, S
  <1>7. ShapeInv
    <2>1. startLeft \in Seq(Fingerprints \cup Signals) /\ startQueue \in Seq(Fingerprints \cup Signals)
      BY <1>1, <1>3, <1>4 DEF S
    <2>2. /\ phase \in Phases /\ current \in {NoEntry} \cup Collected
          /\ nextStart \in Fingerprints \cup Signals \cup {"none", "getting"}
          /\ seen \subseteq Fingerprints /\ nextId \in Nat /\ nextId # 0
          /\ queued \subseteq Entries /\ tasks \subseteq Entries
      BY <1>1 DEF Phases
    <2>3. DOMAIN results \subseteq Entries /\ \A e \in DOMAIN results :
             results[e] \in [verdict : Verdicts, outputs : Seq(Requests)]
      BY <1>2
    <2>4. PythonTypeOK
      BY <1>1, <2>1, <2>2, <2>3 DEF PythonTypeOK
    <2>. QED
      BY <1>1, <1>2, <2>2, <2>4 DEF ShapeInv
  <1>8. LoopInv
    BY <1>1, <1>2 DEF LoopInv, NoIdleCapacity
  <1>9. StartInv
    <2>1. \A i \in DOMAIN startLeft : startLeft[i] \in Signals => i = Len(startLeft)
      <3>1. \A i \in 1 .. Len(stream) : i \in 1 .. Len(StartPages) \/ i = Len(stream)
        BY <1>5
      <3>. QED
        BY <1>1, <1>5, <3>1, SignalsAre
    <2>0. ToSet(startQueue) = {}
      BY <1>1 DEF ToSet
    <2>2. StartStream = {"getting"} \cup StartsWanted \cup {"done"}
      BY <1>1, <1>4, <1>6, <2>0 DEF StartStream
    <2>3. "getting" \notin Fingerprints /\ "done" \notin Fingerprints
          /\ nextStart \notin Signals \cup {"none"}
      BY <1>1, SignalsAre
    <2>. QED
      BY <1>1, <2>1, <2>2, <2>3 DEF StartInv
  <1>10. WalkInv
    BY <1>1, <1>2, FS_EmptySet DEF WalkInv
  <1>11. LinksInv
    BY <1>1, <1>2 DEF LinksInv
  <1>. QED
    BY <1>7, <1>8, <1>9, <1>10, <1>11 DEF PythonInv

LEMMA PythonStaysWell == Spec => []PythonInv
  <1>1. PythonInv /\ [Next]_vars => PythonInv'
    <2>. SUFFICES ASSUME PythonInv, [Next]_vars PROVE PythonInv'
      OBVIOUS
    <2>. QED
      BY ShapeIsKept, LoopIsKept, StartIsKept, WalkIsKept, LinksAreKept DEF PythonInv
  <1>. QED
    BY <1>1, InitIsWell, PTL DEF Spec

\* The loop's variables keep their shape: crawl() processes the outputs of a request it holds.
THEOREM PythonTypeCorrect == Spec => []PythonTypeOK
  <1>1. PythonInv => PythonTypeOK
    BY DEF PythonInv, ShapeInv
  <1>. QED
    BY <1>1, PythonStaysWell, PTL

LEMMA WellMeansStarted == PythonInv => WantedWorkIsStarted
  <1>. SUFFICES ASSUME PythonInv PROVE WantedWorkIsStarted
    OBVIOUS
  <1>1. ShapeInv /\ LoopInv /\ StartInv /\ WalkInv /\ LinksInv
    BY DEF PythonInv
  <1>2. OnlyWantedIsSeen
    <2>1. Parsed \subseteq handled \cup {e.fp : e \in DOMAIN results}
      BY DEF Parsed
    <2>. QED
      BY <1>1, <2>1 DEF OnlyWantedIsSeen, WalkInv, LinksInv
  <1>3. ASSUME phase = "ended", reason = "finished" PROVE FinishedIsExhausted
    <2>1. Exhausted
      BY <1>1, <1>3 DEF LoopInv
    <2>2. startQueue = <<>> /\ startLeft = <<>>
      BY <1>1, <2>1 DEF StartInv, Exhausted
    <2>3. StartStream = {"none"}
      BY <2>1, <2>2 DEF StartStream, Exhausted, ToSet
    <2>4. StartsWanted \subseteq seen \cup Rejected
      BY <1>1, <2>3, PagesAre, SignalsAre DEF StartInv
    <2>5. results = <<>>
      BY <1>1, <2>1 DEF ShapeInv, Exhausted
    <2>. QED
      BY <2>1, <2>4, <2>5 DEF FinishedIsExhausted, Exhausted
  <1>4. FinishedIsExhausted
    BY <1>3 DEF FinishedIsExhausted
  <1>. QED
    BY <1>1, <1>2, <1>4 DEF WantedWorkIsStarted, LoopInv, NoSleepOverPendingWork

\* Only pages that the spider wants are asked for, and work that is there is started: a crawl
\* that ends as finished asked for all that start() yields and processed what every task
\* returned, crawl() does not sleep over queued requests, and it leaves no room unused.
THEOREM WantedWorkStarts == Spec => []WantedWorkIsStarted
  BY WellMeansStarted, PythonStaysWell, PTL

-----------------------------------------------------------------------------
(* The job. *)

LEMMA JobStart == Init => Job!Init
  BY DEF Init, Job!Init, PagesOf

\* A step that schedules a request discovers its page, or changes nothing a job knows of.
LEMMA SchedulingIsAJobStep ==
  ASSUME PythonInv, NEW r \in Requests, Scheduled(r),
         ~r.filter => r.fp \in PagesOf(tasks \cup DOMAIN results),
         tasks' \cup DOMAIN results' = tasks \cup DOMAIN results, handled' = handled
  PROVE  Job!Next \/ UNCHANGED Job!jobVars
  <1>. DEFINE owed == PagesOf(queued \cup tasks \cup DOMAIN results)
              owing == PagesOf(queued' \cup tasks' \cup DOMAIN results')
  <1>1. r.fp \in Fingerprints
    BY DEF Requests, RequestsNumbered
  <1>2. CASE UNCHANGED schedulerVars
    <2>1. queued' = queued /\ seen' = seen
      BY <1>2 DEF schedulerVars
    <2>2. owing = owed
      BY <2>1 DEF PagesOf
    <2>. QED
      BY <2>1, <2>2 DEF Job!jobVars, PagesOf
  <1>3. ASSUME ~(r.filter /\ r.fp \in seen), NEW e \in Entries, EntryOf(e, r),
               queued' = queued \cup {e},
               seen' = IF r.filter THEN seen \cup {r.fp} ELSE seen
        PROVE  Job!Next \/ UNCHANGED Job!jobVars
    <2>1. owing = owed \cup {r.fp}
      BY <1>3 DEF PagesOf, EntryOf
    <2>2. CASE r.filter
      <3>1. Job!Discover(r.fp)
        BY <1>3, <2>1, <2>2 DEF Job!Discover, PagesOf
      <3>. QED
        BY <1>1, <3>1 DEF Job!Next
    <2>3. CASE ~r.filter
      <3>1. owing = owed /\ seen' = seen
        BY <1>3, <2>1, <2>3 DEF PagesOf
      <3>. QED
        BY <3>1 DEF Job!jobVars, PagesOf
    <2>. QED
      BY <2>2, <2>3
  <1>. QED
    BY <1>2, <1>3 DEF Scheduled

\* A request whose outputs are processed expands its page, or gives it up.
LEMMA SettlingIsAJobStep ==
  ASSUME PythonInv, OutputsDone
  PROVE  Job!Next \/ UNCHANGED Job!jobVars
  <1>. DEFINE owed == PagesOf(queued \cup tasks \cup DOMAIN results)
              owing == PagesOf(queued' \cup tasks' \cup DOMAIN results')
              p == current.fp
  <1>1. PythonTypeOK /\ ShapeInv /\ WalkInv /\ LinksInv
    BY DEF PythonInv, ShapeInv
  <1>2. /\ current \in DOMAIN results /\ results[current].outputs = <<>>
        /\ DOMAIN results' = DOMAIN results \ {current}
        /\ handled' = IF results[current].verdict = "ok" THEN handled \cup {p} ELSE handled
        /\ UNCHANGED <<queued, seen, tasks>>
    BY <1>1, DoneSteps DEF Collected, schedulerVars
  <1>3. p \in seen /\ p \in Fingerprints /\ p \in owed
    BY <1>1, <1>2 DEF WalkInv, PythonTypeOK, PagesOf
  <1>4. owing \in {owed, owed \ {p}}
    <2>1. owing \subseteq owed /\ owed \ {p} \subseteq owing
      BY <1>2 DEF PagesOf
    <2>. QED
      BY <2>1
  <1>5. CASE results[current].verdict = "ok"
    <2>1. LinksToKnow[p] \subseteq seen
      <3>1. CASE p \in Hubs
        <4>1. PagesWanted[p] \ Rejected \subseteq seen \cup PagesOf(ToSet(<<>>))
          BY <1>1, <1>2, <1>5, <3>1 DEF LinksInv
        <4>2. PagesOf(ToSet(<<>>)) = {}
          BY DEF PagesOf, ToSet
        <4>. QED
          BY <1>3, <3>1, <4>1, <4>2 DEF LinksToKnow
      <3>2. CASE p \notin Hubs
        BY <1>3, <3>2 DEF LinksToKnow
      <3>. QED
        BY <3>1, <3>2
    <2>2. handled' = handled \cup {p} /\ seen' = seen
      BY <1>2, <1>5
    <2>. HIDE DEF owing, owed, p
    <2>3. Job!Expand(p)
      BY <1>3, <1>4, <2>1, <2>2 DEF Job!Expand, owing, owed, PagesOf
    <2>. QED
      BY <1>3, <2>3 DEF Job!Next
  <1>6. CASE results[current].verdict # "ok"
    <2>1. handled' = handled /\ seen' = seen
      BY <1>2, <1>6
    <2>. HIDE DEF owing, owed, p
    <2>2. CASE owing = owed
      BY <2>1, <2>2 DEF Job!jobVars, owing, owed, PagesOf
    <2>3. CASE owing = owed \ {p}
      <3>1. Job!GiveUp(p)
        BY <1>3, <2>1, <2>3 DEF Job!GiveUp, owing, owed, PagesOf
      <3>. QED
        BY <1>3, <3>1 DEF Job!Next
    <2>. QED
      BY <1>4, <2>2, <2>3
  <1>. QED
    BY <1>5, <1>6

LEMMA StepsAreJobSteps ==
  ASSUME PythonInv, [Next]_vars
  PROVE  Job!Next \/ UNCHANGED Job!jobVars
  <1>. USE DEF schedulerVars, loopVars, taskVars, startVars, historyVars
  <1>1. PythonTypeOK /\ ShapeInv /\ StartInv /\ WalkInv /\ nextId # 0
    BY DEF PythonInv, ShapeInv
  <1>2. ASSUME seen' = seen, handled' = handled,
               queued' \cup tasks' \cup DOMAIN results' = queued \cup tasks \cup DOMAIN results
        PROVE  UNCHANGED Job!jobVars
    BY <1>2 DEF Job!jobVars, PagesOf
  <1>3. CASE Quietly
    BY <1>1, <1>2, <1>3, QuietSteps
  <1>4. CASE StartMoves
    BY <1>2, <1>4 DEF StartMoves, ProducerPuts, StartRaises, GetsStart
  <1>5. CASE TakeResult \/ Dispatch
    BY <1>2, <1>5, TakeSteps, DispatchSteps
  <1>6. CASE \E e \in tasks : TaskReturns(e)
    <2>1. PICK e \in tasks : TaskReturns(e)
      BY <1>6
    <2>2. PICK result : Returned(e, result)
      BY <1>1, <2>1, DepthsAre, ReturnSteps
    <2>3. /\ UNCHANGED <<queued, seen, tasks, handled>>
          /\ DOMAIN results' = DOMAIN results \cup {e}
      BY <2>2 DEF Returned
    <2>. QED
      BY <1>2, <2>1, <2>3
  <1>7. CASE OutputsDone
    BY <1>7, SettlingIsAJobStep
  <1>8. CASE Resume
    <2>1. /\ tasks' = Running /\ UNCHANGED <<results, handled>>
          /\ nextStart \in Fingerprints =>
                StartRequestOf(nextStart) \in Requests /\ Scheduled(StartRequestOf(nextStart))
          /\ nextStart \notin Fingerprints => UNCHANGED schedulerVars
      BY <1>1, <1>8, ResumeSteps
    <2>2. tasks' \cup DOMAIN results' = tasks \cup DOMAIN results
      BY <2>1 DEF Running
    <2>3. CASE nextStart \in Fingerprints
      <3>1. StartRequestOf(nextStart).filter = TRUE
        BY <2>3, FirstRequests
      <3>. QED
        BY <2>1, <2>2, <2>3, <3>1, SchedulingIsAJobStep
    <2>4. CASE nextStart \notin Fingerprints
      BY <1>2, <2>1, <2>2, <2>4
    <2>. QED
      BY <2>3, <2>4
  <1>9. CASE ExtraSchedules
    <2>1. PICK x \in Extras : RequestOf(x, 0) \in Requests /\ Scheduled(RequestOf(x, 0))
      BY <1>1, <1>9, ExtraSteps
    <2>2. RequestOf(x, 0).filter = TRUE
      BY CrawlAssumption, FirstRequests
    <2>3. UNCHANGED <<tasks, results, handled>>
      BY <1>1, <1>9, ExtraSteps
    <2>. QED
      BY <2>1, <2>2, <2>3, SchedulingIsAJobStep
  <1>10. CASE ProcessOutput
    <2>. DEFINE r == Head(results[current].outputs)
    <2>1. /\ r \in Requests /\ Scheduled(r) /\ UNCHANGED <<tasks, handled>>
          /\ r \in ToSet(results[current].outputs)
          /\ DOMAIN results' = DOMAIN results /\ current \in DOMAIN results
      BY <1>1, <1>10, OutputSteps DEF Collected
    <2>. HIDE DEF r
    <2>2. OutputOf(r, current)
      BY <1>1, <2>1 DEF WalkInv
    <2>3. ~r.filter => r.fp \in PagesOf(tasks \cup DOMAIN results)
      BY <2>1, <2>2 DEF OutputOf, PagesOf
    <2>. QED
      BY <2>1, <2>3, SchedulingIsAJobStep
  <1>. QED
    BY <1>3, <1>4, <1>5, <1>6, <1>7, <1>8, <1>9, <1>10, Steps

\* Every step of the Python engine is a step of the abstract job, which the native engine
\* implements too: what is owed is what the scheduler, the tasks and crawl() hold, and a page
\* counts as expanded when the outputs of its callback are processed.
THEOREM PythonEngineImplementsJob == Spec => ImplementsJob
  <1>1. PythonInv /\ [Next]_vars => [Job!Next]_(Job!jobVars)
    BY StepsAreJobSteps
  <1>. QED
    BY <1>1, JobStart, PythonStaysWell, PTL DEF Spec, ImplementsJob, Job!Spec

=============================================================================
