------------------------ MODULE MediaPipelineProofs ------------------------
(***************************************************************************)
(* What the media pipelines keep for all items, files and limits.          *)
(*                                                                         *)
(* A download task moves in one direction and its end is final in a crawl. *)
(* Every answer was taken from that end, and downloaded forgets the task   *)
(* only for its end: this is why nobody can start another.                 *)
(***************************************************************************)
EXTENDS MediaPipeline, TLAPS

BeforeFetch == {"none", "stat", "queued", "checking"}

\* One conjunct for each place that a file's outcome is known to.
AnswersAgree ==
    \A r \in Requests :
        /\ answer[r] = "info" => task[FileOf[r]] = "info"
        /\ answer[r] \in {"failure", "recovered"} => task[FileOf[r]] = "failure"

DownloadedAgrees ==
    \A f \in Files :
        /\ downloaded[f] = "absent" <=> task[f] = "none"
        /\ downloaded[f] \in Ended => downloaded[f] = task[f]

WrittenIsStored ==
    \A f \in Files :
        /\ fetches[f] <= IF task[f] \in BeforeFetch THEN 0 ELSE 1
        /\ task[f] \in BeforeFetch \cup {"fetching"} => written[f] = 0
        /\ task[f] = "storing" => written[f] < Parts[f] /\ 1 .. written[f] \subseteq whole[f]
        /\ task[f] = "info" /\ fetches[f] > 0 => whole[f] = 1 .. Parts[f]
        /\ task[f] = "info" => Present(f)

\* Of the stores, one alone can be left with the beginning of a file.
CutIsInPlace == store # "ftp" => \A f \in Files : cut[f] = {}

MediaInv == MediaTypeOK /\ AnswersAgree /\ DownloadedAgrees /\ WrittenIsStored /\ CutIsInPlace

USE MediaAssumption
USE DEF All, Ended, TaskStates, BeforeFetch

-----------------------------------------------------------------------------

LEMMA MediaInit == Init => MediaInv
  BY DEF Init, MediaInv, MediaTypeOK, AnswersAgree, DownloadedAgrees, WrittenIsStored,
         CutIsInPlace

\* A persist_file, however it ends, touches one part, and no earlier one of its file.
LEMMA LeftInStore ==
    ASSUME MediaTypeOK, NEW left \in [Files -> {"before", "cut", "whole"}],
           LeftBehind(left), \A f \in Files : left[f] # "before" => written[f] < Parts[f]
    PROVE  /\ {whole', cut'} \subseteq [Files -> SUBSET Nat]
           /\ \A f \in Files :
                 /\ whole'[f] \cup cut'[f] \subseteq 1 .. Parts[f]
                 /\ whole'[f] \cap cut'[f] = {}
                 /\ 1 .. written[f] \subseteq whole[f] => 1 .. written[f] \subseteq whole'[f]
                 /\ whole[f] \cup cut[f] \subseteq whole'[f] \cup cut'[f]
                 /\ left[f] = "before" => whole'[f] = whole[f] /\ cut'[f] = cut[f]
                 /\ left[f] = "whole" =>
                       /\ whole'[f] = whole[f] \cup {Current(f)}
                       /\ cut'[f] \subseteq cut[f]
           /\ store' = store
  <1>1. \A f \in Files :
            /\ Parts[f] \in Nat \ {0} /\ written[f] \in Nat
            /\ whole[f] \in SUBSET Nat /\ cut[f] \in SUBSET Nat
    BY DEF MediaTypeOK
  <1>2. \A f \in Files : Current(f) \in Nat /\ Current(f) > written[f]
    BY <1>1 DEF Current
  <1>3. \A f \in Files : left[f] # "before" => Current(f) \in 1 .. Parts[f]
    BY <1>1 DEF Current
  <1>4. \A f \in Files :
            /\ left[f] = "before" => whole'[f] = whole[f] /\ cut'[f] = cut[f]
            /\ left[f] = "cut" => /\ whole'[f] = whole[f] \ {Current(f)}
                                  /\ cut'[f] = cut[f] \cup {Current(f)}
            /\ left[f] = "whole" => /\ whole'[f] = whole[f] \cup {Current(f)}
                                    /\ cut'[f] = cut[f] \ {Current(f)}
    BY DEF LeftBehind, Touched
  <1>5. \A f \in Files : left[f] \in {"before", "cut", "whole"}
    OBVIOUS
  <1>6. \A f \in Files : whole'[f] \in SUBSET Nat /\ cut'[f] \in SUBSET Nat
    BY <1>1, <1>2, <1>4, <1>5
  <1>7. {whole', cut'} \subseteq [Files -> SUBSET Nat]
    <2>1. /\ whole' = [f \in Files |-> whole'[f]]
          /\ cut' = [f \in Files |-> cut'[f]]
      BY DEF LeftBehind
    <2>. QED
      BY <1>6, <2>1
  <1>8. ASSUME NEW f \in Files
        PROVE  /\ whole'[f] \cup cut'[f] \subseteq 1 .. Parts[f]
               /\ whole'[f] \cap cut'[f] = {}
               /\ whole[f] \cup cut[f] \subseteq whole'[f] \cup cut'[f]
    <2>1. whole[f] \cup cut[f] \subseteq 1 .. Parts[f] /\ whole[f] \cap cut[f] = {}
      BY DEF MediaTypeOK
    <2>2. CASE left[f] = "before"
      BY <1>4, <2>1, <2>2
    <2>3. CASE left[f] = "cut"
      BY <1>3, <1>4, <2>1, <2>3
    <2>4. CASE left[f] = "whole"
      BY <1>3, <1>4, <2>1, <2>4
    <2>. QED
      BY <1>5, <2>2, <2>3, <2>4
  <1>9. ASSUME NEW f \in Files, 1 .. written[f] \subseteq whole[f]
        PROVE  1 .. written[f] \subseteq whole'[f]
    <2>1. Current(f) \notin 1 .. written[f]
      BY <1>1, <1>2
    <2>. QED
      BY <1>4, <1>5, <1>9, <2>1
  <1>. QED
    BY <1>4, <1>7, <1>8, <1>9 DEF LeftBehind

\* Only FTP writes in place.
LEMMA CutsAreFTP ==
    ASSUME MediaTypeOK, CutIsInPlace, NEW left \in [Files -> {"before", "cut", "whole"}],
           LeftBehind(left), \A f \in Files : left[f] \in Leaves(store) \cup {"before", "whole"}
    PROVE  CutIsInPlace'
  <1>. SUFFICES ASSUME store' # "ftp", NEW f \in Files
                PROVE  cut'[f] = {}
    BY DEF CutIsInPlace
  <1>1. store' = store /\ store \in Stores
    BY DEF LeftBehind, MediaTypeOK
  <1>2. left[f] \in {"before", "whole"}
    BY <1>1 DEF Stores, Leaves, FSLeaves, S3Leaves, GCSLeaves
  <1>3. cut[f] = {}
    BY <1>1 DEF CutIsInPlace
  <1>. QED
    BY <1>2, <1>3 DEF LeftBehind, Touched

\* A new crawl forgets everything but the store.
LEMMA CrawlStep == MediaInv /\ NextCrawl => MediaInv'
  <1>. SUFFICES ASSUME MediaInv, NextCrawl PROVE MediaInv'
    OBVIOUS
  <1>. USE DEF MediaInv
  <1>1. PICK left \in [Files -> {"before", "cut", "whole"}] :
            /\ \A f \in Files :
                  left[f] \in IF task[f] = "storing" THEN Leaves(store) ELSE {"before"}
            /\ LeftBehind(left)
    BY DEF NextCrawl
  <1>2. \A f \in Files : left[f] # "before" => written[f] < Parts[f]
    BY <1>1 DEF WrittenIsStored
  <1>3. CutIsInPlace'
    BY <1>1, CutsAreFTP
  <1>4. MediaTypeOK'
    <2>1. /\ {whole', cut'} \subseteq [Files -> SUBSET Nat]
          /\ \A f \in Files : /\ whole'[f] \cup cut'[f] \subseteq 1 .. Parts[f]
                              /\ whole'[f] \cap cut'[f] = {}
          /\ store' \in Configured
      BY <1>1, <1>2, LeftInStore DEF MediaTypeOK
    <2>2. crawls' \in 1 .. MaxCrawls
      BY DEF NextCrawl, MediaTypeOK
    <2>3. written' = [f \in Files |-> 0] /\ fetches' = [f \in Files |-> 0]
      BY DEF NextCrawl
    <2>. QED
      BY <2>1, <2>2, <2>3 DEF NextCrawl, MediaTypeOK
  <1>5. AnswersAgree' /\ DownloadedAgrees' /\ WrittenIsStored'
    BY DEF NextCrawl, AnswersAgree, DownloadedAgrees, WrittenIsStored
  <1>. QED
    BY <1>3, <1>4, <1>5

\* The waiting side changes no task but the one it starts, which nobody has started.
LEMMA ItemStep ==
    ASSUME MediaInv, NEW i \in Items, ProcessItem(i) \/ RejectsField(i) \/ ItemCompleted(i)
    PROVE  MediaInv'
  <1>. USE DEF taskVars, storeVars, MediaInv, MediaTypeOK, AnswersAgree, DownloadedAgrees,
               WrittenIsStored, CutIsInPlace, Present
  <1>1. CASE ProcessItem(i)
    BY <1>1 DEF ProcessItem
  <1>2. CASE RejectsField(i)
    BY <1>2 DEF RejectsField
  <1>3. CASE ItemCompleted(i)
    BY <1>3 DEF ItemCompleted
  <1>. QED
    BY <1>1, <1>2, <1>3

LEMMA WaitingStep ==
    ASSUME MediaInv, NEW r \in Requests, RequestStep(r)
    PROVE  MediaInv'
  <1>. USE DEF MediaInv, MediaTypeOK, AnswersAgree, DownloadedAgrees, WrittenIsStored,
               CutIsInPlace, Present, Answers, Begins, taskVars, storeVars
  <1>1. FileOf[r] \in Files /\ ItemOf[r] \in Items
    OBVIOUS
  <1>2. CASE AnswerCached(r)
    BY <1>1, <1>2 DEF AnswerCached
  <1>3. CASE StartDownload(r)
    BY <1>1, <1>3 DEF StartDownload
  <1>4. CASE JoinDownload(r)
    BY <1>1, <1>4 DEF JoinDownload
  <1>5. CASE TakeResult(r)
    BY <1>1, <1>5 DEF TakeResult, Remember
  <1>. QED
    BY <1>2, <1>3, <1>4, <1>5 DEF RequestStep

\* A task that has not ended moves on, and leaves what was taken from ended ones alone.
LEMMA MovingStep ==
    ASSUME MediaInv, NEW f \in Files, UNCHANGED storeVars,
           \/ UpToDate(f) \/ Outdated(f) \/ EntersDownload(f) \/ AskRobots(f) \/ Fetches(f)
           \/ Responds(f) \/ DownloadFails(f) \/ RejectsResponse(f) \/ ConversionFails(f)
    PROVE  MediaInv'
  <1>. USE DEF MediaInv, MediaTypeOK, AnswersAgree, DownloadedAgrees, WrittenIsStored,
               CutIsInPlace, Present, Moves, itemVars, storeVars
  <1>1. CASE UpToDate(f)
    <2>1. Present(f)
      BY <1>1 DEF UpToDate, StatFile, FSStat, S3Stat, GCSStat, FTPStat, Told, Stores
    <2>. QED
      BY <1>1, <2>1 DEF UpToDate
  <1>2. CASE Outdated(f)
    BY <1>2 DEF Outdated
  <1>3. CASE EntersDownload(f)
    BY <1>3 DEF EntersDownload
  <1>4. CASE AskRobots(f)
    BY <1>4 DEF AskRobots
  <1>5. CASE Fetches(f)
    BY <1>5 DEF Fetches
  <1>6. CASE Responds(f)
    BY <1>6 DEF Responds
  <1>7. CASE DownloadFails(f)
    <2>1. task[f] \in {"checking", "fetching"} /\ task' = [task EXCEPT ![f] = "failure"]
      BY <1>7 DEF DownloadFails
    <2>2. UNCHANGED <<itemVars, written, fetches, robots, storeVars, crawls>>
      BY <1>7 DEF DownloadFails
    <2>. QED
      BY <2>1, <2>2
  <1>8. CASE RejectsResponse(f)
    BY <1>8 DEF RejectsResponse
  <1>9. CASE ConversionFails(f)
    BY <1>9 DEF ConversionFails
  <1>. HIDE DEF MediaInv
  <1>. QED
    BY <1>1, <1>2, <1>3, <1>4, <1>5, <1>6, <1>7, <1>8, <1>9

\* A task that stores touches its own file in the store.
LEMMA PersistStep ==
    ASSUME MediaInv, NEW f \in Files, PersistFails(f) \/ Persist(f)
    PROVE  MediaInv'
  <1>. USE DEF MediaInv
  <1>1. task[f] = "storing" /\ written[f] < Parts[f]
    BY DEF PersistFails, Persist, StoresPart, Moves, WrittenIsStored
  <1>2. PICK how \in {"before", "cut", "whole"} :
            /\ how \in Leaves(store) \cup {"whole"}
            /\ Persist(f) => how = "whole"
            /\ LeftBehind([g \in Files |-> IF g = f THEN how ELSE "before"])
    BY DEF PersistFails, Persist, StoresPart, MediaTypeOK, Leaves, FSLeaves, S3Leaves,
           GCSLeaves, FTPLeaves, Stores
  <1>. DEFINE left == [g \in Files |-> IF g = f THEN how ELSE "before"]
  <1>3. /\ left \in [Files -> {"before", "cut", "whole"}]
        /\ LeftBehind(left)
        /\ \A g \in Files : left[g] # "before" => written[g] < Parts[g]
        /\ \A g \in Files : left[g] \in Leaves(store) \cup {"before", "whole"}
        /\ \A g \in Files : g # f => left[g] = "before"
        /\ left[f] = how
    BY <1>1, <1>2
  <1>. HIDE DEF left
  <1>4. CutIsInPlace'
    BY <1>3, CutsAreFTP
  <1>5. /\ {whole', cut'} \subseteq [Files -> SUBSET Nat]
        /\ \A g \in Files :
              /\ whole'[g] \cup cut'[g] \subseteq 1 .. Parts[g]
              /\ whole'[g] \cap cut'[g] = {}
              /\ 1 .. written[g] \subseteq whole[g] => 1 .. written[g] \subseteq whole'[g]
              /\ whole[g] \cup cut[g] \subseteq whole'[g] \cup cut'[g]
        /\ store' = store
    BY <1>3, LeftInStore
  <1>6. \A g \in Files : g # f => whole'[g] = whole[g] /\ cut'[g] = cut[g]
    BY <1>3, LeftInStore
  <1>7. Persist(f) => whole'[f] = whole[f] \cup {Current(f)}
    BY <1>2, <1>3, LeftInStore
  <1>8. CASE PersistFails(f)
    <2>1. /\ task' = [task EXCEPT ![f] = "failure"]
          /\ UNCHANGED <<itemVars, written, fetches, robots, crawls>>
      BY <1>8 DEF PersistFails, Moves
    <2>2. MediaTypeOK'
      BY <1>5, <2>1 DEF MediaTypeOK, itemVars
    <2>3. AnswersAgree' /\ DownloadedAgrees'
      BY <1>1, <2>1 DEF AnswersAgree, DownloadedAgrees, MediaTypeOK, itemVars
    <2>4. WrittenIsStored'
      BY <1>1, <1>5, <1>6, <2>1 DEF WrittenIsStored, MediaTypeOK, itemVars, Present
    <2>. QED
      BY <1>4, <2>2, <2>3, <2>4
  <1>9. CASE Persist(f)
    <2>1. /\ written' = [written EXCEPT ![f] = @ + 1]
          /\ task' = [task EXCEPT ![f] = IF written'[f] = Parts[f] THEN "info" ELSE @]
          /\ UNCHANGED <<itemVars, fetches, robots, crawls>>
      BY <1>9 DEF Persist, StoresPart
    <2>2. MediaTypeOK'
      BY <1>1, <1>5, <2>1 DEF MediaTypeOK, itemVars
    <2>3. AnswersAgree' /\ DownloadedAgrees'
      BY <1>1, <2>1 DEF AnswersAgree, DownloadedAgrees, MediaTypeOK, itemVars
    <2>4. ASSUME NEW g \in Files, g # f
          PROVE  written'[g] = written[g] /\ task'[g] = task[g]
      BY <2>1, <2>4 DEF MediaTypeOK
    <2>5. written[f] \in Nat /\ Parts[f] \in Nat \ {0} /\ written'[f] = written[f] + 1
      BY <2>1 DEF MediaTypeOK
    <2>6. 1 .. written'[f] \subseteq whole'[f]
      <3>1. 1 .. written'[f] = (1 .. written[f]) \cup {Current(f)}
        BY <2>5 DEF Current
      <3>2. 1 .. written[f] \subseteq whole[f]
        BY <1>1 DEF WrittenIsStored
      <3>. QED
        BY <1>7, <1>9, <3>1, <3>2
    <2>7. /\ fetches'[f] <= 1
          /\ task'[f] \in {"storing", "info"}
          /\ task'[f] = "storing" => written'[f] < Parts[f]
          /\ task'[f] = "info" => written'[f] = Parts[f]
      BY <1>1, <2>1, <2>5 DEF WrittenIsStored, MediaTypeOK
    <2>8. whole'[f] \subseteq 1 .. Parts[f]
      BY <1>5
    <2>9. task'[f] = "info" => whole'[f] = 1 .. Parts[f] /\ Present(f)'
      <3>1. task'[f] = "info" => whole'[f] = 1 .. Parts[f]
        BY <2>6, <2>7, <2>8
      <3>2. 1 \in 1 .. Parts[f]
        BY <2>5
      <3>. QED
        BY <3>1, <3>2 DEF Present
    <2>10. WrittenIsStored'
      BY <1>6, <2>1, <2>4, <2>6, <2>7, <2>9 DEF WrittenIsStored, Present
    <2>. QED
      BY <1>4, <2>2, <2>3, <2>10
  <1>. QED
    BY <1>8, <1>9

LEMMA DownloadStep ==
    ASSUME MediaInv, NEW f \in Files, TaskStep(f)
    PROVE  MediaInv'
  BY MovingStep, PersistStep
     DEF TaskStep, UpToDate, Outdated, EntersDownload, AskRobots, Fetches, Responds,
         DownloadFails, RejectsResponse, ConversionFails

LEMMA MediaStep == MediaInv /\ [Next]_vars => MediaInv'
  <1>. SUFFICES ASSUME MediaInv, [Next]_vars PROVE MediaInv'
    OBVIOUS
  <1>1. CASE RobotsAnswers
    BY <1>1 DEF RobotsAnswers, itemVars, storeVars, MediaInv, MediaTypeOK,
                AnswersAgree, DownloadedAgrees, WrittenIsStored, CutIsInPlace, Present
  <1>2. CASE UNCHANGED vars
    BY <1>2 DEF vars, itemVars, taskVars, storeVars, MediaInv, MediaTypeOK,
                AnswersAgree, DownloadedAgrees, WrittenIsStored, CutIsInPlace, Present
  <1>. QED
    BY <1>1, <1>2, CrawlStep, ItemStep, WaitingStep, DownloadStep DEF Next

\* The media pipelines keep their invariant.
THEOREM MediaInvariant == Spec => []MediaInv
  BY MediaInit, MediaStep, PTL DEF Spec

-----------------------------------------------------------------------------

\* State keeps its types, and no task writes more than its file has.
THEOREM MediaTypeCorrect == Spec => []MediaTypeOK
  BY MediaInvariant, PTL DEF MediaInv

\* However many items want a file, one crawl downloads it at most once.
THEOREM FilesAreFetchedOnce == Spec => []OneDownload
  <1>1. MediaInv => OneDownload
    BY DEF MediaInv, MediaTypeOK, WrittenIsStored, OneDownload
  <1>. QED
    BY <1>1, MediaInvariant, PTL

\* Within a crawl a file does not fail for one request and succeed for another.
THEOREM OutcomesAgree == Spec => []OneResult
  <1>1. MediaInv => OneResult
    BY DEF MediaInv, AnswersAgree, OneResult
  <1>. QED
    BY <1>1, MediaInvariant, PTL

\* What an item reports is in the store, whatever earlier crawls left there.
THEOREM ReportsAreTrue == Spec => []ReportedIsStored
  <1>1. MediaInv => ReportedIsStored
    BY DEF MediaInv, AnswersAgree, WrittenIsStored, CutIsInPlace, Present,
           ReportedIsStored
  <1>. QED
    BY <1>1, MediaInvariant, PTL
=============================================================================
