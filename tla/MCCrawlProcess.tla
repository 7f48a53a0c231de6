--------------------------- MODULE MCCrawlProcess --------------------------
(***************************************************************************)
(* Instances of CrawlProcess for TLC: a crawler with a job directory, two  *)
(* services and its own download handlers.                                 *)
(***************************************************************************)
EXTENDS CrawlProcess

CONSTANTS c1, c2

MCConfigured == [c \in Crawlers |-> IF c = c1 THEN <<"index", "database">> ELSE <<>>]

\* The index needs the database; or each needs the other.
MCRequirements == {[index |-> {"database"}, database |-> d] : d \in {{}, {"index"}}}

MCHandler(scheme, handler) == [scheme |-> scheme, handler |-> handler]

\* The project does without files and has a handler of its own for data, which it cannot build.
MCHandlersBase == <<MCHandler("data", "DataURIDownloadHandler"), MCHandler("file", "FileDownloadHandler"),
                    MCHandler("s3", "S3DownloadHandler"), MCHandler("https", "HTTPDownloadHandler")>>
MCHandlersCustom == <<MCHandler("file", "None"), MCHandler("data", "ProjectHandler")>>

\* In the order of EXTENSIONS_BASE.
MCConnected == <<CloseSpider, LogCount>>
=============================================================================
