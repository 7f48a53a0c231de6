---------------------------- MODULE MediaStores ----------------------------
(***************************************************************************)
(* The stores of the file and image pipelines (pipelines/files.py,         *)
(* media.rs): what stat_file may tell of a path, and what a persist_file   *)
(* that did not end well may have left there.                              *)
(***************************************************************************)

Stores == {"file", "s3", "gs", "ftp"}

\* A rename that has not happened, or one request of which the answer was lost.
FSLeaves == {"before"}
S3Leaves == {"before", "whole"}
GCSLeaves == {"before", "whole"}

\* STOR writes the file in place, after connect, login and a mkd for each directory.
FTPLeaves == {"before", "cut", "whole"}

Leaves(store) ==
    IF store = "file" THEN FSLeaves
    ELSE IF store = "s3" THEN S3Leaves
    ELSE IF store = "gs" THEN GCSLeaves
    ELSE FTPLeaves

Told(present) == IF present THEN "found" ELSE "missing"

\* Nothing but a 404, a blob that is None or a file that is not there means missing.
FSStat(present) == {Told(present), "raises"}
S3Stat(present) == {Told(present), "raises"}
GCSStat(present) == {Told(present), "raises"}

\* 550 is also the answer for a file that may not be read: MDTM, then RETR for the checksum.
FTPStat(present) == {Told(present), "missing", "raises"}

StatFile(store, present) ==
    IF store = "file" THEN FSStat(present)
    ELSE IF store = "s3" THEN S3Stat(present)
    ELSE IF store = "gs" THEN GCSStat(present)
    ELSE FTPStat(present)
=============================================================================
