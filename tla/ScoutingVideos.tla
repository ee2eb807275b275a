---------------------------- MODULE ScoutingVideos ----------------------------
(***************************************************************************)
(* The videos of one coach: files the browser uploads straight to S3, and  *)
(* the rows that name them (api/scouting.py, services/s3.py).              *)
(*                                                                         *)
(* Nothing ties the two stores together but the order of the steps: the    *)
(* browser uploads a file before it registers it, which the server takes   *)
(* on trust, key and size; a file is removed from S3 before the            *)
(* transaction that deletes its row commits.                               *)
(*                                                                         *)
(* Sizes are classes: 1 fits a single PUT, 2 needs parts, 3 is accepted    *)
(* for upload and exceeds the 32-bit column file_size.                     *)
(***************************************************************************)
EXTENDS Integers, Sequences, FiniteSetsExt

CONSTANTS
  File,        \* keys the presign endpoint may hand out, fresh ones each time
  MaxVideo     \* bound: videos registered

External == "external"        \* a row that names no file of S3

\* No key is that word.
ASSUME ScoutingVideosAssumption == External \notin File /\ MaxVideo \in Nat

VARIABLES
  bucket,      \* S3, by key: the size and how far the upload is
  videos,      \* scouting_videos, by id: key, size, what became of the row, and
               \* history: whether it was registered in good order
  deleting     \* videos whose file is removed and whose row is not, yet

scoutingVideoVars == <<bucket, videos, deleting>>

SinglePutMax == 1             \* MULTIPART_THRESHOLD
ColumnMax    == 2             \* what file_size Integer holds
UploadMax    == 3             \* the 10 GB of _PresignUploadBody

NoFile == [size |-> 0, state |-> "none"]

ScoutingVideosInit ==
  /\ bucket = [k \in File |-> NoFile]
  /\ videos = <<>>
  /\ deleting = {}

LiveVideos == {v \in DOMAIN videos : videos[v].row = "live"}

SetFile(k, state) == bucket' = [bucket EXCEPT ![k].state = state]

-----------------------------------------------------------------------------
(* Uploading *)

\* create_presigned_upload: a size that is not positive is refused.
PresignUpload(k, size) ==
  /\ bucket[k] = NoFile
  /\ size \in 1..UploadMax
  /\ bucket' = [bucket EXCEPT ![k] =
       [size |-> size, state |-> IF size <= SinglePutMax THEN "put" ELSE "parts"]]
  /\ UNCHANGED <<videos, deleting>>

\* The browser PUTs the file (external).
PutFile(k) ==
  /\ bucket[k].state = "put"
  /\ SetFile(k, "stored")
  /\ UNCHANGED <<videos, deleting>>

\* Parts that are never completed stay parts: nothing aborts them.
CompleteMultipart(k) ==
  /\ bucket[k].state = "parts"
  /\ SetFile(k, "stored")
  /\ UNCHANGED <<videos, deleting>>

-----------------------------------------------------------------------------
(* Registering *)

\* The upload went through, and the size is at least the file's.
InOrder(key, size) ==
  key \in File /\ bucket[key].state = "stored" /\ size >= bucket[key].size

InsertVideo(key, size) ==
  /\ Len(videos) < MaxVideo
  /\ videos' = Append(videos,
       [key |-> key, size |-> size, row |-> "live", inOrder |-> InOrder(key, size)])

\* The size that is stored; the database refuses the row if it does not fit.
Fits(size) == size <= ColumnMax

\* register_video: a key the browser was handed out, wherever its upload is by
\* now, or none, and the size it tells, 0 if it tells none.  A retry gives the
\* key a second row.  A size that does not fit fails the request.
RegisterVideo(key, size) ==
  /\ key \in File => bucket[key] # NoFile
  /\ IF Fits(size) THEN InsertVideo(key, size) ELSE UNCHANGED videos
  /\ UNCHANGED <<bucket, deleting>>

RegisterExternalVideo ==
  /\ InsertVideo(External, 0)
  /\ UNCHANGED <<bucket, deleting>>

-----------------------------------------------------------------------------
(* Deleting *)

\* Fault: a failure of S3 is not looked at, and the row goes.
RemoveFile_Unchecked(v) ==
  /\ videos[v].key \in File
  /\ deleting' = deleting \cup {v}
  /\ \/ SetFile(videos[v].key, "gone")
     \/ UNCHANGED bucket

\* delete_object returned True, as it does when nothing is stored: an upload
\* that is not through goes on.  On False the handler answers 502 here.
RemoveFile(v) ==
  /\ videos[v].key \in File
  /\ IF bucket[videos[v].key].state = "stored"
     THEN SetFile(videos[v].key, "gone") ELSE UNCHANGED bucket
  /\ deleting' = deleting \cup {v}

\* delete_video up to the DELETE.  A row without a file has nothing to remove.
DeleteVideoFile(v) ==
  /\ v \in LiveVideos
  /\ \/ RemoveFile(v)
     \/ /\ videos[v].key = External
        /\ deleting' = deleting \cup {v}
        /\ UNCHANGED bucket
  /\ UNCHANGED videos

DeleteVideoCommit(v) ==
  /\ v \in deleting
  /\ videos' = [videos EXCEPT ![v].row = "deleted"]
  /\ deleting' = deleting \ {v}
  /\ UNCHANGED bucket

\* The transaction fails, or the server stops: the row is kept, and deleting
\* it again removes a file that is not there, which S3 takes for a success.
DeleteVideoAbort(v) ==
  /\ v \in deleting
  /\ deleting' = deleting \ {v}
  /\ UNCHANGED <<bucket, videos>>

\* purge_user_data deletes the rows of an account and leaves S3 alone.
PurgeVideos ==
  /\ LiveVideos # {}
  /\ videos' = [v \in DOMAIN videos |->
       IF v \in LiveVideos THEN [videos[v] EXCEPT !.row = "purged"] ELSE videos[v]]
  /\ deleting' = {}
  /\ UNCHANGED bucket

-----------------------------------------------------------------------------

ScoutingVideosNext ==
  \/ \E k \in File :
       \/ \E size \in 1..UploadMax : PresignUpload(k, size)
       \/ PutFile(k)
       \/ CompleteMultipart(k)
  \/ \E key \in File \cup {External}, size \in 0..UploadMax : RegisterVideo(key, size)
  \/ RegisterExternalVideo
  \/ PurgeVideos
  \/ \E v \in DOMAIN videos :
       DeleteVideoFile(v) \/ DeleteVideoCommit(v) \/ DeleteVideoAbort(v)

ScoutingVideosTypeOK ==
  /\ bucket \in [File -> [size : 0..UploadMax,
                          state : {"none", "put", "parts", "stored", "gone"}]]
  /\ videos \in Seq([key : File \cup {External}, size : 0..UploadMax,
                     row : {"live", "deleted", "purged"}, inOrder : BOOLEAN])
  /\ deleting \subseteq LiveVideos

-----------------------------------------------------------------------------
(* Properties *)

\* get_quota: nothing refuses an upload, the sum is only shown.
StorageUsed == MapThenSumSet(LAMBDA v : videos[v].size, LiveVideos)

\* The coach registered the file in good order and keeps it or deleted it: no
\* purge dropped that row.
Registered(k) ==
  \E v \in DOMAIN videos : videos[v].key = k /\ videos[v].inOrder /\ videos[v].row # "purged"

\* The storage the quota shows covers every file that S3 holds for a video
\* that was registered in good order and not purged, whatever else is told of
\* its key and whatever fails in a deletion: no such file loses its row while
\* it is stored (delete_video, scouting.py:612-614).  It says nothing of a file
\* whose size was not told, or that was registered, and deleted, before its
\* upload was through: register_video looks at neither (481).
QuotaCoversFiles ==
  LET held == {k \in File : bucket[k].state = "stored" /\ Registered(k)}
  IN MapThenSumSet(LAMBDA k : bucket[k].size, held) <= StorageUsed

=============================================================================
