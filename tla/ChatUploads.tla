----------------------------- MODULE ChatUploads -----------------------------
(***************************************************************************)
(* Files sent with a message of the chat (api/chat.py, chat_upload,        *)
(* services/upload_service.py, services/chat_service.py).                  *)
(*                                                                         *)
(* A file is written to the directory of its coach under the first free    *)
(* variant of its name.  The name is chosen before a thread writes the     *)
(* file, and the signature is checked on what is on the disk then.  The    *)
(* rows are committed at the end of the turn; files have no transaction.   *)
(***************************************************************************)
EXTENDS Naturals, FiniteSets

CONSTANTS
  Upload,     \* requests that may be in flight
  Uploader,   \* coaches
  MaxFiles,   \* _MAX_CHAT_UPLOAD_FILES
  MaxUpload   \* bound: requests made

ASSUME ChatUploadsAssumption == MaxFiles \in Nat \ {0} /\ MaxUpload \in Nat

VARIABLES
  disk,       \* the file at each path that exists; all have one sanitized name
  uploadRows, \* the uploads rows
  sends,      \* the requests
  sent,       \* how many were made
  contested   \* history: paths two requests had chosen before either wrote

uploadVars == <<disk, uploadRows, sends, sent, contested>>

NotSending == [step |-> "idle"]
NoPath == [dir |-> "nowhere", n |-> 0]

UploadsInit ==
  /\ disk = [p \in {} |-> NoPath]
  /\ uploadRows = {} /\ contested = {}
  /\ sends = [r \in Upload |-> NotSending]
  /\ sent = 0

\* Fault: one directory for all.
Directory_Shared(coach) == "uploads"

\* data/uploads/<user_id>
Directory(coach) == coach

\* _unique_path: the first of name, name_1, ... that does not exist.
UniquePath(coach) ==
  LET taken == {p.n : p \in {q \in DOMAIN disk : q.dir = Directory(coach)}}
      free == 0..Cardinality(taken) \ taken
  IN [dir |-> Directory(coach), n |-> CHOOSE n \in free : \A m \in free : n <= m]

\* What a reader of a path finds there: one file or none.
OnDisk(path) == {disk[p] : p \in DOMAIN disk \cap {path}}

\* The file a request is saving; genuine when its content fits its extension.
Current(r) ==
  [coach |-> sends[r].coach, send |-> sends[r].send, file |-> sends[r].left,
   genuine |-> sends[r].left \notin sends[r].fakes]

\* The files are read and measured; those of which some are disguised are saved
\* one by one.
BeginUpload(r, coach, n, fakes) ==
  /\ sends[r] = NotSending /\ sent < MaxUpload
  /\ sent' = sent + 1
  /\ sends' = [sends EXCEPT ![r] =
       [step |-> "choose", coach |-> coach, send |-> sent', left |-> n, fakes |-> fakes,
        path |-> NoPath, saved |-> {}, told |-> {}]]
  /\ UNCHANGED <<disk, uploadRows, contested>>

\* save_upload_bytes, up to the write.
ChoosePath(r) ==
  /\ sends[r].step = "choose"
  /\ LET path == UniquePath(sends[r].coach)
     IN /\ sends' = [sends EXCEPT ![r].step = "write", ![r].path = path]
        /\ contested' = contested \cup
             {p \in {path} : \E q \in Upload \ {r} : sends[q].step = "write" /\ sends[q].path = p}
  /\ UNCHANGED <<disk, uploadRows, sent>>

WriteFile(r) ==
  /\ sends[r].step = "write"
  /\ disk' = [p \in DOMAIN disk \cup {sends[r].path} |->
                IF p = sends[r].path THEN Current(r) ELSE disk[p]]
  /\ sends' = [sends EXCEPT ![r].step = "validate"]
  /\ UNCHANGED <<uploadRows, sent, contested>>

\* validate_file_content: what is on the disk has the signature of its extension.
Genuine(r) == \E f \in OnDisk(sends[r].path) : f.genuine

\* The file is kept.
KeepFile(r) ==
  /\ sends[r].step = "validate"
  /\ Genuine(r)
  /\ sends' = [sends EXCEPT
       ![r].step = IF sends[r].left > 1 THEN "choose" ELSE "describe",
       ![r].left = @ - 1,
       ![r].saved = @ \cup {[path |-> sends[r].path, file |-> Current(r)]}]
  /\ UNCHANGED <<disk, uploadRows, sent, contested>>

\* A disguised file is removed and the request refused (400); what it saved
\* before stays on the disk without a row.
RefuseFile(r) ==
  /\ sends[r].step = "validate"
  /\ ~ Genuine(r)
  /\ disk' = [p \in DOMAIN disk \ {sends[r].path} |-> disk[p]]
  /\ sends' = [sends EXCEPT ![r] = NotSending]
  /\ UNCHANGED <<uploadRows, sent, contested>>

\* _build_uploaded_file_block: an image is described, a data file extracted,
\* each from the disk; what cannot be read is reported to the model as such.
DescribeFile(r, s) ==
  /\ sends[r].step = "describe" /\ s \in sends[r].saved
  /\ \A t \in sends[r].told : t.path # s.path
  /\ LET told == sends[r].told \cup {[path |-> s.path, file |-> s.file, seen |-> OnDisk(s.path)]}
     IN sends' = [sends EXCEPT ![r].told = told,
          ![r].step = IF Cardinality({t.path : t \in told}) = Cardinality({t.path : t \in sends[r].saved})
                      THEN "answer" ELSE "describe"]
  /\ UNCHANGED <<disk, uploadRows, sent, contested>>

\* The turn of the chat ends, with an answer or an apology, and is committed.
AnswerUpload(r) ==
  /\ sends[r].step = "answer"
  /\ uploadRows' = uploadRows \cup sends[r].saved
  /\ sends' = [sends EXCEPT ![r] = NotSending]
  /\ UNCHANGED <<disk, sent, contested>>

\* The type is not supported, an extractor raises, or the request is lost.
LoseUpload(r) ==
  /\ sends[r] # NotSending
  /\ sends' = [sends EXCEPT ![r] = NotSending]
  /\ UNCHANGED <<disk, uploadRows, sent, contested>>

\* delete_upload: the file is left for a sweeper.
DeleteUpload(row) ==
  /\ row \in uploadRows
  /\ uploadRows' = uploadRows \ {row}
  /\ UNCHANGED <<disk, sends, sent, contested>>

UploadsNext ==
  \/ \E r \in Upload :
       \/ \E coach \in Uploader, n \in 1..MaxFiles : \E fakes \in SUBSET (1..n) :
            BeginUpload(r, coach, n, fakes)
       \/ ChoosePath(r) \/ WriteFile(r) \/ KeepFile(r) \/ RefuseFile(r)
       \/ \E s \in uploadRows \cup UNION {sends[q].saved : q \in {p \in Upload : sends[p] # NotSending}} :
            DescribeFile(r, s)
       \/ AnswerUpload(r) \/ LoseUpload(r)
  \/ \E row \in uploadRows : DeleteUpload(row)

-----------------------------------------------------------------------------
(* Properties *)

Contents == [coach : Uploader, send : 1..MaxUpload, file : 1..MaxFiles, genuine : BOOLEAN]
Paths == [dir : Uploader, n : Nat]

\* The type of the state.
UploadsTypeOK ==
  /\ DOMAIN disk \subseteq Paths /\ \A p \in DOMAIN disk : disk[p] \in Contents
  /\ uploadRows \subseteq [path : Paths, file : Contents]
  /\ sent \in 0..MaxUpload /\ contested \subseteq Paths
  /\ sends \in [Upload -> {NotSending} \cup
       [step : {"choose", "write", "validate", "describe", "answer"}, coach : Uploader,
        send : 1..MaxUpload, left : 0..MaxFiles, fakes : SUBSET (1..MaxFiles),
        path : Paths \cup {NoPath}, saved : SUBSET [path : Paths, file : Contents],
        told : SUBSET [path : Paths, file : Contents, seen : SUBSET Contents]]]

\* A row leads to the very file that was sent with it, and so did what the model
\* was told, unless another request had chosen the same path before either wrote;
\* even then it is a file of the same coach (upload_service.py, "each user gets
\* their own subdirectory").
UploadsStayApart ==
  /\ \A row \in uploadRows : row.path \in contested \/ OnDisk(row.path) = {row.file}
  /\ \A r \in Upload : sends[r] # NotSending => \A t \in sends[r].told :
       /\ t.path \in contested \/ t.seen = {t.file}
       /\ \A f \in t.seen : f.coach = sends[r].coach
=============================================================================
