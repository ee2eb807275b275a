--------------------------- MODULE KnowledgeIngest ---------------------------
(***************************************************************************)
(* The ingestion of documents into the knowledge base                      *)
(* (services/kb_ingest.py, scripts/ingest_kb.py).                          *)
(*                                                                         *)
(* A run walks the directory; a document whose digest is not the one the   *)
(* manifest records is read, cut into chunks, and added in batches to the  *)
(* collection, which ignores an id it has.  The manifest is read at the    *)
(* start of a run and written at its end.  Runs may overlap, stop between  *)
(* any two steps, and meet documents that change.                          *)
(***************************************************************************)
EXTENDS Naturals, FiniteSets

CONSTANTS
  Ingester,   \* runs that may be under way
  Document,   \* file names in the directory
  Batches,    \* batches the chunks of a document fill
  MaxEdit,    \* bound: versions of a document
  MaxRun      \* bound: runs begun

ASSUME KnowledgeIngestAssumption ==
  Batches \in Nat \ {0} /\ MaxEdit \in Nat \ {0} /\ MaxRun \in Nat

VARIABLES
  library,    \* the version of each document on the disk
  manifest,   \* the version whose digest is recorded, by document
  collection, \* the batches in the collection, with the version they are of
  ingests,    \* the runs
  ingested,   \* how many have begun
  blank,      \* history: documents whose text once could not be extracted
  stale       \* history: documents of which a run read, or met in the collection,
              \* another version than the one it has hashed, or read

ingestVars == <<library, manifest, collection, ingests, ingested, blank, stale>>

Unrecorded == 0
Waiting == [step |-> "waiting"]

IngestInit ==
  /\ library = [d \in Document |-> 1]
  /\ manifest = [d \in Document |-> Unrecorded]
  /\ collection = {}
  /\ ingests = [i \in Ingester |-> Waiting]
  /\ ingested = 0 /\ blank = {} /\ stale = {}

\* auto_ingest_documents: _read_manifest, which may not be readable.
BeginIngest(i, readable) ==
  /\ ingests[i] = Waiting /\ ingested < MaxRun
  /\ ingested' = ingested + 1
  /\ ingests' = [ingests EXCEPT ![i] =
       [step |-> "walk", todo |-> Document, doc |-> {}, digest |-> Unrecorded,
        files |-> IF readable THEN manifest ELSE [d \in Document |-> Unrecorded],
        text |-> Unrecorded, added |-> 0]]
  /\ UNCHANGED <<library, manifest, collection, blank, stale>>

\* The digest of the next document: recorded, the document is skipped.
HashDocument(i, d) ==
  /\ ingests[i].step = "walk" /\ d \in ingests[i].todo
  /\ ingests' = [ingests EXCEPT ![i].todo = @ \ {d}, ![i].doc = {d}, ![i].digest = library[d],
       ![i].step = IF ingests[i].files[d] = library[d] THEN "walk" ELSE "extract"]
  /\ UNCHANGED <<library, manifest, collection, ingested, blank, stale>>

\* The document at hand is noted as ingested.
Noted(i) ==
  [ingests EXCEPT ![i].step = "walk", ![i].added = 0,
     ![i].files = [d \in Document |-> IF d \in ingests[i].doc THEN ingests[i].digest ELSE @[d]]]

\* ingest_pdf: the text as it is by now.
ExtractText(i) ==
  LET text == library[CHOOSE d \in Document : d \in ingests[i].doc]
  IN /\ ingests[i].step = "extract"
     /\ ingests' = [ingests EXCEPT ![i].step = "add", ![i].text = text]
     /\ stale' = stale \cup (IF text = ingests[i].digest THEN {} ELSE ingests[i].doc)
     /\ UNCHANGED <<library, manifest, collection, ingested, blank>>

\* An extractor that fails gives no text: no chunks, and the document is noted.
ExtractNothing(i) ==
  /\ ingests[i].step = "extract"
  /\ ingests' = Noted(i)
  /\ blank' = blank \cup ingests[i].doc
  /\ UNCHANGED <<library, manifest, collection, ingested, stale>>

\* The chunks of the batch at hand that are there of another version.
Outdated(i) ==
  {c \in collection : /\ c.doc \in ingests[i].doc /\ c.batch = ingests[i].added + 1
                      /\ c.text # ingests[i].text}

\* collection.add: the ids there are already keep the text they have.
AddBatch(i) ==
  LET new == [doc : ingests[i].doc, batch : {ingests[i].added + 1}]
      old == {[doc |-> c.doc, batch |-> c.batch] : c \in collection}
  IN /\ ingests[i].step = "add"
     /\ collection' = collection \cup
          {[doc |-> c.doc, batch |-> c.batch, text |-> ingests[i].text] : c \in new \ old}
     /\ ingests' = IF ingests[i].added + 1 = Batches THEN Noted(i)
                   ELSE [ingests EXCEPT ![i].added = @ + 1]
     /\ stale' = stale \cup {c.doc : c \in Outdated(i)}
     /\ UNCHANGED <<library, manifest, ingested, blank>>

\* Fault: a document that failed is noted too.
Failed_Noted(i) == Noted(i)

\* The embedding or the collection fails: what was added stays, and the document
\* is not noted.
Failed(i) == [ingests EXCEPT ![i].step = "walk", ![i].added = 0]

AddFails(i) ==
  /\ ingests[i].step = "add"
  /\ ingests' = Failed(i)
  /\ UNCHANGED <<library, manifest, collection, ingested, blank, stale>>

\* _write_manifest: the run's own view of all documents.
EndIngest(i) ==
  /\ ingests[i].step = "walk" /\ ingests[i].todo = {}
  /\ manifest' = ingests[i].files
  /\ ingests' = [ingests EXCEPT ![i] = Waiting]
  /\ UNCHANGED <<library, collection, ingested, blank, stale>>

\* The run stops, or its manifest cannot be written.
StopIngest(i) ==
  /\ ingests[i] # Waiting
  /\ ingests' = [ingests EXCEPT ![i] = Waiting]
  /\ UNCHANGED <<library, manifest, collection, ingested, blank, stale>>

EditDocument(d) ==
  /\ library[d] < MaxEdit
  /\ library' = [library EXCEPT ![d] = @ + 1]
  /\ UNCHANGED <<manifest, collection, ingests, ingested, blank, stale>>

IngestNext ==
  \/ \E i \in Ingester :
       \/ \E readable \in BOOLEAN : BeginIngest(i, readable)
       \/ \E d \in Document : HashDocument(i, d)
       \/ ExtractText(i) \/ ExtractNothing(i)
       \/ AddBatch(i) \/ AddFails(i)
       \/ EndIngest(i) \/ StopIngest(i)
  \/ \E d \in Document : EditDocument(d)

-----------------------------------------------------------------------------
(* Properties *)

\* The type of the state.
IngestTypeOK ==
  /\ library \in [Document -> 1..MaxEdit]
  /\ manifest \in [Document -> 0..MaxEdit]
  /\ collection \subseteq [doc : Document, batch : 1..Batches, text : 1..MaxEdit]
  /\ ingests \in [Ingester -> {Waiting} \cup
       [step : {"walk", "extract", "add"}, todo : SUBSET Document, doc : SUBSET Document,
        digest : 0..MaxEdit, files : [Document -> 0..MaxEdit], text : 0..MaxEdit,
        added : 0..(Batches - 1)]]
  /\ ingested \in 0..MaxRun /\ blank \subseteq Document /\ stale \subseteq Document

\* A document of which the manifest knows is there as a whole, though runs
\* overlap, fail and stop, unless its text once could not be extracted; no part
\* is there twice (kb_ingest.py, "Re-running ingestion only processes new or
\* changed files").  What is there is the version that is recorded, unless the
\* document is stale, as any that is ingested again after a change: the chunks of
\* its first version keep their ids and their text.
RecordedIsWhole ==
  /\ \A d \in Document \ blank : manifest[d] # Unrecorded =>
       \A b \in 1..Batches : \E c \in collection :
         c.doc = d /\ c.batch = b /\ (d \in stale \/ c.text = manifest[d])
  /\ \A c, e \in collection : c.doc = e.doc /\ c.batch = e.batch => c = e
=============================================================================
