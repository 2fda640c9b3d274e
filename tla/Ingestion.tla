----------------------------- MODULE Ingestion -----------------------------
(***************************************************************************)
(* Uploads of one file name into a project (workspace/router.py, in the API *)
(* process) and extractions of it into document chunks (document.extract,   *)
(* in a worker): a file on disk, rows of files, rows of document_chunks,    *)
(* and the OCR engine of the worker.  The bytes and the rows are not        *)
(* written together, and the two processes share only disk and database.    *)
(***************************************************************************)
EXTENDS Naturals, FiniteSets

CONSTANTS
    Uploads,      \* requests that upload the name; a row of files each
    Extractions,  \* calls of document.extract
    MaxChunks     \* bound of the model: chunks of one text

VARIABLES
    disk,     \* the upload whose bytes are there, "absent" before the first, "torn" while one is being written
    upload,   \* of each upload: "new", "writing", "written", "done", or "lost"
    files,    \* the committed rows
    ocr,      \* get_ocr_engine: "unloaded", "ready", or "missing" once loading it has failed
    stage, file_id, mime, length,   \* of each extraction: its place, its file_id, the sniffed type, the chunks of its text
    added,    \* chunks added to its session
    chunks    \* committed rows: <<extraction, chunk_index>>

uploading == <<disk, upload, files>>
vars == <<uploading, ocr, stage, file_id, mime, length, added, chunks>>

Init ==
    /\ disk = "absent" /\ upload = [u \in Uploads |-> "new"] /\ files = {}
    /\ ocr = "unloaded"
    /\ stage = [e \in Extractions |-> "new"] /\ file_id = [e \in Extractions |-> "none"]
    /\ mime = [e \in Extractions |-> "none"]
    /\ length = [e \in Extractions |-> 0] /\ added = [e \in Extractions |-> 0]
    /\ chunks = {}

-----------------------------------------------------------------------------
Writing == \E u \in Uploads : upload[u] = "writing"

\* open("wb") truncates; the name is all the path there is, whoever uploads it.
Truncate(u) ==
    /\ upload[u] = "new" /\ ~Writing
    /\ upload' = [upload EXCEPT ![u] = "writing"] /\ disk' = "torn"
    /\ UNCHANGED <<mime, files, ocr, stage, file_id, length, added, chunks>>

\* copyfileobj, in the event loop: no other upload of the process runs meanwhile.
Copy(u) ==
    /\ upload[u] = "writing"
    /\ upload' = [upload EXCEPT ![u] = "written"] /\ disk' = u
    /\ UNCHANGED <<mime, files, ocr, stage, file_id, length, added, chunks>>

CommitFile(u) ==
    /\ upload[u] = "written"
    /\ upload' = [upload EXCEPT ![u] = "done"] /\ files' = files \cup {u}
    /\ UNCHANGED <<mime, disk, ocr, stage, file_id, length, added, chunks>>

\* The request fails, or its process dies: what it wrote to disk stays.
LoseUpload(u) ==
    /\ upload[u] \in {"writing", "written"}
    /\ upload' = [upload EXCEPT ![u] = "lost"]
    /\ UNCHANGED <<mime, disk, files, ocr, stage, file_id, length, added, chunks>>

-----------------------------------------------------------------------------
Goto(e, place) == stage' = [stage EXCEPT ![e] = place]

\* The file is looked for and sniffed before the row is read, and parsed after it:
\* it may be another file by then.  The planner named both the path and the row.
StartExtract(e, u) ==
    /\ stage[e] = "new" /\ disk # "absent"
    /\ \E type \in {"other", "text", "pdf", "image"} : mime' = [mime EXCEPT ![e] = type]
    /\ file_id' = [file_id EXCEPT ![e] = u]
    /\ Goto(e, IF u \in files THEN "parsing" ELSE "failed")
    /\ UNCHANGED <<uploading, ocr, length, added, chunks>>

\* get_ocr_engine marks the engine as loaded before it loads it: an import or a
\* constructor that fails leaves None for the rest of the process.
GetOcrEngine == ocr' \in IF ocr = "unloaded" THEN {"ready", "missing"} ELSE {ocr}

\* No parser, a parser that raises, or no text: a page with text needs no engine,
\* an image fails without one.
ParseFails(e) ==
    /\ stage[e] = "parsing"
    /\ \/ mime[e] \in {"other", "text", "pdf"} /\ ocr' = ocr
       \/ mime[e] \in {"pdf", "image"} /\ GetOcrEngine
    /\ Goto(e, "failed")
    /\ UNCHANGED <<mime, uploading, file_id, length, added, chunks>>

\* A scanned page of a PDF without an engine becomes a placeholder and counts as text.
Parse(e) ==
    /\ stage[e] = "parsing"
    /\ \/ mime[e] \in {"text", "pdf"} /\ ocr' = ocr
       \/ mime[e] = "pdf" /\ GetOcrEngine
       \/ mime[e] = "image" /\ GetOcrEngine /\ ocr' = "ready"
    /\ \E n \in 1..MaxChunks : length' = [length EXCEPT ![e] = n]
    /\ Goto(e, "embedding")
    /\ UNCHANGED <<mime, uploading, file_id, added, chunks>>

Added(e) == {<<e, i>> : i \in 0..added[e] - 1}

Embed(e) ==
    /\ stage[e] = "embedding" /\ added[e] < length[e]
    /\ added' = [added EXCEPT ![e] = @ + 1]
    /\ UNCHANGED <<mime, uploading, ocr, stage, file_id, length, chunks>>

CommitChunks(e) ==
    /\ stage[e] = "embedding" /\ added[e] = length[e]
    /\ chunks' = chunks \cup Added(e)
    /\ Goto(e, "done")
    /\ UNCHANGED <<mime, uploading, ocr, file_id, length, added>>

\* The commit raises, or is given up by the timeout or a cancellation: it took
\* effect or it did not, and the call has failed.
CommitBreaks(e) ==
    /\ stage[e] = "embedding" /\ added[e] = length[e]
    /\ chunks' \in {chunks, chunks \cup Added(e)}
    /\ Goto(e, "failed")
    /\ UNCHANGED <<mime, uploading, ocr, file_id, length, added>>

\* No embedding, one of the wrong size, or the tool's timeout: the executor goes
\* on to record the failure, in the session that holds the chunks added so far.
EmbedFails(e) ==
    /\ stage[e] = "embedding" /\ added[e] < length[e]
    /\ Goto(e, "recording")
    /\ UNCHANGED <<mime, uploading, ocr, file_id, length, added, chunks>>

\* Variant: the record is accepted, and what was added is committed with it.
RecordCommits(e) ==
    /\ stage[e] = "recording"
    /\ chunks' = chunks \cup Added(e)
    /\ Goto(e, "failed")
    /\ UNCHANGED <<mime, uploading, ocr, file_id, length, added>>

\* publish flushes the ToolExecution, whose plan_step_id no row has: it raises, and
\* the chunks are rolled back with it.  No cancellation gets in between.
RecordFails(e) ==
    /\ stage[e] = "recording"
    /\ Goto(e, "failed")
    /\ UNCHANGED <<mime, uploading, ocr, file_id, length, added, chunks>>

\* A cancellation is no Exception: it passes the executor and the runner, and the
\* wrapper commits CANCELLED, unless that fails, in the session of the chunks.
Interrupt(e) ==
    /\ stage[e] = "embedding" /\ added[e] < length[e]
    /\ chunks' \in {chunks, chunks \cup Added(e)}
    /\ Goto(e, "cancelled")
    /\ UNCHANGED <<mime, uploading, ocr, file_id, length, added>>

\* A worker ends, with whatever was not committed, and another is started, and
\* with it the engine's flag.
RestartWorker ==
    /\ ocr' = "unloaded"
    /\ stage' = [e \in Extractions |->
                    IF stage[e] \in {"parsing", "embedding", "recording"} THEN "failed" ELSE stage[e]]
    /\ stage' # stage \/ ocr' # ocr
    /\ UNCHANGED <<mime, uploading, file_id, length, added, chunks>>

Next ==
    \/ \E u \in Uploads : Truncate(u) \/ Copy(u) \/ CommitFile(u) \/ LoseUpload(u)
    \/ \E e \in Extractions :
         \/ \E u \in Uploads : StartExtract(e, u)
         \/ ParseFails(e) \/ Parse(e) \/ Embed(e) \/ CommitChunks(e) \/ CommitBreaks(e)
         \/ EmbedFails(e) \/ RecordFails(e) \/ Interrupt(e)
    \/ RestartWorker

Spec == Init /\ [][Next]_vars

-----------------------------------------------------------------------------
TypeOK ==
    /\ disk \in Uploads \cup {"absent", "torn"}
    /\ upload \in [Uploads -> {"new", "writing", "written", "done", "lost"}] /\ files \subseteq Uploads
    /\ ocr \in {"unloaded", "ready", "missing"}
    /\ stage \in [Extractions -> {"new", "parsing", "embedding", "recording", "done", "failed", "cancelled"}]
    /\ file_id \in [Extractions -> Uploads \cup {"none"}]
    /\ mime \in [Extractions -> {"none", "other", "text", "pdf", "image"}]
    /\ length \in [Extractions -> 0..MaxChunks] /\ added \in [Extractions -> 0..MaxChunks]
    /\ chunks \subseteq Extractions \X (0..MaxChunks - 1)

(* An extraction is in the table whole or not at all, wherever its embedding   *)
(* breaks off, unless it was cancelled, and every chunk is of a file whose row *)
(* exists.  chunk_and_embed commits once, after the last chunk; what a failed  *)
(* one has left in its session is rolled back with the record of the failure,  *)
(* and only the wrapper's commit of CANCELLED stores a first part of a text.   *)
WholeExtractions ==
    \A e \in Extractions :
        LET mine == {i \in 0..MaxChunks - 1 : <<e, i>> \in chunks} IN
        mine # {} =>
            /\ file_id[e] \in files
            /\ \/ stage[e] \in {"done", "failed"} /\ mine = 0..length[e] - 1
               \/ stage[e] = "cancelled" /\ mine = 0..added[e] - 1
=============================================================================
