---- MODULE DocumentRecords ----
(* The documents of a GraphRAG dataset and the records extracted from them *)
(* (graphrag/parsers.py, jobs.py create_dataset, records.py, resolution/   *)
(* engine/export.py, worker.py _verify_artifacts): an upload is parsed as  *)
(* a whole or refused, duplicate texts become one row; every index attempt *)
(* captures its extracted records before they are aggregated; the records  *)
(* of the attempt that succeeded are what disambiguation is offered.       *)
(*                                                                         *)
(* A text is its size, distinct texts have distinct sizes; a row of the    *)
(* dataset is one text unit.                                               *)
EXTENDS Integers, FiniteSets, Sequences, SequencesExt, FiniteSetsExt

CONSTANTS
    Inputs,        \* uploads: sequences of files (see below)
    Extractions,   \* what the model may extract in an attempt
    Clean,         \* title -> the title legacy_clean makes of it
    MaxFile, MaxBatch, MaxDocuments, MaxText,   \* the limits of parsers.py
    MaxAttempts,   \* bound: index attempts
    Bad,           \* a value that is not readable text
    None

\* file: name usable, extension, bytes, encoding, well-formed (a readable
\* archive, a csv header, JSON at the top level), and its entries: a text, or
\* an object that may have fields text and content; None is a blank line.

VARIABLES
    input,
    phase,      \* "upload", "ready", "running", "saved", "indexed", "succeeded", "failed" or "refused"
    dataset,    \* the rows and duplicates of manifest.json, or None
    attempts,
    captured,   \* the records the hooks collected in this attempt
    saved,      \* inputs/<sha256>.json: every corpus that was saved
    latest,     \* latest.json
    indexed     \* the documents the index of this attempt covers

vars == <<input, phase, dataset, attempts, captured, saved, latest, indexed>>
uploadVars == <<input, dataset>>

Total(s) == FoldLeft(LAMBDA acc, x : acc + x, 0, s)

\* The numbers of a set, the least first.
Ascending(S) == [i \in 1 .. Cardinality(S) |-> CHOOSE n \in S : Cardinality({m \in S : m < n}) = i - 1]

----
(* Parsing.                                                                *)

Plain == {"txt", "md"}
Archives == {"pdf", "docx"}
Rows == {"csv", "json", "jsonl"}

\* _record_document: text if the record has it, content otherwise.
TextOf(f, e) ==
    IF f.extension \notin Rows THEN e ELSE IF e = None THEN Bad
    ELSE IF "text" \in DOMAIN e THEN e.text ELSE IF "content" \in DOMAIN e THEN e.content ELSE Bad

\* What the uploads and extractions below are made of: sequences, and texts
\* that have a size or cannot be read.
DocumentConstants ==
    /\ Bad \notin Nat /\ MaxText \in Nat
    /\ \A files \in Inputs :
        /\ files \in Seq(Range(files))
        /\ \A f \in Range(files) :
            /\ f.entries \in Seq(Range(f.entries))
            /\ \A e \in Range(f.entries) :
                TextOf(f, e) \in Nat \cup {Bad} /\ (e = None => f.extension \in Rows)
    /\ \A raw \in Extractions :
        raw.entities \in Seq(Range(raw.entities)) /\ raw.relations \in Seq(Range(raw.relations))

\* _decode: UTF-8; GB18030 only for txt.
Decodes(f) ==
    f.extension \in Archives \/ f.encoding = "utf8" \/ (f.encoding = "gb18030" /\ f.extension = "txt")

\* The entries that are there, in their order.
Present(entries) ==
    LET at == Ascending({i \in DOMAIN entries : entries[i] # None}) IN [k \in DOMAIN at |-> entries[at[k]]]

\* The entries that become documents: blank lines are none.
Entries(f) == IF f.extension \in {"csv", "jsonl"} THEN Present(f.entries) ELSE f.entries

(* Mutant: records without a readable text are left out.                   *)
ParsedLeniently(f) ==
    SelectSeq([i \in DOMAIN Entries(f) |-> [text |-> TextOf(f, Entries(f)[i]), source |-> f.name]],
              LAMBDA d : d.text # Bad /\ d.text # 0)

\* _csv_documents, _json_documents, _docx_document, _pdf_document.
Parsed(f) == [i \in DOMAIN Entries(f) |-> [text |-> TextOf(f, Entries(f)[i]), source |-> f.name]]

\* _document, _clean_text: readable, not blank, within the limit.
Readable(d) == d.text # Bad /\ d.text > 0 /\ d.text <= MaxText

Acceptable(f) ==
    /\ f.named /\ f.bytes \in 1 .. MaxFile
    /\ f.extension \in Plain \cup Archives \cup Rows
    /\ Decodes(f) /\ f.wellFormed
    /\ Parsed(f) # <<>> /\ \A i \in DOMAIN Parsed(f) : Readable(Parsed(f)[i])

Documents(files) == FlattenSeq([i \in DOMAIN files |-> Parsed(files[i])])

Bytes(files) == Total([i \in DOMAIN files |-> files[i].bytes])

\* parse_uploads: every file, and the batch as a whole.
Parses(files) ==
    /\ files # <<>> /\ Bytes(files) <= MaxBatch
    /\ \A i \in DOMAIN files : Acceptable(files[i])
    /\ Total([i \in DOMAIN Documents(files) |-> Documents(files)[i].text]) <= MaxText
    /\ Len(Documents(files)) <= MaxDocuments

\* create_dataset: the first document of a text becomes the row.
First(docs, i) == \A j \in 1 .. i - 1 : docs[j].text # docs[i].text

Dataset(docs) ==
    LET at == Ascending({i \in DOMAIN docs : First(docs, i)}) IN
    [rows |-> [r \in DOMAIN at |-> docs[at[r]]],
     duplicates |-> {[source |-> docs[i].source, of |-> CHOOSE r \in DOMAIN at : docs[at[r]].text = docs[i].text] :
                        i \in DOMAIN docs \ ToSet(at)},
     count |-> Cardinality(DOMAIN docs \ ToSet(at))]

Init ==
    /\ input \in Inputs /\ phase = "upload" /\ dataset = None
    /\ attempts = 0 /\ captured = None /\ saved = {} /\ latest = None /\ indexed = {}

\* upload: the documents are parsed and saved before anything is indexed.
Upload ==
    /\ phase = "upload"
    /\ IF Parses(input)
       THEN phase' = "ready" /\ dataset' = Dataset(Documents(input))
       ELSE phase' = "refused" /\ UNCHANGED dataset
    /\ UNCHANGED <<input, attempts, captured, saved, latest, indexed>>

----
(* Extraction.                                                             *)

Units == DOMAIN dataset.rows

(* Mutant: an end is looked up by title in all text units.                 *)
NamedAnywhere(raw, unit, title) ==
    {i \in DOMAIN raw.entities : Clean[raw.entities[i].title] = Clean[title]}

\* by_name: the records of a text unit with the cleaned title.
Named(raw, unit, title) ==
    {i \in DOMAIN raw.entities : raw.entities[i].unit = unit /\ Clean[raw.entities[i].title] = Clean[title]}

\* corpus_from_records: identical records are told apart by their occurrence,
\* a relation is kept when both of its ends are one record of its text unit.
Corpus(raw) ==
    LET id(i) == <<raw.entities[i], Cardinality({j \in 1 .. i - 1 : raw.entities[j] = raw.entities[i]})>>
        ends(r) == <<Named(raw, r.unit, r.source), Named(raw, r.unit, r.target)>>
        clear == {k \in DOMAIN raw.relations : \A s \in {1, 2} : Cardinality(ends(raw.relations[k])[s]) = 1}
        only(S) == CHOOSE x \in S : TRUE
    IN  [mentions |-> [i \in DOMAIN raw.entities |->
                        [id |-> id(i), name |-> raw.entities[i].title, unit |-> raw.entities[i].unit]],
         relations |-> {[id |-> <<raw.relations[k], k>>,
                         left |-> id(only(ends(raw.relations[k])[1])),
                         right |-> id(only(ends(raw.relations[k])[2]))] : k \in clear},
         unresolved |-> {k \in DOMAIN raw.relations : k \notin clear},
         raw |-> raw]

\* What corpus_from_records and Corpus.from_dict require.
Sound(raw) == raw.entities # <<>> /\ \A i \in DOMAIN raw.entities : raw.entities[i].unit \in Units

\* run_job starts the next attempt.
Start ==
    /\ phase \in {"ready", "failed"} /\ attempts < MaxAttempts
    /\ phase' = "running" /\ attempts' = attempts + 1 /\ captured' = None /\ indexed' = {}
    /\ UNCHANGED <<uploadVars, saved, latest>>

\* The entities hook has seen all frames, the relationships hook saves the
\* corpus; one that is not sound ends the attempt.
Capture ==
    /\ phase = "running"
    /\ \E raw \in Extractions :
        /\ captured' = raw
        /\ IF Sound(raw) THEN phase' = "saved" /\ saved' = saved \cup {Corpus(raw)}
           ELSE phase' = "failed" /\ UNCHANGED saved
    /\ UNCHANGED <<uploadVars, attempts, latest, indexed>>

(* Mutant: the pointer of an earlier attempt is kept.                      *)
PointOnce ==
    /\ phase = "saved"
    /\ latest' = (IF latest = None THEN Corpus(captured) ELSE latest)
    /\ \E S \in SUBSET Units : indexed' = S
    /\ phase' = "indexed"
    /\ UNCHANGED <<uploadVars, attempts, captured, saved>>

\* latest.json is replaced, and the native index goes on to its end; which
\* documents it covers is not ours.
Point ==
    /\ phase = "saved"
    /\ latest' = Corpus(captured)
    /\ \E S \in SUBSET Units : indexed' = S
    /\ phase' = "indexed"
    /\ UNCHANGED <<uploadVars, attempts, captured, saved>>

(* Mutant: an index of fewer documents is accepted.                        *)
CoversSome == indexed # {}

\* _verify_artifacts: the index has exactly the documents of the manifest.
Covers == indexed = Units

\* run_job: verified, and the records can be loaded.
Verify ==
    /\ phase = "indexed"
    /\ phase' = IF Covers /\ latest \in saved THEN "succeeded" ELSE "failed"
    /\ UNCHANGED <<uploadVars, attempts, captured, saved, latest, indexed>>

\* The worker fails or dies at any other point.
Break ==
    /\ phase \in {"running", "saved", "indexed"}
    /\ phase' = "failed"
    /\ UNCHANGED <<uploadVars, attempts, captured, saved, latest, indexed>>

Next == Upload \/ Start \/ Capture \/ Point \/ Verify \/ Break

Spec == Init /\ [][Next]_vars

----
\* records_graph: one node per record, with the raw row of the same place.
Graph ==
    [nodes |-> [i \in DOMAIN latest.mentions |->
                  [id |-> latest.mentions[i].id, unit |-> latest.mentions[i].unit,
                   properties |-> latest.raw.entities[i]]],
     edges |-> {[from |-> r.left, to |-> r.right, properties |-> latest.raw.relations[r.id[2]]] :
                  r \in latest.relations}]

Broken(f) ==
    \/ ~f.named \/ f.bytes \notin 1 .. MaxFile \/ f.extension \notin Plain \cup Archives \cup Rows
    \/ ~Decodes(f) \/ ~f.wellFormed
    \/ \A i \in DOMAIN f.entries : f.entries[i] = None
    \/ \E i \in DOMAIN f.entries : f.entries[i] # None /\ TextOf(f, f.entries[i]) \notin 1 .. MaxText
    \/ f.extension = "json" /\ \E i \in DOMAIN f.entries : f.entries[i] = None

TextsOf(files) ==
    FlattenSeq([i \in DOMAIN files |->
        LET kept == Present(files[i].entries)
        IN  [j \in DOMAIN kept |-> TextOf(files[i], kept[j])]])

\* Any record that cannot be read refuses the whole upload; an accepted one
\* has every record of every file as a row, or as a duplicate of the row with
\* its text (parsers.py:263, jobs.py:124-149).
ImportIsWhole ==
    /\ dataset # None =>
        LET texts == TextsOf(input) IN
        /\ input # <<>> /\ \A i \in DOMAIN input : ~Broken(input[i])
        /\ {r.text : r \in ToSet(dataset.rows)} = ToSet(texts)
        /\ Len(dataset.rows) = Cardinality(ToSet(texts))
        /\ Len(dataset.rows) + dataset.count = Len(texts)
        /\ Len(texts) <= MaxDocuments /\ Total(texts) <= MaxText
    /\ phase = "refused" =>
        \/ input = <<>> \/ \E i \in DOMAIN input : Broken(input[i])
        \/ ~(Bytes(input) <= MaxBatch)
        \/ ~(Len(TextsOf(input)) <= MaxDocuments /\ Total(TextsOf(input)) <= MaxText)

\* The records a succeeded dataset offers are those of the attempt that
\* succeeded, whatever earlier attempts left behind: one node per extracted
\* record with that record's own fields, every relation an edge between the
\* only records its text unit has for its ends, or disclosed as unresolved;
\* and every row of the dataset was indexed (records.py, export.py:52-75).
RecordsAreWhole ==
    phase = "succeeded" =>
        /\ latest.raw = captured /\ indexed = DOMAIN dataset.rows
        /\ Len(Graph.nodes) = Len(captured.entities)
        /\ Cardinality({n.id : n \in ToSet(Graph.nodes)}) = Len(captured.entities)
        /\ \A i \in DOMAIN captured.entities :
            Graph.nodes[i].properties = captured.entities[i] /\ Graph.nodes[i].unit = captured.entities[i].unit
        /\ Cardinality(Graph.edges) <= Len(captured.relations)
        /\ \A k \in DOMAIN captured.relations :
            LET r == captured.relations[k]
                node(title) == {n \in ToSet(Graph.nodes) :
                    n.unit = r.unit /\ Clean[n.properties.title] = Clean[title]}
            IN  \/ k \in latest.unresolved /\ (Cardinality(node(r.source)) # 1 \/ Cardinality(node(r.target)) # 1)
                \/ \E e \in Graph.edges : e.properties = r
                    /\ {e.from} = {n.id : n \in node(r.source)} /\ {e.to} = {n.id : n \in node(r.target)}
====
