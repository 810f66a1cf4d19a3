----------------------------- MODULE MetadataCursor -----------------------------
(***************************************************************************)
(* MetadataManifestIngestor.ingest of manifest.py over the cursor          *)
(* repository of postgres_manifest.py: any number of workers stream one    *)
(* manifest, upsert each record into the catalogue and commit the cursor   *)
(* after each line.  An upsert and a cursor save are transactions of their *)
(* own; a worker can fail or die between them, and the answer to either    *)
(* can be lost.                                                            *)
(*                                                                         *)
(* A line is a logical record of the file (a quoted CSV record may span    *)
(* physical lines); all lines are equally long, so that next_byte_offset   *)
(* and the size of a file count lines.  What the code knows of a file is   *)
(* the size and the mtime its stat reports, in a key: files alike in both  *)
(* are one manifest to it.  The stat, the second look of open_stream and   *)
(* the download are requests of their own, between which the file may be   *)
(* replaced, and it may be while it is streamed: what is read then is      *)
(* the rest of the old file or of a newer one.                             *)
(*                                                                         *)
(* Operators named ..._Variant are faulty variants of the one below them;  *)
(* no action uses them.                                                    *)
(***************************************************************************)
EXTENDS Integers, Sequences, FiniteSets

CONSTANTS
  Reader,      \* the workers that ingest manifests
  Steady,      \* the workers that come back after each failure
  LastVersion, \* the remote manifest is replaced LastVersion - 1 times at most
  Manifest,    \* Manifest[f][v]: the kinds of the lines of version v in format f
  Mtime,       \* Mtime[v]: when version v was written, in whole seconds
  Unset

Kind == {"header", "blank", "record", "bad"}
Format == {"jsonl", "csv"}

ASSUME ManifestAssumption ==
  /\ Steady \subseteq Reader /\ Steady # {}
  /\ LastVersion \in Nat \ {0}
  /\ Manifest \in [Format -> [1..LastVersion -> Seq(Kind)]]
  /\ \A v \in 1..LastVersion :
       /\ \A i \in DOMAIN Manifest["jsonl"][v] : Manifest["jsonl"][v][i] # "header"
       /\ \A i \in DOMAIN Manifest["csv"][v] :
            /\ Manifest["csv"][v][i] # "blank"
            /\ Manifest["csv"][v][i] = "header" => i = 1
            /\ i = 1 => Manifest["csv"][v][i] \in {"header", "bad"}
  /\ Mtime \in [1..LastVersion -> Nat]
  /\ Unset \notin Nat
  /\ Unset \notin [key : [size : Nat \cup {Unset}, mtime : Nat \cup {Unset}],
                   offset : Nat, records : Nat, header : BOOLEAN]

VARIABLES
  format,     \* manifest_format of the key
  nas,        \* what the share tells of a file: its "size", its "time"
  published,  \* the version of the manifest that is there now
  cursor,     \* the row of knowledge_metadata_cursors, or Unset
  catalogue,  \* the records <<v, i>> (line i of version v) that were upserted
  reading,    \* reading[w]: worker w's call of ingest
  reported,   \* history: the versions some call has reported as ingested
  overtaken   \* history: those for which a call that was overtaken saved or reported

cursorVars == <<format, nas, published, cursor, catalogue, reading, reported, overtaken>>

Lines(v) == Manifest[format][v]
LineCount(v) == Len(Lines(v))
Records(v, offset) == {i \in 1..LineCount(v) : i <= offset /\ Lines(v)[i] = "record"}

(* build_source_version_key of what a stat says of version v.              *)
Key(v) == [size |-> IF "size" \in nas THEN LineCount(v) ELSE Unset,
           mtime |-> IF "time" \in nas THEN Mtime[v] ELSE Unset]
Keys == [size : Nat \cup {Unset}, mtime : Nat \cup {Unset}]

Cursor == [key : Keys, offset : Nat, records : Nat, header : BOOLEAN]
MakeCursor(key, offset, records, header) ==
  [key |-> key, offset |-> offset, records |-> records, header |-> header]
FirstCursor(version) == MakeCursor(Key(version), 0, 0, FALSE)

(* A call: the version of its stat, the version its bytes come from, its   *)
(* cursor, and (history) whether the file was replaced behind its back:    *)
(* after its last look at the file.                                        *)
CursorAt == {"idle", "load", "open", "download", "stream", "upsert", "save"}
MakeReading(at, version, from, progress, touched) ==
  [at |-> at, version |-> version, from |-> from, progress |-> progress, touched |-> touched]
NoReading == MakeReading("idle", Unset, Unset, Unset, FALSE)

Unwatched == {"download", "stream", "upsert", "save"}
               \cup (IF "time" \in nas THEN {} ELSE {"load", "open"})

CursorInit ==
  /\ format \in Format
  /\ nas \in SUBSET {"size", "time"}
  /\ published = 1
  /\ cursor = Unset
  /\ catalogue = {}
  /\ reading = [w \in Reader |-> NoReading]
  /\ reported = {}
  /\ overtaken = {}
-----------------------------------------------------------------------------
Reads(w, next) == reading' = [reading EXCEPT ![w] = next]
GoesTo(w, at) == Reads(w, [reading[w] EXCEPT !.at = at])
Stops(w) == Reads(w, NoReading)

(* What no reading of the file changes.                                    *)
Untouched == UNCHANGED <<format, nas, published, cursor, catalogue, reported, overtaken>>

(* ingest: stat, then load.                                                *)
StatManifest(w) ==
  /\ reading[w].at = "idle"
  /\ Reads(w, MakeReading("load", published, Unset, Unset, FALSE))
  /\ Untouched

(* The stored cursor, or the first one.  A cursor of another key is        *)
(* refused, and so is one beyond the end of the manifest.                  *)
Resumed_FromStart(version) == FirstCursor(version)
Resumed(version) == IF cursor = Unset THEN FirstCursor(version) ELSE cursor

LoadCursor(w) ==
  LET version == reading[w].version
      from == Resumed(version)
  IN /\ reading[w].at = "load"
     /\ IF from.key = Key(version) /\ ("size" \in nas => from.offset <= LineCount(version))
        THEN Reads(w, [reading[w] EXCEPT !.at = "open", !.progress = from])
        ELSE Stops(w)
     /\ Untouched

(* open_stream looks a second time, if the first stat told a time, and     *)
(* refuses a manifest that has changed in time or size.                    *)
LooksTheSame_Unlooked(w) == TRUE
LooksTheSame(w) == "time" \in nas => Key(published) = Key(reading[w].version)

LookAgain(w) ==
  /\ reading[w].at = "open"
  /\ IF LooksTheSame(w) THEN GoesTo(w, "download") ELSE Stops(w)
  /\ Untouched

(* The answer to the download.  From the start it is a whole file, whose   *)
(* length need not be declared; a range must begin before the end (416     *)
(* even at the end of a file that was read to its end) and tells the size. *)
Answered(w, declared) ==
  LET fits == "size" \in nas => LineCount(published) = LineCount(reading[w].version)
      offset == reading[w].progress.offset
  IN \/ offset = 0 /\ (declared => fits)
     \/ offset > 0 /\ offset < LineCount(published) /\ fits

OpenDownload(w) ==
  /\ reading[w].at = "download"
  /\ \E declared \in BOOLEAN :
       IF Answered(w, declared)
       THEN Reads(w, [reading[w] EXCEPT !.at = "stream", !.from = published])
       ELSE Stops(w)
  /\ Untouched

(* The cursor after the next line.                                         *)
Passed(progress, kind) ==
  MakeCursor(progress.key, progress.offset + 1,
             IF kind = "record" THEN progress.records + 1 ELSE progress.records,
             progress.header \/ kind = "header")

(* What a line asks for first.                                             *)
FirstStep_Save(kind) == "save"
FirstStep(kind) == IF kind = "record" THEN "upsert" ELSE "save"

(* The versions the next bytes may be of.                                  *)
Served(w) == reading[w].from .. published

(* _ingest_jsonl and _ingest_csv: the next line.                           *)
NextLine(w) ==
  LET progress == reading[w].progress IN
    /\ reading[w].at = "stream"
    /\ \E v \in Served(w) :
         /\ progress.offset < LineCount(v)
         /\ LET kind == Lines(v)[progress.offset + 1] IN
              IF kind = "bad"
              THEN Stops(w)
              ELSE Reads(w, [reading[w] EXCEPT !.at = FirstStep(kind), !.from = v,
                                               !.progress = Passed(progress, kind)])
    /\ Untouched

(* An overtaken call writes under one version's key what it read in v.     *)
Overtakes(w, v) ==
  overtaken' = IF reading[w].touched /\ v # reading[w].version
               THEN overtaken \cup {reading[w].version} ELSE overtaken

(* The end of the stream; a CSV file without a header is refused.          *)
Finish(w) ==
  LET progress == reading[w].progress IN
    /\ reading[w].at = "stream"
    /\ \E v \in Served(w) :
         /\ progress.offset >= LineCount(v)
         /\ IF format = "csv" /\ ~progress.header
            THEN UNCHANGED <<reported, overtaken>>
            ELSE reported' = reported \cup {reading[w].version} /\ Overtakes(w, v)
    /\ Stops(w)
    /\ UNCHANGED <<format, nas, published, cursor, catalogue>>

(* _upsert of the line just read; its answer may be lost.                  *)
UpsertRecord(w) ==
  /\ reading[w].at = "upsert"
  /\ catalogue' = catalogue \cup {<<reading[w].from, reading[w].progress.offset>>}
  /\ GoesTo(w, "save") \/ Stops(w)
  /\ UNCHANGED <<format, nas, published, cursor, reported, overtaken>>

(* _assert_progress, where there is a row that differs.                    *)
Progress(candidate) ==
  /\ cursor.key = candidate.key
  /\ cursor.offset <= candidate.offset
  /\ cursor.records <= candidate.records
  /\ cursor.offset = candidate.offset => cursor.records = candidate.records
  /\ cursor.header => candidate.header

MaySave(candidate) == cursor \in {Unset, candidate} \/ (cursor # Unset /\ Progress(candidate))

(* _save_cursor: one transaction behind an advisory lock.                  *)
Save(w) ==
  /\ reading[w].at = "save"
  /\ MaySave(reading[w].progress)
  /\ cursor' = reading[w].progress
  /\ GoesTo(w, "stream") \/ Stops(w)
  /\ Overtakes(w, reading[w].from)
  /\ UNCHANGED <<format, nas, published, catalogue, reported>>

(* A conflict or a regression: another worker was faster, or the cursor    *)
(* has come to belong to another version.                                  *)
Refuse(w) ==
  /\ reading[w].at = "save"
  /\ ~MaySave(reading[w].progress)
  /\ Stops(w)
  /\ Untouched

(* Any other failure of a stage; a crash.                                  *)
Abandon(w) ==
  /\ reading[w].at # "idle"
  /\ Stops(w)
  /\ Untouched

(* The file is replaced, behind the back of the calls that have had their  *)
(* last look at it.                                                        *)
Publish ==
  /\ published < LastVersion
  /\ published' = published + 1
  /\ reading' = [w \in Reader |->
       [reading[w] EXCEPT !.touched = reading[w].touched \/ reading[w].at \in Unwatched]]
  /\ UNCHANGED <<format, nas, cursor, catalogue, reported, overtaken>>

Step(w) == StatManifest(w) \/ LoadCursor(w) \/ LookAgain(w) \/ OpenDownload(w) \/ NextLine(w) \/ Finish(w)

CursorNext ==
  \/ \E w \in Reader : Step(w) \/ UpsertRecord(w) \/ Save(w) \/ Refuse(w) \/ Abandon(w)
  \/ Publish

(* The job comes again, to a steady worker too; the services answer in the *)
(* end, and of the requests, upserts and saves tried again and again some  *)
(* are answered.  The other workers may go on or not.                      *)
Fairness ==
  \A w \in Steady :
    /\ WF_cursorVars(StatManifest(w)) /\ WF_cursorVars(Refuse(w)) /\ SF_cursorVars(LoadCursor(w))
    /\ SF_cursorVars(LookAgain(w)) /\ SF_cursorVars(OpenDownload(w) /\ reading'[w].at = "stream")
    /\ WF_cursorVars(OpenDownload(w)) /\ SF_cursorVars(NextLine(w)) /\ SF_cursorVars(Finish(w))
    /\ SF_cursorVars(UpsertRecord(w) /\ reading'[w].at = "save")
    /\ SF_cursorVars(Save(w) /\ reading'[w].at = "stream")

CursorSpec == CursorInit /\ [][CursorNext]_cursorVars
FairSpec == CursorSpec /\ Fairness
-----------------------------------------------------------------------------
(* Types; a cursor past the first line of a CSV file knows its header.     *)
CursorTypeOK ==
  /\ format \in Format /\ nas \subseteq {"size", "time"} /\ published \in 1..LastVersion
  /\ reported \subseteq 1..LastVersion /\ overtaken \subseteq 1..LastVersion
  /\ cursor \in Cursor \cup {Unset}
  /\ catalogue \subseteq (1..LastVersion) \X Nat
  /\ \A w \in Reader :
       /\ reading[w].at \in CursorAt
       /\ reading[w].version \in 1..LastVersion \cup {Unset}
       /\ reading[w].from \in 1..LastVersion \cup {Unset}
       /\ reading[w].progress \in Cursor \cup {Unset}
       /\ reading[w].touched \in BOOLEAN
  /\ cursor # Unset /\ format = "csv" => (cursor.header <=> cursor.offset > 0)

(* The versions whose key tells what was read: no other one has had the    *)
(* same key, and no call wrote under it that was overtaken by a            *)
(* replacement after the last moment at which the code looks.              *)
Alone(v) == \A u \in 1..published : Key(u) = Key(v) => u = v
Known == {v \in 1..published : v \notin overtaken /\ Alone(v)}

(* No record is skipped: what lies before the committed cursor is in the   *)
(* catalogue and was counted once, however often it was read again, and so *)
(* is all of a version that a call has reported as ingested, whoever       *)
(* crashed or was overtaken on the way; a replacement between the stat and *)
(* the second look (_ingest_jsonl, open_stream) is noticed.                *)
NothingSkipped ==
  \A v \in Known :
    /\ cursor # Unset /\ cursor.key = Key(v) =>
         LET passed == Records(v, cursor.offset) IN
           /\ \A i \in passed : <<v, i>> \in catalogue
           /\ cursor.records = Cardinality(passed)
    /\ v \in reported => \A i \in Records(v, LineCount(v)) : <<v, i>> \in catalogue

(* A manifest that is well formed, stays as it is while the cursor is at   *)
(* it, and has a key of its own is in the catalogue in the end.  (That a   *)
(* call says so is not promised: one that lost the answer to the last save *)
(* leaves a cursor at the end, from which no range can be asked for.)      *)
EventuallyIngested ==
  <>[](/\ cursor # Unset => cursor.key = Key(published)
       /\ Alone(published)
       /\ \A i \in 1..LineCount(published) : Lines(published)[i] # "bad")
    => <>(\A i \in Records(published, LineCount(published)) : <<published, i>> \in catalogue)
===============================================================================
