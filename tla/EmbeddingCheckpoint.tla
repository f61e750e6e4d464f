------------------------- MODULE EmbeddingCheckpoint -------------------------
(***************************************************************************)
(* build-embeddings with the qwen provider, for one repository: the units  *)
(* of the search documents are embedded in batches, each batch is appended *)
(* to a checkpoint file and fsynced, and a later run resumes from the      *)
(* records it can read back.  When every unit has a vector the embedding   *)
(* index is written and the checkpoint removed.                            *)
(*                                                                         *)
(* The process may be killed between any two steps, and inside an append,  *)
(* which leaves a prefix of the lines and perhaps an unterminated one.     *)
(* A line is a record [unit, gen, ver]: whose vector, made from which      *)
(* generation of the search documents, under which version of the          *)
(* settings.  A line that is not JSON is Bad.  Versions are settings that  *)
(* share one pair of files: the schema version is not part of their name,  *)
(* and model names that differ in unsafe characters only have the same.    *)
(***************************************************************************)
EXTENDS Integers, Sequences, FiniteSets

CONSTANTS
  MaxUnit,     \* retrieval units are 1..MaxUnit, in document order
  UnitsOf,     \* UnitsOf[g]: the units of the search documents of generation g
  MaxSearch,   \* bound: generations of the search documents
  MaxVersion,  \* bound: versions of the settings
  BatchSize,   \* BATCH_SIZE
  MaxFaults    \* bound: kills and provider failures

ASSUME UnitAssumption == MaxUnit \in Nat
ASSUME SearchAssumption ==
  /\ MaxSearch \in Nat \ {0} /\ MaxVersion \in Nat \ {0} /\ MaxFaults \in Nat
ASSUME BatchAssumption == BatchSize \in Nat \ {0}
ASSUME UnitsOfAssumption == UnitsOf \in [1..MaxSearch -> (SUBSET (1..MaxUnit)) \ {{}}]

Units      == 1..MaxUnit
SearchGens == 1..MaxSearch
Versions   == 1..MaxVersion
Record     == [unit : Units, gen : SearchGens, ver : Versions]
Bad        == [unit |-> 0, gen |-> 0, ver |-> 0]
Line       == Record \cup {Bad}

Missing == 0    \* of the meta file
TornFile == -1  \* truncated, not yet written

VARIABLES
  search,   \* generation of the search documents
  ver,      \* version of the settings the code runs with
  file,     \* embedding_index.qwen.<model>.jsonl: [exists, lines, open]; open means
            \*   that the last line has no newline
  meta,     \* embedding_index.qwen.<model>.meta.json: Missing, TornFile or a version
  index,    \* embedding_index.json: [state, recs], with the generation, settings,
            \*   stale and tainted of the build that wrote it (history)
  stage,    \* the next step of the build, "off" when none runs
  embedded, \* embedded_documents
  batch,    \* the records of the batch being appended, in unit order
  stale,    \* the documents changed while there was a checkpoint file (history)
  tainted,  \* the run resumed from a file that holds records of other settings
            \*   although its meta file names the present ones (history)
  faults

embedVars == <<search, ver, file, meta, index, stage, embedded, batch, stale, tainted, faults>>

Stages == {"off", "load", "init_truncate", "init_write", "embed", "append",
           "index_write", "clear_file", "clear_meta"}

NoFile  == [exists |-> 0, lines |-> <<>>, open |-> 0]
NoIndex == [state |-> "none", recs |-> {}, gen |-> 1, ver |-> 1, stale |-> 0, tainted |-> 0]

EmbedTypeOK ==
  /\ search \in SearchGens /\ ver \in Versions
  /\ file \in [exists : {0, 1}, lines : Seq(Line), open : {0, 1}]
  /\ meta \in Versions \cup {Missing, TornFile}
  /\ index \in [state : {"none", "torn", "whole"}, recs : SUBSET Record,
                gen : SearchGens, ver : Versions, stale : {0, 1}, tainted : {0, 1}]
  /\ stage \in Stages
  /\ embedded \in SUBSET Record
  /\ batch \in Seq(Record)
  /\ stale \in {0, 1} /\ tainted \in {0, 1}
  /\ faults \in 0..MaxFaults

EmbedInit ==
  /\ search = 1 /\ ver = 1
  /\ file = NoFile /\ meta = Missing /\ index = NoIndex
  /\ stage = "off" /\ embedded = {} /\ batch = <<>>
  /\ stale = 0 /\ tainted = 0 /\ faults = 0

-----------------------------------------------------------------------------
(* The checkpoint file.                                                    *)

UnitsIn(recs) == {r.unit : r \in recs}

Readable(lines) ==                                          \* mutant of Loadable
  {lines[i] : i \in {j \in DOMAIN lines : lines[j] # Bad}}

\* load_qwen_embedding_checkpoint: what is not JSON is skipped, and of several
\* records for one unit the first counts
Loadable(lines) ==
  {lines[i] : i \in {j \in DOMAIN lines :
     lines[j] # Bad /\ \A k \in 1..(j - 1) : lines[k].unit # lines[j].unit}}

\* text written after an unterminated line becomes part of that line
Glue(f, recs) ==
  IF f.open = 1 /\ recs # <<>>
    THEN SubSeq(f.lines, 1, Len(f.lines) - 1) \o <<Bad>> \o Tail(recs)
    ELSE f.lines \o recs

LastBad(lines) == [lines EXCEPT ![Len(lines)] = Bad]

-----------------------------------------------------------------------------
(* build_qwen_embedding_payload.                                           *)

Begin ==
  /\ stage = "off"
  /\ stage' = "load" /\ embedded' = {} /\ batch' = <<>>
  /\ UNCHANGED <<search, ver, file, meta, index, stale, tainted, faults>>

Foreign(lines) == \E i \in DOMAIN lines : lines[i] # Bad /\ lines[i].ver # ver

AnyMeta == file.exists = 1                                  \* mutant of Resumable
Resumable == file.exists = 1 /\ meta = ver

LoadStrict ==                                               \* mutant of Load
  /\ stage = "load"
  /\ embedded' = IF Resumable THEN Loadable(file.lines) ELSE {}
  /\ stage' = IF file.exists = 1 /\ meta # ver THEN "off" ELSE "init_truncate"
  /\ UNCHANGED <<search, ver, file, meta, index, batch, stale, tainted, faults>>
Load ==
  /\ stage = "load"
  /\ embedded' = IF Resumable THEN Loadable(file.lines) ELSE {}
  /\ tainted' = IF meta = ver /\ Foreign(file.lines) THEN 1 ELSE 0
  /\ stage' = "init_truncate"
  /\ UNCHANGED <<search, ver, file, meta, index, batch, stale, faults>>

\* initialize_qwen_embedding_checkpoint: open(meta, "w"), ...
InitTruncate ==
  /\ stage = "init_truncate"
  /\ meta' = TornFile /\ stage' = "init_write"
  /\ UNCHANGED <<search, ver, file, index, embedded, batch, stale, tainted, faults>>

\* ... dump, and touch of the records, which keeps what they hold
InitWrite ==
  /\ stage = "init_write"
  /\ meta' = ver
  /\ file' = [file EXCEPT !.exists = 1]
  /\ stage' = "embed"
  /\ UNCHANGED <<search, ver, index, embedded, batch, stale, tainted, faults>>

Remaining == UnitsOf[search] \ UnitsIn(embedded)

\* the next batch: the first BatchSize remaining units, in order
IsBatch(s) ==
  /\ s # <<>> /\ Len(s) <= BatchSize
  /\ \A i \in DOMAIN s : s[i] \in Remaining
  /\ \A i, j \in DOMAIN s : i < j => s[i] < s[j]
  /\ Len(s) < BatchSize => \A u \in Remaining : \E i \in DOMAIN s : s[i] = u
  /\ \A u \in Remaining : u < s[Len(s)] => \E i \in DOMAIN s : s[i] = u

Vectors(s) == [i \in DOMAIN s |-> [unit |-> s[i], gen |-> search, ver |-> ver]]

\* the provider answers with one vector per unit
EmbedBatch(s) ==
  /\ stage = "embed" /\ IsBatch(s)
  /\ batch' = Vectors(s) /\ stage' = "append"
  /\ UNCHANGED <<search, ver, file, meta, index, embedded, stale, tainted, faults>>

\* it fails, or answers with another number: the build raises
EmbedFails ==
  /\ stage = "embed" /\ Remaining # {}
  /\ faults < MaxFaults /\ faults' = faults + 1
  /\ stage' = "off"
  /\ UNCHANGED <<search, ver, file, meta, index, embedded, batch, stale, tainted>>

Batched == {batch[i] : i \in DOMAIN batch}

\* append_qwen_embedding_checkpoint up to the fsync, then extend
AppendBatch ==
  /\ stage = "append"
  /\ file' = [exists |-> 1, lines |-> Glue(file, batch), open |-> 0]
  /\ embedded' = embedded \cup Batched /\ batch' = <<>>
  /\ stage' = "embed"
  /\ UNCHANGED <<search, ver, meta, index, stale, tainted, faults>>

\* killed inside the append: k lines got out, the last perhaps not all of it
KilledInAppend ==
  /\ stage = "append" /\ faults < MaxFaults /\ faults' = faults + 1
  /\ \E k \in 1..Len(batch) :
       LET lines == Glue(file, SubSeq(batch, 1, k))
       IN  \/ file' = [exists |-> 1, lines |-> lines, open |-> 0]
           \/ file' = [exists |-> 1, lines |-> lines, open |-> 1]
           \/ file' = [exists |-> 1, lines |-> LastBad(lines), open |-> 1]
  /\ stage' = "off"
  /\ UNCHANGED <<search, ver, meta, index, embedded, batch, stale, tainted>>

-----------------------------------------------------------------------------
(* build_embedding_index, after the payload.                               *)

\* open("w") of embedding_index.json
IndexTruncate ==
  /\ stage = "embed" /\ Remaining = {}
  /\ index' = [NoIndex EXCEPT !.state = "torn"]
  /\ stage' = "index_write"
  /\ UNCHANGED <<search, ver, file, meta, embedded, batch, stale, tainted, faults>>

IndexWrite ==
  /\ stage = "index_write"
  /\ index' = [state |-> "whole", recs |-> embedded, gen |-> search, ver |-> ver,
              stale |-> stale, tainted |-> tainted]
  /\ stage' = "clear_file"
  /\ UNCHANGED <<search, ver, file, meta, embedded, batch, stale, tainted, faults>>

\* clear_qwen_embedding_checkpoint: one unlink per file
ClearFile ==
  /\ stage = "clear_file"
  /\ file' = NoFile /\ stale' = 0
  /\ stage' = "clear_meta"
  /\ UNCHANGED <<search, ver, meta, index, embedded, batch, tainted, faults>>

ClearMeta ==
  /\ stage = "clear_meta"
  /\ meta' = Missing /\ stage' = "off"
  /\ UNCHANGED <<search, ver, file, index, embedded, batch, stale, tainted, faults>>

Kill ==
  /\ stage # "off" /\ faults < MaxFaults /\ faults' = faults + 1
  /\ stage' = "off"
  /\ UNCHANGED <<search, ver, file, meta, index, embedded, batch, stale, tainted>>

-----------------------------------------------------------------------------
(* Between builds: build-search writes other documents, or the code is     *)
(* upgraded.  Neither touches the checkpoint.                              *)

RebuildSearch ==
  /\ stage = "off" /\ search < MaxSearch
  /\ search' = search + 1
  /\ stale' = IF file.exists = 1 THEN 1 ELSE stale
  /\ UNCHANGED <<ver, file, meta, index, stage, embedded, batch, tainted, faults>>

Upgrade ==
  /\ stage = "off" /\ ver < MaxVersion
  /\ ver' = ver + 1
  /\ UNCHANGED <<search, file, meta, index, stage, embedded, batch, stale, tainted, faults>>

Ascending == UNION {[1..n -> Units] : n \in 1..BatchSize}

BuildStep ==
  \/ Load \/ InitTruncate \/ InitWrite
  \/ \E s \in Ascending : EmbedBatch(s)
  \/ AppendBatch
  \/ IndexTruncate \/ IndexWrite \/ ClearFile \/ ClearMeta

EmbedNext ==
  \/ Begin \/ BuildStep
  \/ EmbedFails \/ KilledInAppend \/ Kill
  \/ RebuildSearch \/ Upgrade

EmbedSpec == EmbedInit /\ [][EmbedNext]_embedVars

(* The build's own steps all end; an operator whose build failed starts    *)
(* another.                                                                *)
FairEmbedSpec == EmbedSpec /\ WF_embedVars(BuildStep) /\ WF_embedVars(Begin)

-----------------------------------------------------------------------------
(* An index that can be read has exactly one vector for every unit of the  *)
(* documents it was built from, whatever was torn, glued, skipped or       *)
(* embedded twice on the way.                                              *)
ExactlyOnce ==
  index.state = "whole" =>
    /\ UnitsOf[index.gen] \subseteq UnitsIn(index.recs)
    /\ \A r, q \in index.recs : r.unit = q.unit => r = q

(* A resumed build does not mix: every vector of the index was made from   *)
(* the documents the build read, unless they were replaced while there was *)
(* a checkpoint, and under the build's settings, unless it resumed from a  *)
(* file an earlier build had initialised over records of other settings.   *)
ResumeDoesNotMix ==
  index.state = "whole" =>
    /\ index.stale = 0 => \A r \in index.recs : r.gen = index.gen
    /\ index.tainted = 0 => \A r \in index.recs : r.ver = index.ver

(* Builds finish: however often they failed, an index of the current       *)
(* documents is written again and again (each build truncates it first).   *)
EventuallyIndexed ==
  []<>(index.state = "whole" /\ index.gen = search /\ index.ver = ver)
=============================================================================
