----------------------------- MODULE NativeWorker -----------------------------
(***************************************************************************)
(* The native worker: every lexical query, listing and build of the search *)
(* index is a child process of a Rust binary that ensure_native_binary     *)
(* compiles when a source is newer than it.  A failed compilation leaves a *)
(* marker that disables the worker until a source changes, and a reason in *)
(* the memory of the process.                                              *)
(*                                                                         *)
(* Processes list the documents page by page or rebuild the index, while   *)
(* the sources are edited.  Each read or write of the file system is one   *)
(* step.  cargo is external: it holds a lock while it compiles, and        *)
(* compiles nothing when its own records say the binary is fresh.  So is   *)
(* Tantivy: an index that was created is open to readers, and empty until  *)
(* the first commit; merges of segments may put its documents in another   *)
(* order until the writer has waited for them.                             *)
(***************************************************************************)
EXTENDS Integers, Sequences, FiniteSets

CONSTANTS
  Proc,       \* processes that use the worker
  Sizes,      \* numbers of documents a build may find
  BatchSize,  \* LIST_DOCS_BATCH_SIZE
  MaxEdits, MaxFaults, MaxStarts, MaxGen  \* bounds: edits of the sources,
                                          \* faults, jobs, contents of the index

ASSUME SizeAssumption == Sizes # {} /\ Sizes \subseteq Nat /\ BatchSize \in Nat \ {0}
ASSUME BoundAssumption ==
  MaxEdits \in Nat /\ MaxFaults \in Nat /\ MaxStarts \in Nat /\ MaxGen \in Nat

NoBinary == [ver |-> 0, from |-> 0, time |-> 0, torn |-> 0]
NoMarker == [time |-> 0, ver |-> 0, torn |-> 0]

VARIABLES
  src, sound,  \* version of the sources, and whether it compiles
  srcTime,     \* latest_native_source_mtime
  clock,
  binary,      \* what the binary was compiled from, when its compilation
               \* began and ended, and whether a source was edited meanwhile
  marker,      \* .build_failed.json: source_mtime, and what failed (history)
  index,       \* the Tantivy directory: state, how many contents it has had
               \* (each in an order of its own), documents
  pc, job,
  disabled,    \* of each process: _NATIVE_DISABLED_REASON is set
  look,        \* of each process: manifest_mtime and the version it saw (history)
  made,        \* of each process: what it is compiling
  offset, got, \* of each process: the next page and the documents so far
  seen,        \* of each process: contents its pages were read from (history)
  starts, faults

tree  == <<src, sound, srcTime, clock>>
local == <<pc, job, disabled, look, made, offset, got, seen>>
vars  == <<tree, binary, marker, index, local, starts, faults>>

States == {"absent", "cleared", "created", "ready"}
PCs == {"off", "begin", "ready", "stat", "compare", "clear", "lock", "compile", "mark", "run",
        "create", "commit", "merge", "listed"}

TypeOK ==
  /\ src \in 1..(MaxEdits + 1) /\ sound \in {0, 1} /\ srcTime \in 1..clock /\ clock \in Nat
  /\ binary \in [ver : 0..src, from : 0..clock, time : 0..clock, torn : {0, 1}]
  /\ marker \in [time : 0..clock, ver : 0..src, torn : {0, 1}]
  /\ index \in [state : States, gen : 0..MaxGen, docs : Sizes \cup {0}]
  /\ pc \in [Proc -> PCs] /\ job \in [Proc -> {"list", "build"}]
  /\ disabled \in [Proc -> {0, 1}]
  /\ look \in [Proc -> [time : 0..clock, ver : 0..src]]
  /\ made \in [Proc -> [ver : 0..src, from : 0..clock, torn : {0, 1}]]
  /\ offset \in [Proc -> Nat] /\ got \in [Proc -> Seq((0..MaxGen) \X Nat)]
  /\ seen \in [Proc -> SUBSET (0..MaxGen)]
  /\ starts \in 0..MaxStarts /\ faults \in 0..MaxFaults

Unlooked == [time |-> 0, ver |-> 0]
Unmade == [ver |-> 0, from |-> 0, torn |-> 0]

Init ==
  /\ src = 1 /\ sound \in {0, 1} /\ srcTime = 1 /\ clock = 1
  /\ binary = NoBinary /\ marker = NoMarker
  /\ \E n \in Sizes : index \in {[state |-> "absent", gen |-> 0, docs |-> 0],
                                [state |-> "ready", gen |-> 0, docs |-> n]}
  /\ pc = [p \in Proc |-> "off"] /\ job = [p \in Proc |-> "list"]
  /\ disabled = [p \in Proc |-> 0]
  /\ look = [p \in Proc |-> Unlooked] /\ made = [p \in Proc |-> Unmade]
  /\ offset = [p \in Proc |-> 0] /\ got = [p \in Proc |-> << >>]
  /\ seen = [p \in Proc |-> {}]
  /\ starts = 0 /\ faults = 0

Goto(p, l) == pc' = [pc EXCEPT ![p] = l]

\* the job ends, with its answer or with an exception
Exit(p) ==
  /\ Goto(p, "off")
  /\ job' = [job EXCEPT ![p] = "list"]
  /\ look' = [look EXCEPT ![p] = Unlooked] /\ made' = [made EXCEPT ![p] = Unmade]
  /\ offset' = [offset EXCEPT ![p] = 0] /\ got' = [got EXCEPT ![p] = << >>]
  /\ seen' = [seen EXCEPT ![p] = {}]

Outside == <<tree, binary, marker, index, starts, faults>>

-----------------------------------------------------------------------------
(* ensure_native_binary.                                                   *)

Forever(t) == t # 0                                          \* mutant of Blocks
\* persisted_failure_reason: a marker of older sources counts for nothing
Blocks(t) == t # 0 /\ t >= srcTime

\* native_worker_available
Available(p) ==
  /\ pc[p] = "ready" /\ disabled[p] = 0 /\ ~Blocks(marker.time)
  /\ Goto(p, "stat")
  /\ UNCHANGED <<Outside, job, disabled, look, made, offset, got, seen>>

\* a listing raises; build-search skips the index
Unavailable(p) ==
  /\ pc[p] = "ready" /\ (disabled[p] = 1 \/ Blocks(marker.time))
  /\ Exit(p)
  /\ UNCHANGED <<Outside, disabled>>

Stat(p) ==
  /\ pc[p] = "stat"
  /\ look' = [look EXCEPT ![p] = [time |-> srcTime, ver |-> src]]
  /\ Goto(p, "compare")
  /\ UNCHANGED <<Outside, job, disabled, made, offset, got, seen>>

AnyBinary(p) == binary.ver # 0                               \* mutant of Fresh
Fresh(p) == binary.ver # 0 /\ binary.time >= look[p].time

Compare(p) ==
  /\ pc[p] = "compare"
  /\ Goto(p, IF Fresh(p) THEN "clear" ELSE "lock")
  /\ UNCHANGED <<Outside, job, disabled, look, made, offset, got, seen>>

\* cargo build: the sources are read when the lock is taken
Compile(p) ==
  /\ pc[p] = "lock" /\ \A q \in Proc : pc[q] # "compile"
  /\ IF binary.ver # 0 /\ binary.from >= srcTime
       THEN Goto(p, "clear") /\ UNCHANGED made
       ELSE /\ Goto(p, "compile")
            /\ made' = [made EXCEPT ![p] = [ver |-> src, from |-> clock, torn |-> 0]]
  /\ UNCHANGED <<Outside, job, disabled, look, offset, got, seen>>

Compiled(p) ==
  /\ pc[p] = "compile" /\ sound = 1
  /\ clock' = clock + 1
  /\ binary' = [ver |-> made[p].ver, from |-> made[p].from, time |-> clock + 1, torn |-> made[p].torn]
  /\ Goto(p, "clear")
  /\ UNCHANGED <<src, sound, srcTime, marker, index, job, disabled, look, made, offset, got, seen,
                 starts, faults>>

\* bad sources, or (a fault) a full disk or a registry that does not answer
CompileFails(p) ==
  /\ pc[p] = "compile"
  /\ \/ sound = 0 /\ UNCHANGED faults
     \/ sound = 1 /\ faults < MaxFaults /\ faults' = faults + 1
  /\ disabled' = [disabled EXCEPT ![p] = 1]
  /\ Goto(p, "mark")
  /\ UNCHANGED <<tree, binary, marker, index, job, look, made, offset, got, seen, starts>>

\* write_failure_marker takes the time of the sources now
Mark(p) ==
  /\ pc[p] = "mark"
  /\ marker' = [time |-> srcTime, ver |-> made[p].ver, torn |-> made[p].torn]
  /\ Exit(p)
  /\ UNCHANGED <<tree, binary, index, disabled, starts, faults>>

\* clear_failure_marker
Clear(p) ==
  /\ pc[p] = "clear"
  /\ marker' = NoMarker
  /\ Goto(p, "run")
  /\ UNCHANGED <<tree, binary, index, job, disabled, look, made, offset, got, seen, starts, faults>>

-----------------------------------------------------------------------------
(* run_native_json: the child, and what its caller does with its answer.   *)

PastNext(p, n) == offset[p] + n + 1                          \* mutant of NextOffset
NextOffset(p, n) == offset[p] + n

\* Index::open_in_dir succeeds, on an index without a commit too
Openable == index.state \in {"created", "ready"}

\* list_bm25_docs, and one turn of iter_search_documents: an empty page ends
\* the listing, whatever the pages before it announced
Page(p) ==
  /\ pc[p] = "run" /\ job[p] = "list" /\ Openable
  /\ LET last == IF offset[p] + BatchSize < index.docs THEN offset[p] + BatchSize ELSE index.docs
         page == [i \in 1..(last - offset[p]) |-> <<index.gen, offset[p] + i>>]
         more == last < index.docs
     IN  /\ got' = [got EXCEPT ![p] = @ \o page]
         /\ seen' = [seen EXCEPT ![p] = @ \cup {index.gen}]
         /\ offset' = [offset EXCEPT ![p] = NextOffset(p, Len(page))]
         /\ Goto(p, IF page # << >> /\ more THEN "ready" ELSE "listed")
  /\ UNCHANGED <<Outside, job, disabled, look, made>>

\* the index cannot be opened: the child fails and its caller raises
PageFails(p) ==
  /\ pc[p] = "run" /\ job[p] = "list" /\ ~Openable
  /\ Exit(p)
  /\ UNCHANGED <<Outside, disabled>>

Listed(p) ==
  /\ pc[p] = "listed"
  /\ Exit(p)
  /\ UNCHANGED <<Outside, disabled>>

\* build_bm25: the directory is removed, an index created in it and filled,
\* and the merges are waited for
BuildStep(p, at, next) ==
  /\ pc[p] = at /\ job[p] = "build" /\ Goto(p, next)
  /\ UNCHANGED <<tree, binary, marker, job, disabled, look, made, offset, got, seen, starts, faults>>

RemoveDir(p) ==
  /\ BuildStep(p, "run", "create") /\ index.gen + 1 < MaxGen
  /\ index' = [state |-> "cleared", gen |-> index.gen + 1, docs |-> 0]

CreateIndex(p) ==
  /\ BuildStep(p, "create", "commit")
  /\ index' = [index EXCEPT !.state = "created"]

Commit(p) ==
  /\ BuildStep(p, "commit", "merge")
  /\ \E n \in Sizes : index' = [state |-> "ready", gen |-> index.gen + 1, docs |-> n]

MergeSegments(p) ==
  /\ BuildStep(p, "merge", "merge") /\ index.gen < MaxGen
  /\ index' = [index EXCEPT !.gen = @ + 1]

Merged(p) ==
  /\ pc[p] = "merge"
  /\ Exit(p)
  /\ UNCHANGED <<Outside, disabled>>

\* (a fault) the child fails or is killed, and its caller raises
ChildFails(p) ==
  /\ pc[p] \in {"run", "create", "commit", "merge"} /\ faults < MaxFaults /\ faults' = faults + 1
  /\ Exit(p)
  /\ UNCHANGED <<tree, binary, marker, index, disabled, starts>>

-----------------------------------------------------------------------------
(* Jobs, edits and kills.  Two builds of one repository do not overlap.    *)

Start(p, j) ==
  /\ pc[p] = "off" /\ starts < MaxStarts /\ starts' = starts + 1
  /\ j = "build" => index.gen + 1 < MaxGen /\ \A q \in Proc : job[q] = "list"
  /\ job' = [job EXCEPT ![p] = j]
  /\ Goto(p, "begin")
  /\ UNCHANGED <<tree, binary, marker, index, disabled, look, made, offset, got, seen, faults>>

\* iter_search_documents: no directory, no documents; a build that has removed
\* the directory may or may not have made it again
Begin(p) ==
  /\ pc[p] = "begin"
  /\ \/ (job[p] = "build" \/ index.state # "absent") /\ Goto(p, "ready")
     \/ job[p] = "list" /\ index.state \in {"absent", "cleared"} /\ Goto(p, "listed")
  /\ UNCHANGED <<Outside, job, disabled, look, made, offset, got, seen>>

Edit(s) ==
  /\ src <= MaxEdits
  /\ src' = src + 1 /\ sound' = s /\ clock' = clock + 1 /\ srcTime' = clock + 1
  /\ made' = [p \in Proc |-> IF pc[p] \in {"compile", "mark"} THEN [made[p] EXCEPT !.torn = 1] ELSE made[p]]
  /\ UNCHANGED <<binary, marker, index, pc, job, disabled, look, offset, got, seen, starts, faults>>

Kill(p) ==
  /\ pc[p] # "off" /\ faults < MaxFaults /\ faults' = faults + 1
  /\ Exit(p) /\ disabled' = [disabled EXCEPT ![p] = 0]
  /\ UNCHANGED <<tree, binary, marker, index, starts>>

\* a process that was told of a failure stays without the worker until it ends
Quit(p) ==
  /\ pc[p] = "off" /\ disabled[p] = 1
  /\ disabled' = [disabled EXCEPT ![p] = 0]
  /\ UNCHANGED <<Outside, pc, job, look, made, offset, got, seen>>

Step(p) ==
  \/ Begin(p) \/ Available(p) \/ Unavailable(p) \/ Stat(p) \/ Compare(p)
  \/ Compile(p) \/ Compiled(p) \/ CompileFails(p) \/ Mark(p) \/ Clear(p)
  \/ Page(p) \/ PageFails(p) \/ Listed(p) \/ ChildFails(p)
  \/ RemoveDir(p) \/ CreateIndex(p) \/ Commit(p) \/ MergeSegments(p) \/ Merged(p)

Next ==
  \/ \E s \in {0, 1} : Edit(s)
  \/ \E p \in Proc : Step(p) \/ Kill(p) \/ Quit(p) \/ (\E j \in {"list", "build"} : Start(p, j))

Spec == Init /\ [][Next]_vars

-----------------------------------------------------------------------------
(* A child never runs code older than the sources its caller looked at,    *)
(* whoever compiles at the same time and whatever is edited: unless the    *)
(* binary comes from a compilation during which a source was edited, which *)
(* the comparison of times cannot tell from a fresh one.                   *)
ServedIsCurrent ==
  \A p \in Proc : pc[p] = "run" => binary.ver >= look[p].ver \/ binary.torn = 1

(* A marker that keeps the worker disabled is about the sources as they    *)
(* are: no repaired source is blocked by the failure of an older one,      *)
(* unless it was repaired before the failure was written down.             *)
MarkerIsDeserved ==
  Blocks(marker.time) => marker.ver = src \/ marker.torn = 1

(* A listing whose pages are all of the index as it still is yields every  *)
(* document of it once and in order, although each page is read by another *)
(* process, which may have been compiled in between.  A page read before   *)
(* or within a rebuild is not of the index that comes of it: the index     *)
(* that is created is open, and empty until it is committed, so a listing  *)
(* that meets it ends there, short and without an error; so does every     *)
(* listing after a build that was killed before its commit, which finds no *)
(* documents in an index that has none.  One that finds no directory reads *)
(* no page.                                                                *)
ListingExact ==
  \A p \in Proc :
    pc[p] = "listed" /\ seen[p] = {index.gen} =>
      got[p] = [i \in 1..index.docs |-> <<index.gen, i>>]
=============================================================================
