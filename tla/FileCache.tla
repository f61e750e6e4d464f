------------------------------ MODULE FileCache ------------------------------
(***************************************************************************)
(* The per-file cache of build_symbol_index: the workspace manifests are   *)
(* read first, then each source file is read, keyed by the hash of its     *)
(* text and the modification times of itself and of its manifest, and      *)
(* either taken from the cache or parsed, which reads it a second time,    *)
(* and written to the cache.                                               *)
(*                                                                         *)
(* The tree is not locked: sources and manifest are edited, removed and    *)
(* restored between any two reads, and a build may be killed anywhere.     *)
(* The files belong to one package.  A text stands for everything it       *)
(* parses to: what the optional backends add is the same for one text, and *)
(* texts have one size, so that the size in the key tells nothing apart.   *)
(* No edit keeps or repeats a modification time.                           *)
(***************************************************************************)
EXTENDS Integers

CONSTANTS
  N,          \* source files are 1..N, in the order of discover_rust_files
  Text,       \* texts a source may have
  Crate,      \* crate names the manifest may give
  MaxEdits,   \* bound: changes of the tree
  MaxBuilds   \* bound: builds started

ASSUME NAssumption == N \in Nat \ {0}
ASSUME NonEmpty == Text # {} /\ Crate # {}
ASSUME BoundAssumption == MaxEdits \in Nat /\ MaxBuilds \in Nat
ASSUME SentinelAssumption == "absent" \notin Text \cup Crate

File  == 1..N
Time  == 0..MaxEdits
Gone  == "absent"

Key    == [text : Text, mtime : Time, manifest : Time]
Parsed == [text : Text, crate : Crate]
Entry  == [key : Key, parsed : Parsed, seen : Time]
NoFile == [entry |-> "none"]
Torn   == [entry |-> "torn"]
NoContext == [source |-> Gone]
Context   == [source : Text, parsed : Parsed]

VARIABLES
  text,      \* text[f] of the tree, or Gone
  mtime,     \* modification time of each source
  crate,     \* crate name in the manifest
  ctime,     \* modification time of the manifest
  clock,     \* changes of the tree so far: every change has a time of its own
  cache,     \* file-cache/<f>.json; seen in it is history
  pc,
  todo, cur, \* rust_files still to come, and the one being loaded or parsed
  pkg, seen, \* the crate name in workspace_index, and the manifest's time then
  src, key,  \* the first read of the file, and its cache_key
  made,      \* the context parsed for it
  contexts,  \* contexts of the files before cur
  quiet,     \* the tree has not changed since the build started (history)
  settled,   \* nor since a quiet build completed (history)
  builds

tree  == <<text, mtime, crate, ctime, clock>>
local == <<todo, cur, pkg, seen, src, key, made, contexts>>
vars  == <<tree, cache, pc, local, quiet, settled, builds>>

PCs == {"off", "manifests", "read", "key", "load", "parse", "truncate", "write",
        "next", "done"}

AnyText  == CHOOSE t \in Text : TRUE
AnyCrate == CHOOSE c \in Crate : TRUE
NoKey    == [text |-> AnyText, mtime |-> 0, manifest |-> 0]
NoMade   == [source |-> AnyText, parsed |-> [text |-> AnyText, crate |-> AnyCrate]]

TypeOK ==
  /\ text \in [File -> Text \cup {Gone}]
  /\ mtime \in [File -> Time]
  /\ crate \in Crate /\ ctime \in Time /\ clock \in Time
  /\ cache \in [File -> Entry \cup {NoFile, Torn}]
  /\ pc \in PCs /\ todo \in SUBSET File /\ cur \in File
  /\ pkg \in Crate /\ seen \in Time
  /\ src \in Text /\ key \in Key /\ made \in Context
  /\ contexts \in [File -> Context \cup {NoContext}]
  /\ quiet \in {0, 1} /\ settled \in {0, 1}
  /\ builds \in 0..MaxBuilds

Init ==
  /\ text \in [File -> Text] /\ mtime = [f \in File |-> 0]
  /\ crate \in Crate /\ ctime = 0 /\ clock = 0
  /\ cache = [f \in File |-> NoFile]
  /\ pc = "off" /\ todo = {} /\ cur = 1 /\ pkg = AnyCrate /\ seen = 0
  /\ src = AnyText /\ key = NoKey /\ made = NoMade
  /\ contexts = [f \in File |-> NoContext]
  /\ quiet = 0 /\ settled = 0 /\ builds = 0

-----------------------------------------------------------------------------
(* build_symbol_index.                                                     *)

Start ==
  /\ pc = "off" /\ builds < MaxBuilds /\ builds' = builds + 1
  /\ pc' = "manifests" /\ quiet' = 1
  /\ contexts' = [f \in File |-> NoContext]
  /\ UNCHANGED <<tree, cache, todo, cur, pkg, seen, src, key, made, settled>>

\* build_workspace_index, discover_rust_files
ReadManifests ==
  /\ pc = "manifests"
  /\ pkg' = crate /\ seen' = ctime
  /\ todo' = {f \in File : text[f] # Gone}
  /\ pc' = "next"
  /\ UNCHANGED <<tree, cache, cur, src, key, made, contexts, quiet, settled, builds>>

\* the loop of build_symbol_index, in order
NextFile(f) ==
  /\ pc = "next" /\ f \in todo /\ \A g \in todo : f <= g
  /\ cur' = f /\ todo' = todo \ {f}
  /\ pc' = "read"
  /\ UNCHANGED <<tree, cache, pkg, seen, src, key, made, contexts, quiet, settled, builds>>

Readable(f) == text[f] # Gone

\* a file found is gone: read_text or stat raises, the build ends
Raise ==
  /\ pc \in {"read", "key", "parse"} /\ ~Readable(cur)
  /\ pc' = "off"
  /\ UNCHANGED <<tree, cache, local, quiet, settled, builds>>

ReadSource ==
  /\ pc = "read" /\ Readable(cur)
  /\ src' = text[cur] /\ pc' = "key"
  /\ UNCHANGED <<tree, cache, todo, cur, pkg, seen, key, made, contexts, quiet, settled, builds>>

ContentKey(f, t) ==                                          \* mutant of CacheKey
  [text |-> t, mtime |-> 0, manifest |-> ctime]
SourceKey(f, t) ==                                           \* mutant of CacheKey
  [text |-> t, mtime |-> mtime[f], manifest |-> 0]
\* build_file_cache_key
CacheKey(f, t) == [text |-> t, mtime |-> mtime[f], manifest |-> ctime]

TakeKey ==
  /\ pc = "key" /\ Readable(cur)
  /\ key' = CacheKey(cur, src) /\ pc' = "load"
  /\ UNCHANGED <<tree, cache, todo, cur, pkg, seen, src, made, contexts, quiet, settled, builds>>

FlatSlot(f) == 1                                             \* mutant of Slot
\* file_cache_path
Slot(f) == f

\* load_cached_file_context
Hit == cache[Slot(cur)] \in Entry /\ cache[Slot(cur)].key = key

LoadCached ==
  /\ pc = "load"
  /\ IF Hit
       THEN /\ contexts' = [contexts EXCEPT ![cur] =
                              [source |-> src, parsed |-> cache[Slot(cur)].parsed]]
            /\ pc' = "next"
       ELSE pc' = "parse" /\ UNCHANGED contexts
  /\ UNCHANGED <<tree, cache, todo, cur, pkg, seen, src, key, made, quiet, settled, builds>>

FirstRead ==                                                 \* mutant of Made
  [source |-> src, parsed |-> [text |-> text[cur], crate |-> pkg]]
\* parse_rust_source_file reads the file again
Made == [source |-> text[cur], parsed |-> [text |-> text[cur], crate |-> pkg]]

Parse ==
  /\ pc = "parse" /\ Readable(cur)
  /\ made' = Made /\ pc' = "truncate"
  /\ UNCHANGED <<tree, cache, todo, cur, pkg, seen, src, key, contexts, quiet, settled, builds>>

\* write_cached_file_context: open, ...
WriteTruncate ==
  /\ pc = "truncate"
  /\ cache' = [cache EXCEPT ![Slot(cur)] = Torn] /\ pc' = "write"
  /\ UNCHANGED <<tree, local, quiet, settled, builds>>

\* ... write
WriteEntry ==
  /\ pc = "write"
  /\ cache' = [cache EXCEPT ![Slot(cur)] = [key |-> key, parsed |-> made.parsed, seen |-> seen]]
  /\ contexts' = [contexts EXCEPT ![cur] = made]
  /\ pc' = "next"
  /\ UNCHANGED <<tree, todo, cur, pkg, seen, src, key, made, quiet, settled, builds>>

Finish ==
  /\ pc = "next" /\ todo = {}
  /\ pc' = "done" /\ settled' = quiet
  /\ UNCHANGED <<tree, cache, local, quiet, builds>>

\* the index is handed on, or the build is killed at any point
End ==
  /\ pc # "off" /\ pc' = "off"
  /\ UNCHANGED <<tree, cache, local, quiet, settled, builds>>

-----------------------------------------------------------------------------
(* The tree changes.                                                       *)

Tick == clock < MaxEdits /\ clock' = clock + 1 /\ quiet' = 0 /\ settled' = 0

EditSource(f, t) ==
  /\ Tick /\ (text[f] # Gone \/ t # Gone)
  /\ text' = [text EXCEPT ![f] = t] /\ mtime' = [mtime EXCEPT ![f] = clock']
  /\ UNCHANGED <<crate, ctime, cache, pc, local, builds>>

EditManifest(c) ==
  /\ Tick
  /\ crate' = c /\ ctime' = clock'
  /\ UNCHANGED <<text, mtime, cache, pc, local, builds>>

Next ==
  \/ Start \/ ReadManifests \/ Raise \/ ReadSource \/ TakeKey \/ LoadCached
  \/ Parse \/ WriteTruncate \/ WriteEntry \/ Finish \/ End
  \/ \E f \in File : NextFile(f) \/ \E t \in Text \cup {Gone} : EditSource(f, t)
  \/ \E c \in Crate : EditManifest(c)

Spec == Init /\ [][Next]_vars

-----------------------------------------------------------------------------
Whole(f) == cache[f] \in Entry

(* An entry that the file as it stands would hit was parsed from the text  *)
(* it stands for: no order of edits, reverts and reads makes an entry lie, *)
(* although the text hashed and the text parsed are two reads.             *)
CacheNeverLies ==
  \A f \in File :
    Whole(f) /\ text[f] # Gone /\ cache[f].key = CacheKey(f, text[f])
      => cache[f].parsed.text = text[f]

(* The symbols a build takes over, cached or not, are those of the lines   *)
(* it keeps next to them: spans always index the text they were made from. *)
SourceMatchesSymbols ==
  \A f \in File :
    contexts[f] # NoContext => contexts[f].parsed.text = contexts[f].source

(* A build during which the tree does not change describes the tree, but   *)
(* for the crate name of entries an earlier build wrote after the manifest *)
(* it had read changed: their key has the time of the new manifest.        *)
QuietBuildIsFresh ==
  pc = "done" /\ quiet = 1 =>
    \A f \in File : text[f] # Gone =>
      /\ contexts[f] # NoContext /\ contexts[f].parsed.text = text[f]
      /\ Whole(f)
      /\ cache[f].seen = cache[f].key.manifest => contexts[f].parsed.crate = crate

(* After a build of an unchanging tree another one parses nothing, whatever *)
(* was killed or torn before (test_build_symbol_index_reuses_cached_file_   *)
(* results, for one file and two builds).                                  *)
ReuseWorks == settled = 1 => pc # "parse"
=============================================================================
