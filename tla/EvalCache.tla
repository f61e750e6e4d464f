------------------------------ MODULE EvalCache ------------------------------
(***************************************************************************)
(* The cache of evaluation cases: export_benchmark_prompts and             *)
(* score_answer_bundles both get each case's answer bundle from            *)
(* load_or_build_cached_case, which fingerprints the artifacts, asks the   *)
(* cache database, and on a miss prepares a bundle and stores it.          *)
(*                                                                         *)
(* Commands are processes that interleave with each other and with         *)
(* rebuilds of the artifacts, and may be killed.  A transaction of the     *)
(* database is one step, and so is a rebuild.  A bundle is abstracted to   *)
(* its case, the generations of the artifacts it was prepared from and the *)
(* limit asked for.                                                        *)
(*                                                                         *)
(* A process opens the metadata and the graph once and keeps the handles   *)
(* (open_lmdb_env and open_database are cached): a rebuild replaces the    *)
(* files, and a handle goes on reading those that were deleted.  The       *)
(* lexical index is read by a new child each time, and the fingerprint     *)
(* looks at the files of index and graph but at the rows of the metadata.  *)
(***************************************************************************)
EXTENDS Integers, FiniteSets

CONSTANTS
  Proc,      \* commands that may run at the same time
  Case,      \* evaluation cases, in the order of NextCase
  NextCase,  \* NextCase[c]: the case after c, or NoCase
  FirstCase, NoCase,
  Limits,    \* values of --limit
  MaxGen,    \* bound: generations of the artifacts
  MaxStarts  \* bound: commands started

ASSUME CaseAssumption ==
  /\ FirstCase \in Case /\ NoCase \notin Case /\ NextCase \in [Case -> Case \cup {NoCase}]
ASSUME LimitAssumption == Limits # {} /\ Limits \subseteq Nat \ {0}
ASSUME BoundAssumption == MaxGen \in Nat \ {0} /\ MaxStarts \in Nat

Gens == 1..MaxGen
Fingerprint == [files : Gens, rows : Gens, limit : Limits]
Bundle      == [case : Case, search : Gens, meta : Gens, graph : Gens, limit : Limits]
Nothing     == [case |-> NoCase, search |-> 0, meta |-> 0, graph |-> 0, limit |-> 0]
NoPrint     == [files |-> 0, rows |-> 0, limit |-> 0]
Commands    == {"export", "score"}

VARIABLES
  art,     \* generation of the search, graph and metadata artifacts
  exact,   \* exact[c][f]: the bundle under case:<c>:<f>, or Nothing
  latest,  \* latest[c]: the bundle under latest:<c>, or Nothing
  prompt,  \* prompt_exports/<c>.json
  score,   \* what bundle_scores.json scores for c
  pc, cmd, limit, at,  \* of each process: its step, command, limit and case
  metaAt, graphAt,  \* of each process: generation its handle reads, or 0
  fp,      \* of each process: cache_fingerprint
  held,    \* of each process: the bundle it prepared or was served
  scored,  \* of each process: the scores it gathered
  raced,   \* cases two processes prepared at the same time (history)
  starts   \* commands started so far

cache == <<exact, latest>>
files == <<prompt, score>>
handles == <<metaAt, graphAt>>
local == <<cmd, limit, at, handles, fp, held, scored>>
vars  == <<art, cache, files, pc, local, raced, starts>>

PCs == {"off", "fingerprint", "lookup", "prepare", "put", "serve", "end"}

TypeOK ==
  /\ art \in Gens
  /\ exact \in [Case -> [Fingerprint -> Bundle \cup {Nothing}]]
  /\ latest \in [Case -> Bundle \cup {Nothing}]
  /\ prompt \in [Case -> Bundle \cup {Nothing}]
  /\ score \in [Case -> Bundle \cup {Nothing}]
  /\ pc \in [Proc -> PCs] /\ cmd \in [Proc -> Commands] /\ limit \in [Proc -> Limits \cup {0}]
  /\ at \in [Proc -> Case \cup {NoCase}]
  /\ metaAt \in [Proc -> Gens \cup {0}] /\ graphAt \in [Proc -> Gens \cup {0}]
  /\ fp \in [Proc -> Fingerprint \cup {NoPrint}]
  /\ held \in [Proc -> Bundle \cup {Nothing}]
  /\ scored \in [Proc -> [Case -> Bundle \cup {Nothing}]]
  /\ raced \in SUBSET Case /\ starts \in 0..MaxStarts

Init ==
  /\ art = 1
  /\ exact = [c \in Case |-> [f \in Fingerprint |-> Nothing]]
  /\ latest = [c \in Case |-> Nothing]
  /\ prompt = [c \in Case |-> Nothing] /\ score = [c \in Case |-> Nothing]
  /\ pc = [p \in Proc |-> "off"] /\ cmd = [p \in Proc |-> "export"]
  /\ limit = [p \in Proc |-> 0]
  /\ at = [p \in Proc |-> NoCase] /\ fp = [p \in Proc |-> NoPrint]
  /\ metaAt = [p \in Proc |-> 0] /\ graphAt = [p \in Proc |-> 0]
  /\ held = [p \in Proc |-> Nothing]
  /\ scored = [p \in Proc |-> [c \in Case |-> Nothing]]
  /\ raced = {} /\ starts = 0

\* the memory of a command goes with it
Forget(p) ==
  /\ cmd' = [cmd EXCEPT ![p] = "export"] /\ limit' = [limit EXCEPT ![p] = 0]
  /\ at' = [at EXCEPT ![p] = NoCase] /\ fp' = [fp EXCEPT ![p] = NoPrint]
  /\ metaAt' = [metaAt EXCEPT ![p] = 0] /\ graphAt' = [graphAt EXCEPT ![p] = 0]
  /\ held' = [held EXCEPT ![p] = Nothing]
  /\ scored' = [scored EXCEPT ![p] = [c \in Case |-> Nothing]]

Goto(p, l) == pc' = [pc EXCEPT ![p] = l]

-----------------------------------------------------------------------------
(* load_or_build_cached_case                                               *)

\* a cached handle, opened when it is first needed
Opened(h, p) == IF h[p] = 0 THEN art ELSE h[p]

FreshRows(p) == art                                          \* mutant of Rows
\* LmdbMetadataStore.artifact_fingerprint: the rows its handle reads
Rows(p) == Opened(metaAt, p)

Fingerprinted(p) ==
  /\ pc[p] = "fingerprint"
  /\ metaAt' = [metaAt EXCEPT ![p] = Opened(metaAt, p)]
  /\ fp' = [fp EXCEPT ![p] = [files |-> art, rows |-> Rows(p), limit |-> limit[p]]]
  /\ Goto(p, "lookup")
  /\ UNCHANGED <<art, cache, files, cmd, limit, at, graphAt, held, scored, raced, starts>>

ExactOnly(c, f) == exact[c][f]                                \* mutant of Found
\* get_eval_case: the entry of the fingerprint, else the latest of the case
Found(c, f) == IF exact[c][f] # Nothing THEN exact[c][f] ELSE latest[c]

Preparing(p, c) == pc[p] \in {"prepare", "put"} /\ at[p] = c

Lookup(p) ==
  /\ pc[p] = "lookup"
  /\ held' = [held EXCEPT ![p] = Found(at[p], fp[p])]
  /\ IF Found(at[p], fp[p]) # Nothing
       THEN Goto(p, "serve") /\ UNCHANGED raced
       ELSE /\ Goto(p, "prepare")
            /\ raced' = IF \E q \in Proc : Preparing(q, at[p]) THEN raced \cup {at[p]} ELSE raced
  /\ UNCHANGED <<art, cache, files, cmd, limit, at, handles, fp, scored, starts>>

Prepared(p) ==
  [case |-> at[p], search |-> art, meta |-> metaAt[p], graph |-> Opened(graphAt, p), limit |-> limit[p]]

Prepare(p) ==
  /\ pc[p] = "prepare"
  /\ graphAt' = [graphAt EXCEPT ![p] = Opened(graphAt, p)]
  /\ held' = [held EXCEPT ![p] = Prepared(p)]
  /\ Goto(p, "put")
  /\ UNCHANGED <<art, cache, files, cmd, limit, at, metaAt, fp, scored, raced, starts>>

\* put_eval_case: both keys in one transaction
Put(p) ==
  /\ pc[p] = "put"
  /\ exact' = [exact EXCEPT ![at[p]][fp[p]] = held[p]]
  /\ latest' = [latest EXCEPT ![at[p]] = held[p]]
  /\ Goto(p, "serve")
  /\ UNCHANGED <<art, files, local, raced, starts>>

-----------------------------------------------------------------------------
(* The two commands, case after case.                                      *)

Start(p, c, l) ==
  /\ pc[p] = "off" /\ starts < MaxStarts /\ starts' = starts + 1
  /\ cmd' = [cmd EXCEPT ![p] = c] /\ limit' = [limit EXCEPT ![p] = l]
  /\ at' = [at EXCEPT ![p] = FirstCase]
  /\ Goto(p, "fingerprint")
  /\ UNCHANGED <<art, cache, files, handles, fp, held, scored, raced>>

\* an export writes the case's prompt at once, a score is kept for the end
Serve(p) ==
  /\ pc[p] = "serve"
  /\ IF cmd[p] = "export"
       THEN prompt' = [prompt EXCEPT ![at[p]] = held[p]] /\ UNCHANGED scored
       ELSE scored' = [scored EXCEPT ![p][at[p]] = held[p]] /\ UNCHANGED prompt
  /\ at' = [at EXCEPT ![p] = NextCase[at[p]]]
  /\ held' = [held EXCEPT ![p] = Nothing] /\ fp' = [fp EXCEPT ![p] = NoPrint]
  /\ Goto(p, IF NextCase[at[p]] = NoCase THEN "end" ELSE "fingerprint")
  /\ UNCHANGED <<art, cache, score, cmd, limit, handles, raced, starts>>

End(p) ==
  /\ pc[p] = "end"
  /\ score' = IF cmd[p] = "score" THEN scored[p] ELSE score
  /\ Forget(p) /\ Goto(p, "off")
  /\ UNCHANGED <<art, cache, prompt, raced, starts>>

Kill(p) ==
  /\ pc[p] # "off"
  /\ Forget(p) /\ Goto(p, "off")
  /\ UNCHANGED <<art, cache, files, raced, starts>>

Rebuild ==
  /\ art < MaxGen /\ art' = art + 1
  /\ UNCHANGED <<cache, files, pc, local, raced, starts>>

Next ==
  \/ Rebuild
  \/ \E p \in Proc :
       \/ \E c \in Commands, l \in Limits : Start(p, c, l)
       \/ Fingerprinted(p) \/ Lookup(p) \/ Prepare(p) \/ Put(p)
       \/ Serve(p) \/ End(p) \/ Kill(p)

Spec == Init /\ [][Next]_vars

-----------------------------------------------------------------------------
(* The bundle scored is the bundle the prompt was exported with: a score   *)
(* never judges an answer by other evidence than it was given, whatever    *)
(* was rebuilt, killed or asked with another limit in between (what        *)
(* test_prompt_export_and_bundle_scoring_are_stable relies on), unless two *)
(* commands prepared the case at the same time.                            *)
ScoreMatchesPrompt ==
  \A c \in Case \ raced :
    prompt[c] # Nothing /\ score[c] # Nothing => score[c] = prompt[c]

(* An entry is never older than its fingerprint says, in any of its parts, *)
(* if the fingerprint names one generation: a rebuild during the           *)
(* preparation makes it newer.  A process that kept its handles over a     *)
(* rebuild prepares from a mixture, and the fingerprint shows it: rows and *)
(* files differ, as no process that starts afterwards finds them.          *)
EntryNotOlder ==
  \A c \in Case, f \in Fingerprint :
    LET b == exact[c][f] IN
    b # Nothing =>
      /\ b.case = c /\ b.limit = f.limit
      /\ b.meta = f.rows /\ b.search >= f.files
      /\ f.rows = f.files => b.graph >= f.files
=============================================================================
