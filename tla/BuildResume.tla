---------------------------- MODULE BuildResume ----------------------------
(***************************************************************************)
(* scripts/build_index.sh without --repo: the resumable loop that builds   *)
(* the index of every raw inventory, in sorted order, and keeps one        *)
(* checkpoint row per repository in a SQLite table.                        *)
(*                                                                         *)
(* One instance of the script runs at a time (nothing in the script        *)
(* enforces it).  Around it the environment re-parses inventories, runs    *)
(* the bypass (`--repo`, `--no-resume`: exec of the CLI, no checkpoint),   *)
(* sends INT and TERM, and kills the script together with its child.       *)
(***************************************************************************)
EXTENDS Integers

CONSTANTS
  N,          \* repositories are 1..N, numbered in the order `sort` gives
  MaxGen,     \* bound: generations of a raw inventory
  MaxFaults   \* bound: signals, kills and failing builds in a behaviour

ASSUME NAssumption == N \in Nat \ {0}
ASSUME GenAssumption == MaxGen \in Nat \ {0}
ASSUME FaultAssumption == MaxFaults \in Nat

Repos    == 1..N
NoRepo   == 0                  \* CURRENT_REPO=""
Null     == -1                 \* SQL NULL
ExitCodes == {0, 1, 130}       \* success, an error of the CLI, death by SIGINT
Signals  == {"none", "INT", "TERM"}
Statuses == {"absent", "running", "completed", "failed"}
PCs      == {"off", "list", "loop", "mark_running", "child_read",
             "child_clear", "child_write", "child_done", "mark_done"}
Outcomes == {"none", "empty", "complete", "failed", "signalled", "killed"}
NoIndex  == 0                  \* no usable metadata bundle under data/parsed

VARIABLES
  raw,        \* raw[r]: generation of data/raw/<r>, 0 when there is none
  index,      \* index[r]: raw generation the built index describes, or NoIndex
  row,        \* the build_index_checkpoints table
  unreadable, \* repositories whose metadata.lmdb is a directory without an environment
  lost,       \* repositories whose index a bypass build destroyed and left so
  pc,         \* where the script is
  listed,     \* DEFAULT_REPOS
  todo,       \* the part of DEFAULT_REPOS the loop has not finished
  cur,        \* CURRENT_REPO
  inProgress, \* RUN_IN_PROGRESS
  rc,         \* $?
  seen,       \* generation the child read from the raw inventory
  sig,        \* signal waiting for the trap
  outcome,    \* how the last run ended (history)
  faults      \* faults so far (bound)

store    == <<raw, index, row, unreadable, lost>>
script   == <<pc, listed, todo, cur, inProgress, rc, seen, sig, outcome>>
vars     == <<store, script, faults>>

\* attempts, which nothing in the script reads, is left out
Row == [status : Statuses, exit : ExitCodes \cup {Null}]
AbsentRow == [status |-> "absent", exit |-> Null]

TypeOK ==
  /\ raw \in [Repos -> 0..MaxGen]
  /\ index \in [Repos -> 0..MaxGen]
  /\ row \in [Repos -> Row]
  /\ unreadable \in SUBSET Repos
  /\ lost \in SUBSET Repos
  /\ pc \in PCs
  /\ listed \in SUBSET Repos
  /\ todo \in SUBSET listed
  /\ cur \in Repos \cup {NoRepo}
  /\ inProgress \in {0, 1}
  /\ rc \in ExitCodes
  /\ seen \in 0..MaxGen
  /\ sig \in Signals
  /\ outcome \in Outcomes
  /\ faults \in 0..MaxFaults

Init ==
  /\ raw = [r \in Repos |-> 0]
  /\ index = [r \in Repos |-> NoIndex]
  /\ row = [r \in Repos |-> AbsentRow]
  /\ unreadable = {} /\ lost = {}
  /\ pc = "off" /\ listed = {} /\ todo = {} /\ cur = NoRepo
  /\ inProgress = 0 /\ rc = 0 /\ seen = 0
  /\ sig = "none" /\ outcome = "none"
  /\ faults = 0

-----------------------------------------------------------------------------
(* The checkpoint table: one upsert per mark_* function.                   *)

AlreadyStarted(r) == row[r].status # "absent"                      \* mutant of IsDone
IsDone(r) == row[r].status = "completed"

UpsertRunning(r) == row' = [row EXCEPT ![r] = [status |-> "running", exit |-> Null]]

UpsertDone(r) == row' = [row EXCEPT ![r] = [status |-> "completed", exit |-> 0]]

UpsertFailed(r, code) == row' = [row EXCEPT ![r] = [status |-> "failed", exit |-> code]]

-----------------------------------------------------------------------------
(* The script.  Bash runs a trap between commands, so a pending signal     *)
(* stops every step but those of the child it is waiting for.              *)

\* the repository the for loop is at
IsNext(r) == r \in todo /\ \A q \in todo : r <= q

Finish(how, code) ==
  /\ pc' = "off" /\ outcome' = how /\ rc' = code /\ sig' = "none"

Start ==
  /\ pc = "off"
  /\ pc' = "list"
  /\ listed' = {} /\ todo' = {} /\ cur' = NoRepo /\ inProgress' = 0
  /\ rc' = 0 /\ seen' = 0 /\ outcome' = "none"
  /\ UNCHANGED <<store, sig, faults>>

ListRepos ==
  /\ pc = "list" /\ sig = "none"
  /\ listed' = {r \in Repos : raw[r] # 0}
  /\ todo' = listed'
  /\ IF listed' = {}
       THEN Finish("empty", 1)
       ELSE pc' = "loop" /\ rc' = 0 /\ UNCHANGED <<sig, outcome>>
  /\ UNCHANGED <<store, cur, inProgress, seen, faults>>

SkipDone(r) ==
  /\ pc = "loop" /\ sig = "none"
  /\ IsNext(r) /\ IsDone(r)
  /\ todo' = todo \ {r}
  /\ rc' = 0
  /\ UNCHANGED <<store, pc, listed, cur, inProgress, seen, sig, outcome, faults>>

TakeRepo(r) ==
  /\ pc = "loop" /\ sig = "none"
  /\ IsNext(r) /\ ~ IsDone(r)
  /\ cur' = r /\ inProgress' = 1 /\ rc' = 0
  /\ pc' = "mark_running"
  /\ UNCHANGED <<store, listed, todo, seen, sig, outcome, faults>>

MarkRunning ==
  /\ pc = "mark_running" /\ sig = "none"
  /\ UpsertRunning(cur)
  /\ rc' = 0 /\ pc' = "child_read"
  /\ UNCHANGED <<raw, index, unreadable, lost, listed, todo, cur, inProgress, seen, sig, outcome, faults>>

\* The child, `main.py build-index --repo cur`: it reads the inventory, ...
ChildRead ==
  /\ pc = "child_read"
  /\ seen' = raw[cur] /\ pc' = "child_clear"
  /\ UNCHANGED <<store, listed, todo, cur, inProgress, rc, sig, outcome, faults>>

\* ... raises on a metadata.lmdb that is no environment, whatever it says of
\* the repository, ...
ChildRaises ==
  /\ pc = "child_clear" /\ cur \in unreadable
  /\ rc' = 1 /\ pc' = "child_done"
  /\ UNCHANGED <<store, listed, todo, cur, inProgress, seen, sig, outcome, faults>>

\* or removes the previous bundle: rmtree and mkdir leave a directory that is
\* no environment until lmdb.open creates one, ...
Cleared(r) ==
  /\ index' = [index EXCEPT ![r] = NoIndex]
  /\ \/ UNCHANGED unreadable
     \/ unreadable' = unreadable \cup {r}

ChildClear ==
  /\ pc = "child_clear" /\ cur \notin unreadable
  /\ Cleared(cur) /\ pc' = "child_write"
  /\ UNCHANGED <<raw, row, lost, listed, todo, cur, inProgress, rc, seen, sig, outcome, faults>>

\* ... writes the new one and exits 0.
ChildWrite ==
  /\ pc = "child_write"
  /\ index' = [index EXCEPT ![cur] = seen]
  /\ unreadable' = unreadable \ {cur} /\ lost' = lost \ {cur}
  /\ rc' = 0 /\ pc' = "child_done"
  /\ UNCHANGED <<raw, row, listed, todo, cur, inProgress, seen, sig, outcome, faults>>

\* It may fail before any of these, or die of the INT its group received.
ChildFails ==
  /\ pc \in {"child_read", "child_clear", "child_write"}
  /\ \/ faults < MaxFaults /\ faults' = faults + 1 /\ rc' = 1
     \/ sig = "INT" /\ rc' = 130 /\ UNCHANGED faults
  /\ pc' = "child_done"
  /\ UNCHANGED <<store, listed, todo, cur, inProgress, seen, sig, outcome>>

ExitIgnored == TRUE                                       \* mutant of BuildSucceeded
BuildSucceeded == rc = 0

ChildReturned ==
  /\ pc = "child_done" /\ sig = "none" /\ BuildSucceeded
  /\ inProgress' = 0 /\ pc' = "mark_done"
  /\ UNCHANGED <<store, listed, todo, cur, rc, seen, sig, outcome, faults>>

MarkFailed ==
  /\ pc = "child_done" /\ sig = "none" /\ ~ BuildSucceeded
  /\ UpsertFailed(cur, rc)
  /\ Finish("failed", rc)
  /\ UNCHANGED <<raw, index, unreadable, lost, listed, todo, cur, inProgress, seen, faults>>

MarkDone ==
  /\ pc = "mark_done" /\ sig = "none"
  /\ UpsertDone(cur)
  /\ todo' = todo \ {cur} /\ rc' = 0 /\ pc' = "loop"
  /\ UNCHANGED <<raw, index, unreadable, lost, listed, cur, inProgress, seen, sig, outcome, faults>>

AllComplete ==
  /\ pc = "loop" /\ sig = "none" /\ todo = {}
  /\ Finish("complete", 0)
  /\ UNCHANGED <<store, listed, todo, cur, inProgress, seen, faults>>

-----------------------------------------------------------------------------
(* Signals.  on_interrupt takes $? of the command bash was waiting for; a  *)
(* command that is no build may itself have died of the INT.               *)

FlagIgnored == cur # NoRepo                                 \* mutant of Unfinished
Unfinished == inProgress = 1 /\ cur # NoRepo

Between == pc \in {"list", "loop", "mark_running", "child_done", "mark_done"}

Signal ==
  /\ pc # "off" /\ sig = "none" /\ faults < MaxFaults
  /\ sig' \in {"INT", "TERM"} /\ faults' = faults + 1
  /\ UNCHANGED <<store, pc, listed, todo, cur, inProgress, rc, seen, outcome>>

OnInterrupt ==
  /\ Between /\ sig # "none"
  /\ \E code \in {rc} \cup (IF sig = "INT" /\ pc # "child_done" THEN {130} ELSE {}) :
       /\ IF Unfinished THEN UpsertFailed(cur, code) ELSE UNCHANGED row
       /\ Finish("signalled", code)
  /\ UNCHANGED <<raw, index, unreadable, lost, listed, todo, cur, inProgress, seen, faults>>

\* SIGKILL, power loss: no trap, the row keeps what it said.
Kill ==
  /\ pc # "off" /\ faults < MaxFaults /\ faults' = faults + 1
  /\ Finish("killed", rc)
  /\ UNCHANGED <<store, listed, todo, cur, inProgress, seen>>

-----------------------------------------------------------------------------
(* What the operator does around the script.                               *)

ParseRepos(r) ==
  /\ raw[r] < MaxGen
  /\ raw' = [raw EXCEPT ![r] = @ + 1]
  /\ UNCHANGED <<index, row, unreadable, lost, script, faults>>

Building(r) == pc \in {"child_read", "child_clear", "child_write"} /\ cur = r

\* exec of the CLI: the checkpoint row is neither read nor written
BypassBuild(r) ==
  /\ raw[r] # 0 /\ ~ Building(r) /\ r \notin unreadable
  /\ index' = [index EXCEPT ![r] = raw[r]] /\ lost' = lost \ {r}
  /\ UNCHANGED <<raw, row, unreadable, script, faults>>

BypassDies(r) ==
  /\ raw[r] # 0 /\ ~ Building(r) /\ r \notin unreadable
  /\ faults < MaxFaults /\ faults' = faults + 1
  /\ Cleared(r) /\ lost' = lost \cup {r}
  /\ UNCHANGED <<raw, row, script>>

\* no command removes the directory: somebody does it by hand, or nobody does
OperatorRemoves(r) ==
  /\ r \in unreadable /\ ~ Building(r)
  /\ unreadable' = unreadable \ {r}
  /\ UNCHANGED <<raw, index, row, lost, script, faults>>

ScriptStep ==
  \/ ListRepos \/ MarkRunning
  \/ \E r \in Repos : SkipDone(r) \/ TakeRepo(r)
  \/ ChildRead \/ ChildRaises \/ ChildClear \/ ChildWrite \/ ChildReturned
  \/ MarkFailed \/ MarkDone \/ AllComplete \/ OnInterrupt

Next ==
  \/ Start \/ ScriptStep \/ ChildFails \/ Signal \/ Kill
  \/ \E r \in Repos : ParseRepos(r) \/ BypassBuild(r) \/ BypassDies(r) \/ OperatorRemoves(r)

Spec == Init /\ [][Next]_vars

(* The script's commands all end (WF), and an operator whose inventories   *)
(* are not all indexed runs the script again.  Faults are finite.  Nothing *)
(* makes the operator remove an unreadable directory.                      *)
FairSpec == Spec /\ WF_vars(ScriptStep) /\ WF_vars(Start)

-----------------------------------------------------------------------------
Completed(r) == row[r].status = "completed"

(* A completed row is never a lie: there is an index behind it, whatever   *)
(* order kills, signals and failing builds came in, unless a bypass build  *)
(* of that repository died (the row is not invalidated then).              *)
CompletedMeansIndexed ==
  \A r \in Repos : Completed(r) /\ r \notin lost => index[r] # NoIndex

(* "all repos complete" is printed only when every repository the run      *)
(* listed is completed, including those an earlier run left running.       *)
ClaimMeansCompleted ==
  outcome = "complete" => \A r \in listed : Completed(r)

(* A completed repository stays completed: a trap that fires while the     *)
(* loop is past the build never downgrades it to failed.                   *)
CompletedIsFinal ==
  [][\A r \in Repos : Completed(r) => Completed(r)']_vars

(* Resume works, and the one thing that can defeat it: once faults stop,   *)
(* re-running the script completes every inventory that exists, rows left  *)
(* running or failed included, unless that repository or one the loop      *)
(* comes to before it keeps the metadata.lmdb a killed build left without  *)
(* an environment.  That one fails every later build, and the loop stops   *)
(* at the first failure.                                                   *)
Blocks(q) == q \in unreadable /\ ~ Completed(q)

ResumeCompletes ==
  \A r \in Repos : raw[r] # 0 ~> (Completed(r) \/ [](\E q \in 1..r : Blocks(q)))

(* The inductive strengthening of the three: what the loop knows at each   *)
(* of its points (checked here, proved in BuildResumeProofs).              *)
AtChild   == {"child_read", "child_clear", "child_write", "child_done"}
AtRepo    == AtChild \cup {"mark_running", "mark_done"}
Indexed(r) == index[r] # NoIndex \/ r \in lost

LoopInv ==
  /\ \A r \in listed : raw[r] # 0
  /\ pc \in AtRepo => cur \in todo
  /\ pc \notin {"off", "list"} => \A r \in listed \ todo : Completed(r)
  /\ pc # "off" => outcome = "none" /\ (inProgress = 1 <=> pc \in AtRepo \ {"mark_done"})
  /\ pc = "mark_running" => ~ Completed(cur)
  /\ pc \in AtChild => row[cur].status = "running"
  /\ pc \in {"child_clear", "child_write"} => seen # 0
  /\ (pc = "child_done" /\ rc = 0) \/ pc = "mark_done" => Indexed(cur)

IInv == TypeOK /\ LoopInv /\ CompletedMeansIndexed /\ ClaimMeansCompleted
=============================================================================
