------------------------------- MODULE LspProbe -------------------------------
(***************************************************************************)
(* The rust-analyzer client: probe_rust_analyzer starts a language server  *)
(* for one file, asks it for the symbols of the text and reads the answer. *)
(*                                                                         *)
(* Three threads share the process: the caller, which writes requests and  *)
(* takes payloads from a queue; a reader of the server's output; a reader  *)
(* of its log.  The three pipes are bounded: a writer blocks on a full     *)
(* one.  What the caller writes is a fixed script, so the pipe to the      *)
(* server is two counters into it.  The server is external: it takes its   *)
(* input in order, logs and sends what it likes before each answer, may    *)
(* refuse a request, and may die.                                          *)
(***************************************************************************)
EXTENDS Integers, Sequences, FiniteSets

CONSTANTS
  Text,       \* texts of the file
  Form,       \* forms of an answer: "nested" symbols or a "flat" list
  ServerIds,  \* ids the server gives to requests of its own
  InCap, OutCap, ErrCap,  \* capacities of the pipes, in messages and lines
  MaxNoise,   \* bound: what the server writes before an answer
  MaxDeaths   \* bound: deaths of the server

ASSUME PipeAssumption == InCap \in Nat \ {0} /\ OutCap \in Nat \ {0} /\ ErrCap \in Nat \ {0}
ASSUME NoiseAssumption == MaxNoise \in Nat /\ MaxDeaths \in Nat
ASSUME FormAssumption == Form # {} /\ Form \subseteq {"nested", "flat"}

\* what document_symbol_probe writes, in order
Script == << "initialize", "initialized", "didOpen", "documentSymbol", "shutdown", "exit" >>

Steps == 1..6
Requests == {"initialize", "documentSymbol", "shutdown"}
RequestIds == 1..3
\* request_id, counted up before each request but the first; 0 on a notification
RequestId(m) ==
  CASE m = "initialize" -> 1 [] m = "documentSymbol" -> 2 [] m = "shutdown" -> 3 [] OTHER -> 0

\* the server counts its own requests on its own: their ids may be the client's
ASSUME IdAssumption == ServerIds \subseteq Nat

\* the result of documentSymbol: the symbols of a text in a form
Symbols == [text : Text, form : Form]
NoText == [text |-> "unopened", form |-> "none"]
Refusal == [text |-> "error", form |-> "none"]
Empty == [text |-> "ok", form |-> "none"]
Results == Symbols \cup {NoText, Refusal, Empty}
\* an id is 0 when the payload has none
Payload == [id : RequestIds \cup ServerIds \cup {0}, result : Results]
LogLine == [id |-> -1, result |-> Empty]
NoPayload == [id |-> -2, result |-> Empty]

VARIABLES
  text,      \* the source given to the probe
  phase,     \* "talk", "wait" (process.wait), "drain", "done"
  sent,      \* messages of the script written so far
  awaiting,  \* the id wait_for_response waits for, or 0
  response,  \* the payload taken for documentSymbol
  parsed,    \* "parsed" of the result: 1, 0, or 2 before there is one
  diagnostics,  \* log lines of the result
  queue,     \* payloads read and not yet taken
  reader,    \* 1 while read_lsp_messages runs
  lines,     \* log lines read_stderr has put into its queue
  taken,     \* messages of the script the server has taken
  opened,    \* 1 once the server has the text
  work,      \* what the server writes before it takes more input
  replied,   \* its answer to documentSymbol (history)
  out, err,  \* the pipes from the server: payloads, and a number of lines
  alive, deaths

client == <<text, phase, sent, awaiting, response, parsed, diagnostics>>
server == <<taken, opened, work, replied, alive, deaths>>
probeVars == <<client, queue, reader, lines, server, out, err>>

ProbeTypeOK ==
  /\ text \in Text /\ phase \in {"talk", "wait", "drain", "done"}
  /\ sent \in 0..6 /\ taken \in 0..sent /\ awaiting \in RequestIds \cup {0}
  /\ response \in Payload \cup {NoPayload}
  /\ parsed \in 0..2 /\ diagnostics \in Nat
  /\ queue \in Seq(Payload) /\ out \in Seq(Payload) /\ work \in Seq(Payload \cup {LogLine})
  /\ reader \in {0, 1} /\ lines \in Nat /\ err \in 0..ErrCap
  /\ opened \in {0, 1} /\ replied \in Results /\ alive \in {0, 1} /\ deaths \in 0..MaxDeaths

ProbeInit ==
  /\ text \in Text
  /\ phase = "talk" /\ sent = 0 /\ awaiting = 0 /\ response = NoPayload
  /\ parsed = 2 /\ diagnostics = 0
  /\ queue = << >> /\ reader = 1 /\ lines = 0
  /\ taken = 0 /\ opened = 0 /\ work = << >> /\ replied = Empty
  /\ out = << >> /\ err = 0 /\ alive = 1 /\ deaths = 0

-----------------------------------------------------------------------------
(* The caller.                                                             *)

\* the next message may be written: nothing is awaited
Writing == phase = "talk" /\ awaiting = 0 /\ sent < 6

Send ==
  /\ Writing /\ alive = 1 /\ sent - taken < InCap
  /\ sent' = sent + 1
  /\ awaiting' = RequestId(Script[sent + 1])
  /\ UNCHANGED <<text, phase, response, parsed, diagnostics, queue, reader, lines, server, out, err>>

\* a write to a dead server raises: the pipes are closed and the probe failed
SendFails ==
  /\ Writing /\ alive = 0
  /\ phase' = "done" /\ parsed' = 0
  /\ out' = << >> /\ err' = 0
  /\ UNCHANGED <<text, sent, awaiting, response, diagnostics, queue, reader, lines, server>>

AnyPayload(p) == TRUE                                        \* mutant of Answers
Answers(p) == p.id = awaiting

\* wait_for_response: payloads of another id are dropped
Take ==
  /\ awaiting # 0 /\ queue # << >>
  /\ queue' = Tail(queue)
  /\ IF Answers(Head(queue))
       THEN /\ awaiting' = 0
            /\ response' = IF awaiting = RequestId("documentSymbol") THEN Head(queue) ELSE response
       ELSE UNCHANGED <<awaiting, response>>
  /\ UNCHANGED <<text, phase, sent, parsed, diagnostics, reader, lines, server, out, err>>

Wait ==
  /\ phase = "talk" /\ sent = 6 /\ awaiting = 0
  /\ phase' = "wait"
  /\ UNCHANGED <<text, sent, awaiting, response, parsed, diagnostics, queue, reader, lines, server, out, err>>

\* process.wait has returned, and the pipes are closed with what is in them
Reap ==
  /\ phase = "wait" /\ alive = 0
  /\ phase' = "drain"
  /\ out' = << >> /\ err' = 0
  /\ UNCHANGED <<text, sent, awaiting, response, parsed, diagnostics, queue, reader, lines, server>>

\* drain_queue takes the lines read so far: nobody waits for the log reader
Drain ==
  /\ phase = "drain"
  /\ phase' = "done" /\ parsed' = 1 /\ diagnostics' = IF lines < 20 THEN lines ELSE 20
  /\ UNCHANGED <<text, sent, awaiting, response, queue, reader, lines, server, out, err>>

-----------------------------------------------------------------------------
(* The two readers.                                                        *)

Read ==
  /\ reader = 1 /\ out # << >>
  /\ queue' = Append(queue, Head(out)) /\ out' = Tail(out)
  /\ UNCHANGED <<client, reader, lines, server, err>>

\* end of the output: the thread returns and tells nobody
ReadEnd ==
  /\ reader = 1 /\ out = << >> /\ alive = 0
  /\ reader' = 0
  /\ UNCHANGED <<client, queue, lines, server, out, err>>

LogUnread == FALSE                                           \* mutant of LogReady
LogReady == err > 0

ReadLog ==
  /\ LogReady
  /\ err' = err - 1 /\ lines' = lines + 1
  /\ UNCHANGED <<client, queue, reader, server, out>>

-----------------------------------------------------------------------------
(* The server (external).                                                  *)

\* what it may write before an answer: log lines, notifications, requests
Noise == {LogLine, [id |-> 0, result |-> Empty]} \cup [id : ServerIds, result : {Empty}]
Noises == UNION {[1..n -> Noise] : n \in 0..MaxNoise}

Replies(m) ==
  IF m # "documentSymbol" THEN {Empty}
  ELSE {Refusal} \cup (IF opened = 1 THEN [text : {text}, form : Form] ELSE {NoText})

ServerTake ==
  /\ alive = 1 /\ work = << >> /\ taken < sent
  /\ taken' = taken + 1
  /\ LET m == Script[taken + 1] IN
     /\ opened' = IF m = "didOpen" THEN 1 ELSE opened
     /\ alive' = IF m = "exit" THEN 0 ELSE 1
     /\ IF m \in Requests
          THEN \E before \in Noises, r \in Replies(m) :
                 /\ work' = Append(before, [id |-> RequestId(m), result |-> r])
                 /\ replied' = IF m = "documentSymbol" THEN r ELSE replied
          ELSE UNCHANGED <<work, replied>>
  /\ UNCHANGED <<client, queue, reader, lines, deaths, out, err>>

ServerWrite ==
  /\ alive = 1 /\ work # << >>
  /\ IF Head(work) = LogLine
       THEN err < ErrCap /\ err' = err + 1 /\ UNCHANGED out
       ELSE Len(out) < OutCap /\ out' = Append(out, Head(work)) /\ UNCHANGED err
  /\ work' = Tail(work)
  /\ UNCHANGED <<client, queue, reader, lines, taken, opened, replied, alive, deaths>>

ServerDies ==
  /\ alive = 1 /\ deaths < MaxDeaths
  /\ alive' = 0 /\ deaths' = deaths + 1 /\ work' = << >>
  /\ UNCHANGED <<client, queue, reader, lines, taken, opened, replied, out, err>>

-----------------------------------------------------------------------------
Caller == Send \/ SendFails \/ Take \/ Wait \/ Reap \/ Drain
Readers == Read \/ ReadEnd \/ ReadLog
Server == ServerTake \/ ServerWrite
ProbeNext == Caller \/ Readers \/ Server \/ ServerDies

ProbeSpec == ProbeInit /\ [][ProbeNext]_probeVars
ProbeFairness ==
  /\ WF_probeVars(Caller) /\ WF_probeVars(Read) /\ WF_probeVars(ReadLog)
  /\ WF_probeVars(Server)

-----------------------------------------------------------------------------
(* Symbols are never those of another request or another text, whatever    *)
(* the server sends in between: the payload taken for them is its answer   *)
(* to that request, made from the text it was given.  wait_for_response    *)
(* looks at the id alone, so a request of the server's own that bears the  *)
(* id of documentSymbol is taken for the answer: it has no result, and the *)
(* file is recorded as parsed without a symbol.  Nothing else is mistaken  *)
(* for the answer.                                                         *)
AnswerIsServers ==
  response # NoPayload =>
    \/ response.result = replied /\ replied \in [text : {text}, form : Form] \cup {Refusal}
    \/ /\ RequestId("documentSymbol") \in ServerIds
       /\ response = [id |-> RequestId("documentSymbol"), result |-> Empty]

(* No pipe can fill up and stop both sides, and no answer is overlooked:   *)
(* while the server lives and answers, the probe ends.  A server that dies *)
(* is the exception: nothing wakes wait_for_response.                      *)
ProbeFinishes == <>(phase = "done" \/ deaths > 0)
=============================================================================
