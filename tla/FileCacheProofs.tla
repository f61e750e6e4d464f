--------------------------- MODULE FileCacheProofs ---------------------------
(***************************************************************************)
(* Every safety property of FileCache holds for every number of files,     *)
(* texts, crate names, edits and builds.                                   *)
(*                                                                         *)
(* An entry may well pair a key with the symbols of another text: the file *)
(* is read once for the key and once to parse it.  What saves the cache is *)
(* that such an entry carries a modification time at which the file never  *)
(* held the text of the key, once that text has been read.                 *)
(***************************************************************************)
EXTENDS FileCache, TLAPS

Lies(f) == Whole(f) /\ cache[f].parsed.text # cache[f].key.text

\* No time is in the future.
PastTimes ==
  /\ \A f \in File : mtime[f] <= clock
  /\ \A f \in File : Whole(f) => cache[f].key.mtime <= clock
  /\ pc \in {"load", "parse", "truncate", "write"} => key.mtime <= clock

\* A lying entry of the present time is not the entry of the present text.
LiesAreMissed ==
  \A f \in File : Lies(f) /\ cache[f].key.mtime = mtime[f] => cache[f].key.text # text[f]

\* The same of the text and the key a build has read, before it compares them.
LiesAreNotHit ==
  /\ pc = "key" /\ Lies(cur) /\ cache[cur].key.mtime = mtime[cur] => src # cache[cur].key.text
  /\ pc = "load" /\ Lies(cur) => key # cache[cur].key
  /\ pc = "load" => key.text = src

\* The entry about to be written would be missed if it lied.
PendingTrue ==
  pc \in {"truncate", "write"} /\ key.mtime = mtime[cur] /\ key.text = text[cur]
    => made.parsed.text = key.text

MadeAgrees == made.source = made.parsed.text

IInv ==
  /\ TypeOK /\ PastTimes /\ LiesAreMissed /\ LiesAreNotHit /\ PendingTrue
  /\ MadeAgrees /\ SourceMatchesSymbols

-----------------------------------------------------------------------------
(* A build that is not overtaken.                                          *)

Busy == {"read", "key", "load", "parse", "truncate", "write"}

\* What was made under the manifest as it stands has its crate name.
ManifestTold ==
  /\ ctime <= clock /\ seen <= clock
  /\ \A f \in File : Whole(f) => cache[f].seen <= clock
  /\ \A f \in File : Whole(f) /\ cache[f].seen = ctime => cache[f].parsed.crate = crate
  /\ pc \notin {"off", "manifests"} /\ seen = ctime => pkg = crate
  /\ pc \in {"truncate", "write"} => made.parsed.crate = pkg

\* The entry of f is the one its text and manifest as they stand ask for.
Current(f) == Whole(f) /\ cache[f].key = CacheKey(f, text[f])

Fresh(f) ==
  /\ contexts[f] # NoContext /\ contexts[f].parsed.text = text[f]
  /\ Current(f) /\ contexts[f].parsed = cache[f].parsed

\* While the tree stands still the files done are fresh, and what was read
\* of the one in hand is what it holds.
QuietRun ==
  quiet = 1 /\ pc \notin {"off", "manifests"} =>
    /\ \A f \in todo : text[f] # Gone
    /\ pc = "done" => todo = {}
    /\ pc \in Busy => cur \notin todo /\ text[cur] # Gone
    /\ pc \in Busy \ {"read"} => src = text[cur]
    /\ pc \in Busy \ {"read", "key"} => key = CacheKey(cur, text[cur])
    /\ pc \in {"truncate", "write"} => made.parsed.text = text[cur]
    /\ \A f \in File \ todo : text[f] # Gone /\ ~(pc \in Busy /\ f = cur) => Fresh(f)

\* After such a build every file is a hit.
AllHit ==
  settled = 1 =>
    /\ quiet = 1 /\ pc \notin {"parse", "truncate", "write"}
    /\ \A f \in File : text[f] # Gone => Current(f)

QuietInv == ManifestTold /\ QuietRun /\ AllHit

-----------------------------------------------------------------------------
\* A file that is missing or torn is no entry.
LEMMA NoEntry == NoFile \notin Entry /\ Torn \notin Entry
  <1>1. \A e \in Entry : DOMAIN e = {"key", "parsed", "seen"}
    BY DEF Entry
  <1>2. DOMAIN NoFile = {"entry"} /\ DOMAIN Torn = {"entry"}
    BY DEF NoFile, Torn
  <1> QED BY <1>1, <1>2

LEMMA AnyTyped == AnyText \in Text /\ AnyCrate \in Crate
  BY NonEmpty DEF AnyText, AnyCrate

LEMMA InitInv == Init => IInv
  <1> SUFFICES ASSUME Init PROVE IInv
    OBVIOUS
  <1>1. 0 \in Time /\ 1 \in File /\ 0 \in 0..MaxBuilds
    BY NAssumption, BoundAssumption DEF Time, File
  <1>2. TypeOK
    <2>1. NoKey \in Key /\ NoMade \in Context
      BY <1>1, AnyTyped DEF NoKey, NoMade, Key, Context, Parsed
    <2> QED BY <1>1, <2>1, AnyTyped DEF Init, TypeOK, PCs
  <1>3. \A f \in File : ~Whole(f)
    BY NoEntry DEF Init, Whole
  <1>4. PastTimes /\ LiesAreMissed /\ LiesAreNotHit /\ PendingTrue
    BY <1>3 DEF Init, PastTimes, LiesAreMissed, LiesAreNotHit, PendingTrue, Lies
  <1>5. MadeAgrees /\ SourceMatchesSymbols
    BY DEF Init, MadeAgrees, NoMade, SourceMatchesSymbols
  <1> QED BY <1>2, <1>4, <1>5 DEF IInv

-----------------------------------------------------------------------------
(* Types.                                                                  *)

LEMMA TypeStep == TypeOK /\ [Next]_vars => TypeOK'
  <1> SUFFICES ASSUME TypeOK, [Next]_vars PROVE TypeOK'
    OBVIOUS
  <1> USE DEF PCs
  <1>1. CASE Start
    <2>1. builds + 1 \in 0..MaxBuilds
      BY <1>1, BoundAssumption DEF Start, TypeOK
    <2> QED BY <1>1, <2>1 DEF Start, TypeOK, tree
  <1>2. CASE ReadManifests
    BY <1>2 DEF ReadManifests, TypeOK, tree
  <1>3. ASSUME NEW f \in File, NextFile(f) PROVE TypeOK'
    BY <1>3 DEF NextFile, TypeOK, tree
  <1>4. CASE Raise
    BY <1>4 DEF Raise, TypeOK, tree, local
  <1>5. CASE ReadSource
    <2>1. text[cur] \in Text
      BY <1>5 DEF ReadSource, Readable, TypeOK
    <2> QED BY <1>5, <2>1 DEF ReadSource, TypeOK, tree
  <1>6. CASE TakeKey
    <2>1. CacheKey(cur, src) \in Key
      BY DEF TypeOK, CacheKey, Key
    <2> QED BY <1>6, <2>1 DEF TakeKey, TypeOK, tree
  <1>7. CASE LoadCached
    <2>1. contexts' \in [File -> Context \cup {NoContext}]
      <3>1. CASE Hit
        <4>1. [source |-> src, parsed |-> cache[cur].parsed] \in Context
          BY <3>1 DEF Hit, Slot, Entry, Context, TypeOK
        <4> QED BY <1>7, <3>1, <4>1 DEF LoadCached, Slot, TypeOK
      <3>2. CASE ~Hit
        BY <1>7, <3>2 DEF LoadCached, TypeOK
      <3> QED BY <3>1, <3>2
    <2> QED BY <1>7, <2>1 DEF LoadCached, TypeOK, tree
  <1>8. CASE Parse
    <2>1. Made \in Context
      BY <1>8 DEF Parse, Readable, Made, Context, Parsed, TypeOK
    <2> QED BY <1>8, <2>1 DEF Parse, TypeOK, tree
  <1>9. CASE WriteTruncate
    BY <1>9 DEF WriteTruncate, TypeOK, tree, local, Slot
  <1>10. CASE WriteEntry
    <2>1. [key |-> key, parsed |-> made.parsed, seen |-> seen] \in Entry
      BY DEF TypeOK, Entry, Context
    <2>2. cache' \in [File -> Entry \cup {NoFile, Torn}]
      BY <1>10, <2>1 DEF WriteEntry, TypeOK, Slot
    <2> QED BY <1>10, <2>2 DEF WriteEntry, TypeOK, tree
  <1>11. CASE Finish
    BY <1>11 DEF Finish, TypeOK, tree, local
  <1>12. CASE End
    BY <1>12 DEF End, TypeOK, tree, local
  <1>13. ASSUME NEW f \in File, NEW t \in Text \cup {Gone}, EditSource(f, t) PROVE TypeOK'
    <2>1. clock' \in Time
      BY <1>13, BoundAssumption DEF EditSource, Tick, TypeOK, Time
    <2> QED BY <1>13, <2>1 DEF EditSource, Tick, TypeOK, local
  <1>14. ASSUME NEW c \in Crate, EditManifest(c) PROVE TypeOK'
    <2>1. clock' \in Time
      BY <1>14, BoundAssumption DEF EditManifest, Tick, TypeOK, Time
    <2> QED BY <1>14, <2>1 DEF EditManifest, Tick, TypeOK, local
  <1>15. CASE UNCHANGED vars
    BY <1>15 DEF vars, tree, local, TypeOK
  <1> QED BY <1>1, <1>2, <1>3, <1>4, <1>5, <1>6, <1>7, <1>8, <1>9, <1>10, <1>11,
             <1>12, <1>13, <1>14, <1>15 DEF Next

-----------------------------------------------------------------------------
(* The rest of the invariant.                                              *)

Goal == /\ PastTimes /\ LiesAreMissed /\ LiesAreNotHit /\ PendingTrue
        /\ MadeAgrees /\ SourceMatchesSymbols

LEMMA TruthStep == IInv /\ TypeOK' /\ [Next]_vars => Goal'
  <1> SUFFICES ASSUME IInv, TypeOK', [Next]_vars PROVE Goal'
    OBVIOUS
  <1> DEFINE Same == UNCHANGED <<tree, cache>>
  <1>0. /\ clock \in Nat /\ clock' \in Nat
        /\ \A f \in File : mtime[f] \in Nat /\ mtime'[f] \in Nat
    BY DEF IInv, TypeOK, Time
  <1>e. \A e \in Entry : e.key.mtime \in Nat /\ e.key.text \in Text
    BY DEF Entry, Key, Time
  \* a step that touches neither the tree nor the cache
  <1>s. ASSUME Same
        PROVE  /\ LiesAreMissed'
               /\ \A f \in File : Lies(f)' <=> Lies(f)
               /\ /\ key' = key
                  /\ pc' \in {"load", "parse", "truncate", "write"} =>
                       pc \in {"load", "parse", "truncate", "write"}
                  => PastTimes'
    BY <1>s DEF IInv, LiesAreMissed, PastTimes, Lies, Whole, tree
  <1>1. CASE Start
    BY <1>1, <1>s
      DEF Start, Goal, IInv, LiesAreNotHit, PendingTrue, MadeAgrees, SourceMatchesSymbols
  <1>2. CASE ReadManifests
    BY <1>2, <1>s
      DEF ReadManifests, Goal, IInv, LiesAreNotHit, PendingTrue, MadeAgrees, SourceMatchesSymbols
  <1>3. ASSUME NEW f \in File, NextFile(f) PROVE Goal'
    BY <1>3, <1>s
      DEF NextFile, Goal, IInv, LiesAreNotHit, PendingTrue, MadeAgrees, SourceMatchesSymbols
  <1>4. CASE Raise
    BY <1>4, <1>s
      DEF Raise, local, Goal, IInv, LiesAreNotHit, PendingTrue, MadeAgrees, SourceMatchesSymbols
  <1>5. CASE ReadSource
    <2>1. LiesAreNotHit'
      BY <1>5 DEF ReadSource, tree, IInv, TypeOK, LiesAreMissed, LiesAreNotHit, Lies, Whole
    <2> QED BY <1>5, <2>1, <1>s
      DEF ReadSource, Goal, IInv, PendingTrue, MadeAgrees, SourceMatchesSymbols
  <1>6. CASE TakeKey
    <2>1. key' = [text |-> src, mtime |-> mtime[cur], manifest |-> ctime] /\ pc' = "load"
      BY <1>6 DEF TakeKey, CacheKey
    <2>2. LiesAreNotHit'
      BY <1>6, <2>1 DEF TakeKey, tree, IInv, LiesAreNotHit, Lies, Whole
    <2>3. PastTimes'
      BY <1>6, <2>1 DEF TakeKey, tree, IInv, TypeOK, PastTimes, Whole
    <2> QED BY <1>6, <2>1, <2>2, <2>3, <1>s
      DEF TakeKey, Goal, IInv, PendingTrue, MadeAgrees, SourceMatchesSymbols
  <1>7. CASE LoadCached
    <2>1. SourceMatchesSymbols'
      <3>1. CASE Hit
        <4>1. cache[cur].parsed.text = src
          BY <1>7, <3>1 DEF LoadCached, Hit, Slot, IInv, LiesAreNotHit, Lies, Whole
        <4>2. contexts' = [contexts EXCEPT ![cur] = [source |-> src, parsed |-> cache[cur].parsed]]
          BY <1>7, <3>1 DEF LoadCached, Slot
        <4> QED BY <4>1, <4>2 DEF IInv, TypeOK, SourceMatchesSymbols
      <3>2. CASE ~Hit
        BY <1>7, <3>2 DEF LoadCached, IInv, SourceMatchesSymbols
      <3> QED BY <3>1, <3>2
    <2>2. pc' \in {"next", "parse"} /\ pc = "load" /\ Same /\ UNCHANGED <<key, made>>
      BY <1>7 DEF LoadCached
    <2> QED BY <2>1, <2>2, <1>s DEF Goal, IInv, LiesAreNotHit, PendingTrue, MadeAgrees
  <1>8. CASE Parse
    <2>1. PendingTrue' /\ MadeAgrees'
      BY <1>8 DEF Parse, Made, tree, PendingTrue, MadeAgrees
    <2> QED BY <1>8, <2>1, <1>s DEF Parse, Goal, IInv, LiesAreNotHit, SourceMatchesSymbols
  <1>9. CASE WriteTruncate
    <2>1. /\ pc = "truncate" /\ pc' = "write"
          /\ cache' = [cache EXCEPT ![cur] = Torn] /\ UNCHANGED <<tree, local>>
      BY <1>9 DEF WriteTruncate, Slot
    <2>2. \A f \in File : Whole(f)' => Whole(f) /\ cache'[f] = cache[f]
      BY <2>1, NoEntry DEF Whole, IInv, TypeOK
    <2>3. PastTimes' /\ LiesAreMissed'
      BY <2>1, <2>2 DEF tree, local, IInv, PastTimes, LiesAreMissed, Lies
    <2> QED BY <2>1, <2>3
      DEF tree, local, Goal, IInv, LiesAreNotHit, PendingTrue, MadeAgrees, SourceMatchesSymbols
  <1>10. CASE WriteEntry
    <2> DEFINE e == [key |-> key, parsed |-> made.parsed, seen |-> seen]
    <2>1. /\ pc = "write" /\ pc' = "next" /\ UNCHANGED tree /\ made' = made
          /\ cache' = [cache EXCEPT ![cur] = e] /\ contexts' = [contexts EXCEPT ![cur] = made]
      BY <1>10 DEF WriteEntry, Slot
    <2>2. cur \in File /\ cache'[cur] = e /\ \A f \in File \ {cur} : cache'[f] = cache[f]
      BY <2>1 DEF IInv, TypeOK
    <2>3. PastTimes'
      BY <2>1, <2>2 DEF tree, IInv, PastTimes, Whole
    <2>4. LiesAreMissed'
      <3> SUFFICES ASSUME NEW f \in File, Lies(f)', cache'[f].key.mtime = mtime[f]
                   PROVE  cache'[f].key.text # text[f]
        BY <2>1 DEF LiesAreMissed, tree
      <3>1. CASE f = cur
        BY <3>1, <2>1, <2>2 DEF IInv, PendingTrue, Lies
      <3>2. CASE f # cur
        BY <3>2, <2>1, <2>2 DEF IInv, LiesAreMissed, Lies, Whole, tree
      <3> QED BY <3>1, <3>2
    <2>5. SourceMatchesSymbols'
      BY <2>1, <2>2 DEF IInv, TypeOK, MadeAgrees, SourceMatchesSymbols
    <2> QED BY <2>1, <2>3, <2>4, <2>5 DEF Goal, IInv, LiesAreNotHit, PendingTrue, MadeAgrees
  <1>11. CASE Finish
    BY <1>11, <1>s
      DEF Finish, local, Goal, IInv, LiesAreNotHit, PendingTrue, MadeAgrees, SourceMatchesSymbols
  <1>12. CASE End
    BY <1>12, <1>s
      DEF End, local, Goal, IInv, LiesAreNotHit, PendingTrue, MadeAgrees, SourceMatchesSymbols
  <1>13. ASSUME NEW f \in File, NEW t \in Text \cup {Gone}, EditSource(f, t) PROVE Goal'
    <2>1. /\ clock' = clock + 1 /\ UNCHANGED <<cache, pc, local>>
          /\ text' = [text EXCEPT ![f] = t] /\ mtime' = [mtime EXCEPT ![f] = clock + 1]
      BY <1>13 DEF EditSource, Tick
    <2>2. /\ mtime'[f] = clock + 1
          /\ \A g \in File \ {f} : mtime'[g] = mtime[g] /\ text'[g] = text[g]
      BY <2>1 DEF IInv, TypeOK
    <2>3. PastTimes'
      BY <2>1, <2>2, <1>0, <1>e DEF local, IInv, TypeOK, Key, Time, PastTimes, Whole
    <2>4. \A g \in File : Lies(g)' <=> Lies(g)
      BY <2>1 DEF Lies, Whole
    <2>5. \A g \in File : Whole(g) => cache[g].key.mtime # mtime'[f]
      BY <2>2, <1>0, <1>e DEF IInv, PastTimes, Whole
    <2>6. LiesAreMissed'
      BY <2>1, <2>2, <2>4, <2>5 DEF IInv, LiesAreMissed, Lies, Whole
    <2>7. LiesAreNotHit'
      <3>1. CASE f = cur
        BY <3>1, <2>1, <2>4, <2>5 DEF local, IInv, LiesAreNotHit, Lies, Whole
      <3>2. CASE f # cur
        BY <3>2, <2>1, <2>2, <2>4 DEF local, IInv, TypeOK, LiesAreNotHit, Lies, Whole
      <3> QED BY <3>1, <3>2
    <2>8. PendingTrue'
      <3>1. key.mtime \in Nat
        BY DEF IInv, TypeOK, Key, Time
      <3>2. CASE f = cur
        BY <3>1, <3>2, <2>1, <2>2, <1>0 DEF local, IInv, PastTimes, PendingTrue
      <3>3. CASE f # cur
        BY <3>3, <2>1, <2>2 DEF local, IInv, TypeOK, PendingTrue
      <3> QED BY <3>2, <3>3
    <2> QED BY <2>1, <2>3, <2>6, <2>7, <2>8
      DEF local, Goal, IInv, MadeAgrees, SourceMatchesSymbols
  <1>14. ASSUME NEW c \in Crate, EditManifest(c) PROVE Goal'
    <2>1. clock' = clock + 1 /\ UNCHANGED <<text, mtime, cache, pc, local>>
      BY <1>14 DEF EditManifest, Tick
    <2>2. PastTimes'
      BY <2>1, <1>0, <1>e DEF local, IInv, TypeOK, Key, Time, PastTimes, Whole
    <2>3. LiesAreMissed' /\ LiesAreNotHit'
      BY <2>1 DEF local, IInv, LiesAreMissed, LiesAreNotHit, Lies, Whole
    <2> QED BY <2>1, <2>2, <2>3
      DEF local, Goal, IInv, PendingTrue, MadeAgrees, SourceMatchesSymbols
  <1>15. CASE UNCHANGED vars
    <2>1. UNCHANGED <<tree, cache, pc, todo, cur, pkg, seen, src, key, made, contexts>>
      BY <1>15 DEF vars, local
    <2>2. UNCHANGED <<text, mtime>>
      BY <2>1 DEF tree
    <2>3. LiesAreNotHit'
      BY <2>1, <2>2 DEF IInv, LiesAreNotHit, Lies, Whole
    <2> QED BY <2>1, <2>2, <2>3, <1>s
      DEF Goal, IInv, PendingTrue, MadeAgrees, SourceMatchesSymbols
  <1> QED BY <1>1, <1>2, <1>3, <1>4, <1>5, <1>6, <1>7, <1>8, <1>9, <1>10, <1>11,
             <1>12, <1>13, <1>14, <1>15 DEF Next

LEMMA Inductive == Spec => []IInv
  <1>1. IInv /\ [Next]_vars => IInv'
    <2> SUFFICES ASSUME IInv, [Next]_vars PROVE IInv'
      OBVIOUS
    <2>1. TypeOK'
      BY TypeStep DEF IInv
    <2>2. Goal'
      BY <2>1, TruthStep
    <2> QED BY <2>1, <2>2 DEF IInv, Goal
  <1> QED BY InitInv, <1>1, PTL DEF Spec

-----------------------------------------------------------------------------
(* The steps of a build that is not overtaken.                             *)

LEMMA NoContextKept == \A c \in Context : c # NoContext
  <1>1. \A c \in Context : DOMAIN c = {"source", "parsed"}
    BY DEF Context
  <1>2. DOMAIN NoContext = {"source"}
    BY DEF NoContext
  <1> QED BY <1>1, <1>2

LEMMA ManifestStep == IInv /\ ManifestTold /\ [Next]_vars => ManifestTold'
  <1> SUFFICES ASSUME IInv, ManifestTold, [Next]_vars PROVE ManifestTold'
    OBVIOUS
  <1>0. clock \in Nat /\ ctime \in Nat /\ seen \in Nat /\ \A e \in Entry : e.seen \in Nat
    BY DEF IInv, TypeOK, Time, Entry
  <1>1. CASE WriteTruncate
    <2>1. cache' = [cache EXCEPT ![cur] = Torn] /\ cur \in File /\ UNCHANGED <<tree, local>>
          /\ pc = "truncate" /\ pc' = "write"
      BY <1>1 DEF WriteTruncate, Slot, IInv, TypeOK
    <2>2. \A f \in File : Whole(f)' => Whole(f) /\ cache'[f] = cache[f]
      BY <2>1, NoEntry DEF Whole, IInv, TypeOK
    <2> QED BY <2>1, <2>2 DEF ManifestTold, tree, local
  <1>2. CASE WriteEntry
    <2> DEFINE e == [key |-> key, parsed |-> made.parsed, seen |-> seen]
    <2>1. /\ pc = "write" /\ pc' = "next" /\ UNCHANGED <<tree, seen, pkg>>
          /\ cache' = [cache EXCEPT ![cur] = e]
      BY <1>2 DEF WriteEntry, Slot
    <2>2. cur \in File /\ cache'[cur] = e /\ \A f \in File \ {cur} : cache'[f] = cache[f]
      BY <2>1 DEF IInv, TypeOK
    <2>3. e.seen = seen /\ e.parsed.crate = pkg
      BY <2>1 DEF ManifestTold
    <2>4. \A f \in File : f # cur => (Whole(f)' <=> Whole(f))
      BY <2>2 DEF Whole
    <2> HIDE DEF e
    <2> QED BY <2>1, <2>2, <2>3, <2>4 DEF ManifestTold, tree
  <1>3. CASE Parse
    BY <1>3 DEF Parse, Made, ManifestTold, Whole, tree
  <1>4. CASE Start \/ Raise \/ ReadSource \/ TakeKey \/ LoadCached \/ Finish \/ End
             \/ (\E f \in File : NextFile(f)) \/ UNCHANGED vars
    <2>1. /\ UNCHANGED <<tree, cache, seen, pkg, made>>
          /\ pc' \notin {"truncate", "write"} \/ pc' = pc
          /\ pc' \notin {"off", "manifests"} => pc \notin {"off", "manifests"}
      BY <1>4 DEF Start, Raise, ReadSource, TakeKey, LoadCached, Finish, End, NextFile, vars, local
    <2> QED BY <2>1 DEF ManifestTold, Whole, tree
  <1>5. CASE ReadManifests
    BY <1>5 DEF ReadManifests, ManifestTold, Whole, tree
  <1>6. ASSUME NEW f \in File, NEW t \in Text \cup {Gone}, EditSource(f, t) PROVE ManifestTold'
    BY <1>6, <1>0 DEF EditSource, Tick, local, ManifestTold, Whole
  <1>7. ASSUME NEW c \in Crate, EditManifest(c) PROVE ManifestTold'
    BY <1>7, <1>0 DEF EditManifest, Tick, local, ManifestTold, Whole
  <1> QED BY <1>1, <1>2, <1>3, <1>4, <1>5, <1>6, <1>7 DEF Next

LEMMA QuietRunStep == IInv /\ QuietRun /\ TypeOK' /\ [Next]_vars => QuietRun'
  <1> SUFFICES ASSUME IInv, QuietRun, TypeOK', [Next]_vars,
                      quiet' = 1, pc' \notin {"off", "manifests"}
               PROVE  QuietRun'
    BY DEF QuietRun
  <1> USE DEF Busy
  <1>t. TypeOK
    BY DEF IInv
  \* a step that touches neither the tree, the cache nor the contexts keeps what is fresh
  <1>f. ASSUME UNCHANGED <<tree, cache, contexts>>
        PROVE  \A f \in File : Fresh(f)' <=> Fresh(f)
    BY <1>f DEF Fresh, Current, Whole, CacheKey, tree
  <1>1. CASE ReadManifests
    BY <1>1 DEF ReadManifests, QuietRun, tree
  <1>2. ASSUME NEW f \in File, NextFile(f) PROVE QuietRun'
    <2>1. /\ pc = "next" /\ pc' = "read" /\ cur' = f /\ f \in todo /\ todo' = todo \ {f}
          /\ UNCHANGED <<tree, cache, contexts, quiet, src, key, made>>
      BY <1>2 DEF NextFile
    <2> QED BY <2>1, <1>f DEF QuietRun, tree
  <1>3. CASE ReadSource
    <2>1. /\ pc = "read" /\ pc' = "key" /\ src' = text[cur]
          /\ UNCHANGED <<tree, cache, contexts, quiet, cur, todo, key, made>>
      BY <1>3 DEF ReadSource
    <2> QED BY <2>1, <1>f DEF QuietRun, tree
  <1>4. CASE TakeKey
    <2>1. /\ pc = "key" /\ pc' = "load" /\ key' = CacheKey(cur, src)
          /\ UNCHANGED <<tree, cache, contexts, quiet, cur, todo, src, made>>
      BY <1>4 DEF TakeKey
    <2> QED BY <2>1, <1>f DEF QuietRun, tree, CacheKey
  <1>5. CASE LoadCached
    <2>1. pc = "load" /\ quiet = 1 /\ cur \in File /\ key = CacheKey(cur, text[cur]) /\ src = text[cur]
          /\ cur \notin todo /\ UNCHANGED <<tree, cache, todo, cur, src, key, made>>
      BY <1>5, <1>t DEF LoadCached, QuietRun, TypeOK
    <2>2. CASE Hit
      <3> DEFINE c == [source |-> src, parsed |-> cache[cur].parsed]
      <3>1. contexts' = [contexts EXCEPT ![cur] = c] /\ pc' = "next"
        BY <1>5, <2>2 DEF LoadCached, Slot
      <3>2. Whole(cur) /\ cache[cur].key = key
        BY <2>2 DEF Hit, Slot, Whole
      <3>3. c.parsed.text = text[cur]
        BY <2>1, <3>2 DEF IInv, LiesAreNotHit, Lies
      <3>4. contexts'[cur] = c /\ c # NoContext
        <4>1. c \in Context
          BY <2>1, <3>1, <3>2, <1>t DEF TypeOK, Context, Hit, Slot, Entry, Whole
        <4> QED BY <2>1, <3>1, <4>1, <1>t, NoContextKept DEF TypeOK
      <3>5. Fresh(cur)'
        BY <2>1, <3>2, <3>3, <3>4 DEF Fresh, Current, Whole, CacheKey, tree
      <3>6. \A f \in File \ {cur} : Fresh(f)' <=> Fresh(f)
        BY <2>1, <3>1, <1>t DEF Fresh, Current, Whole, CacheKey, tree, TypeOK
      <3> QED BY <2>1, <3>1, <3>5, <3>6 DEF QuietRun, tree
    <2>3. CASE ~Hit
      <3>1. contexts' = contexts /\ pc' = "parse"
        BY <1>5, <2>3 DEF LoadCached
      <3> QED BY <2>1, <3>1, <1>f DEF QuietRun, tree, CacheKey
    <2> QED BY <2>2, <2>3
  <1>6. CASE Parse
    <2>1. /\ pc = "parse" /\ pc' = "truncate" /\ made'.parsed.text = text[cur]
          /\ UNCHANGED <<tree, cache, contexts, quiet, cur, todo, src, key>>
      BY <1>6 DEF Parse, Made
    <2> QED BY <2>1, <1>f DEF QuietRun, tree, CacheKey
  <1>7. CASE WriteTruncate
    <2>1. /\ pc = "truncate" /\ pc' = "write" /\ cache' = [cache EXCEPT ![cur] = Torn]
          /\ UNCHANGED <<tree, local, quiet>>
      BY <1>7 DEF WriteTruncate, Slot
    <2>2. \A f \in File \ {cur} : Fresh(f)' <=> Fresh(f)
      BY <2>1, <1>t DEF Fresh, Current, Whole, CacheKey, tree, local, TypeOK
    <2> QED BY <2>1, <2>2 DEF QuietRun, tree, local, CacheKey
  <1>8. CASE WriteEntry
    <2> DEFINE e == [key |-> key, parsed |-> made.parsed, seen |-> seen]
    <2>1. /\ pc = "write" /\ pc' = "next" /\ UNCHANGED <<tree, todo, cur, quiet>>
          /\ cache' = [cache EXCEPT ![cur] = e] /\ contexts' = [contexts EXCEPT ![cur] = made]
      BY <1>8 DEF WriteEntry, Slot
    <2>2. cur \in File /\ cache'[cur] = e /\ contexts'[cur] = made
      BY <2>1, <1>t DEF TypeOK
    <2>3. e \in Entry /\ made # NoContext
      BY <1>t, NoContextKept DEF TypeOK, Entry, Context
    <2>4. e.key = CacheKey(cur, text[cur]) /\ made.parsed.text = text[cur] /\ cur \notin todo
      BY <2>1 DEF QuietRun
    <2>5. Fresh(cur)'
      BY <2>1, <2>2, <2>3, <2>4 DEF Fresh, Current, Whole, CacheKey, tree
    <2>6. \A f \in File \ {cur} : Fresh(f)' <=> Fresh(f)
      BY <2>1, <1>t DEF Fresh, Current, Whole, CacheKey, tree, TypeOK
    <2> HIDE DEF e
    <2> QED BY <2>1, <2>5, <2>6 DEF QuietRun, tree
  <1>9. CASE Finish
    BY <1>9, <1>f DEF Finish, QuietRun, tree, local
  <1>10. CASE UNCHANGED vars
    <2>1. UNCHANGED <<tree, cache, pc, todo, cur, src, key, made, contexts, quiet>>
      BY <1>10 DEF vars, local
    <2> QED BY <2>1, <1>f DEF QuietRun, tree, CacheKey
  <1>11. CASE Start \/ Raise \/ End
              \/ (\E f \in File, t \in Text \cup {Gone} : EditSource(f, t))
              \/ (\E c \in Crate : EditManifest(c))
    BY <1>11 DEF Start, Raise, End, EditSource, EditManifest, Tick
  <1> QED BY <1>1, <1>2, <1>3, <1>4, <1>5, <1>6, <1>7, <1>8, <1>9, <1>10, <1>11 DEF Next

LEMMA AllHitStep == IInv /\ QuietRun /\ AllHit /\ [Next]_vars => AllHit'
  <1> SUFFICES ASSUME IInv, QuietRun, AllHit, [Next]_vars, settled' = 1
               PROVE  AllHit'
    BY DEF AllHit
  <1>1. CASE Finish
    BY <1>1 DEF Finish, QuietRun, AllHit, Fresh, Current, Whole, CacheKey, tree, local, Busy
  <1>2. CASE LoadCached
    <2>1. settled = 1 /\ pc = "load" /\ key = CacheKey(cur, text[cur]) /\ text[cur] # Gone /\ cur \in File
      BY <1>2 DEF LoadCached, AllHit, QuietRun, Busy, IInv, TypeOK
    <2>2. Hit
      BY <2>1 DEF AllHit, Current, Whole, Hit, Slot
    <2> QED BY <1>2, <2>1, <2>2 DEF LoadCached, AllHit, Current, Whole, CacheKey, tree
  <1>3. CASE Start \/ ReadManifests \/ Raise \/ ReadSource \/ TakeKey \/ End
             \/ (\E f \in File : NextFile(f)) \/ UNCHANGED vars
    <2>1. /\ UNCHANGED <<tree, cache, settled>> /\ (quiet' = quiet \/ quiet' = 1)
          /\ pc' \notin {"parse", "truncate", "write"} \/ pc' = pc
      BY <1>3 DEF Start, ReadManifests, Raise, ReadSource, TakeKey, End, NextFile, vars
    <2> QED BY <2>1 DEF AllHit, Current, Whole, CacheKey, tree
  <1>4. CASE Parse \/ WriteTruncate \/ WriteEntry
             \/ (\E f \in File, t \in Text \cup {Gone} : EditSource(f, t))
             \/ (\E c \in Crate : EditManifest(c))
    BY <1>4 DEF Parse, WriteTruncate, WriteEntry, EditSource, EditManifest, Tick, AllHit
  <1> QED BY <1>1, <1>2, <1>3, <1>4 DEF Next

LEMMA QuietInvariance == Spec => []QuietInv
  <1>1. Init => QuietInv
    <2> SUFFICES ASSUME Init PROVE QuietInv
      OBVIOUS
    <2>1. \A f \in File : ~Whole(f)
      BY NoEntry DEF Init, Whole
    <2> QED BY <2>1 DEF Init, QuietInv, ManifestTold, QuietRun, AllHit
  <1>2. IInv /\ IInv' /\ QuietInv /\ [Next]_vars => QuietInv'
    BY ManifestStep, QuietRunStep, AllHitStep DEF QuietInv, IInv
  <1> QED BY <1>1, <1>2, Inductive, PTL DEF Spec

-----------------------------------------------------------------------------
(* Every variable keeps its type.                                          *)
THEOREM TypeCorrect == Spec => []TypeOK
  <1>1. IInv => TypeOK
    BY DEF IInv
  <1> QED BY <1>1, Inductive, PTL

(* load_cached_file_context never gives a file the symbols of another      *)
(* text: an entry the file would hit was parsed from the text it has.      *)
THEOREM NoLieIsHit == Spec => []CacheNeverLies
  <1>1. IInv => CacheNeverLies
    <2> SUFFICES ASSUME IInv, NEW f \in File, Whole(f),
                        cache[f].key = [text |-> text[f], mtime |-> mtime[f], manifest |-> ctime]
                 PROVE  cache[f].parsed.text = text[f]
      BY DEF CacheNeverLies, CacheKey
    <2>1. cache[f].key.text = text[f] /\ cache[f].key.mtime = mtime[f]
      OBVIOUS
    <2> QED BY <2>1 DEF IInv, LiesAreMissed, Lies
  <1> QED BY <1>1, Inductive, PTL

(* Every context of a build pairs symbols with the lines they came from.   *)
THEOREM SpansFit == Spec => []SourceMatchesSymbols
  <1>1. IInv => SourceMatchesSymbols
    BY DEF IInv
  <1> QED BY <1>1, Inductive, PTL

(* A build the tree stands still for describes the tree, whatever entries  *)
(* it found and whoever wrote them; an entry made under the manifest as it *)
(* stands has its crate name.                                              *)
THEOREM QuietIsFresh == Spec => []QuietBuildIsFresh
  <1>1. QuietInv => QuietBuildIsFresh
    <2> SUFFICES ASSUME QuietInv, pc = "done", quiet = 1, NEW f \in File, text[f] # Gone
                 PROVE  /\ contexts[f] # NoContext /\ contexts[f].parsed.text = text[f]
                        /\ Whole(f)
                        /\ cache[f].seen = cache[f].key.manifest => contexts[f].parsed.crate = crate
      BY DEF QuietBuildIsFresh
    <2>1. Fresh(f)
      BY DEF QuietInv, QuietRun, Busy
    <2>2. cache[f].key.manifest = ctime
      BY <2>1 DEF Fresh, Current, CacheKey
    <2> QED BY <2>1, <2>2 DEF QuietInv, ManifestTold, Fresh, Current
  <1> QED BY <1>1, QuietInvariance, PTL

(* After it another build of the same tree parses nothing.                 *)
THEOREM ReuseAfterQuiet == Spec => []ReuseWorks
  <1>1. QuietInv => ReuseWorks
    BY DEF QuietInv, AllHit, ReuseWorks
  <1> QED BY <1>1, QuietInvariance, PTL
=============================================================================
