----------------------- MODULE WorkspaceUpdatesProofs -----------------------
(***************************************************************************)
(* The freshness barriers tell the truth: for every set of files,          *)
(* contents, queries and workloads, a source barrier that says Current is  *)
(* about the tree as it is, and a query that asked for current source gets *)
(* an epoch that was read after it asked.                                  *)
(***************************************************************************)
EXTENDS WorkspaceUpdates, TLAPS

-----------------------------------------------------------------------------
(* The inductive invariant.                                                *)

\* Every event has been delivered and requested, and w is the last request.
Quiet(w) == ~unseen /\ ~lost /\ ~counted /\ full.admitted = w

PartialTrees == UNION {[S -> Contents] : S \in SUBSET Files}
Histories == UNION {[S -> SUBSET Contents] : S \in SUBSET Files}
Epochs == [content : PartialTrees, gen : Nat, pending : BOOLEAN]
Pcs == {"Select", "Mirror", "Begin", "Observe", "Walk", "Advance", "Publish", "RestoreSource",
        "RestoreFull", "Build", "Verify", "Activate", "Error", "Backoff", "Stopped"}
Loops == [pc : Pcs, then : {"Select", "Begin", "Build"}, recover : BOOLEAN,
          stage : {"Source", "Semantic"}, observed : [content : PartialTrees, events : Nat],
          semantic : BOOLEAN]
Censuses == [purpose : {"First", "Mid", "Final"}, watermark : Nat, events : Nat, gen : Nat,
             content : PartialTrees]
Builds == [at : {"Idle", "Check", "Ready", "Changed"}, content : PartialTrees, gen : Nat]
Waiting == {"Request", "Mirror", "Target", "Check", "Await", "Asleep", "Lease"}
Served == {"Pin", "Compare", "Label", "Done"}
QueryRecords ==
    [at : Waiting \cup Served \cup {"Idle", "Refused", "Deadline", "Unavailable"},
     policy : {"Best", "Source", "Semantic"}, target : Nat, notified : BOOLEAN, pin : Epochs,
     label : Labels, tries : Nat, held : Histories]

TreeTypes ==
    /\ disk \in PartialTrees /\ events \in Nat /\ published \in Nat
    /\ full \in Barriers /\ source \in Barriers /\ posting \in [Threads -> Nat]
LoopTypes ==
    /\ generation \in Nat /\ slot \in Epochs /\ unresolved \in Epochs /\ validation \in Epochs
    /\ loop \in Loops /\ seen \in Censuses /\ build \in Builds
QueryTypes ==
    /\ query \in [Queries -> QueryRecords]
    /\ \A q \in Queries : DOMAIN query[q].held = Members

\* A watermark admitted in one barrier is mirrored into the other by the
\* thread that admitted it, unless a later one was.
BarrierInv ==
    /\ 1 <= full.admitted
    /\ source.admitted <= full.admitted
    /\ full.reconciled <= full.admitted /\ source.reconciled <= source.admitted
    /\ \A t \in Threads : posting[t] <= full.admitted
    /\ full.admitted = source.admitted \/ \E t \in Threads : posting[t] = full.admitted

\* What a census has read is what the tree holds, unless something happened
\* since it read the watermark that is not settled yet.
CensusInv ==
    /\ seen.watermark <= full.admitted
    /\ DOMAIN seen.content \subseteq Members
    /\ Quiet(seen.watermark) => \A f \in DOMAIN seen.content : seen.content[f] = disk[f]

\* The update loop: it holds a census from the observation to the end of the
\* reconciliation that uses it, the selected epoch is the census's when a
\* generation is published, and an unresolved candidate is settled before
\* anything else is done.
LoopInv ==
    /\ loop.pc \in {"Select", "Begin", "Error", "Backoff", "Observe", "Stopped"} =>
           DOMAIN seen.content = {}
    /\ loop.pc = "Mirror" /\ loop.then # "Build" => DOMAIN seen.content = {}
    /\ loop.pc \in {"Walk", "Advance", "Publish", "RestoreSource", "RestoreFull", "Verify",
                    "Activate"} =>
           /\ source.reconciled <= seen.watermark /\ full.reconciled <= seen.watermark
           /\ seen.gen = generation
    /\ loop.pc \in {"Publish", "RestoreSource", "RestoreFull"} =>
           slot.content = seen.content /\ slot.gen = seen.gen
    /\ loop.pc \in {"Verify", "Activate"} => DOMAIN seen.content = Members
    /\ loop.pc = "Activate" => unresolved.content = seen.content /\ unresolved.gen = seen.gen
    /\ loop.recover =>
           /\ loop.pc \in {"Activate", "Error", "Backoff", "Mirror", "Select", "Begin", "Stopped"}
           /\ loop.pc = "Mirror" => loop.then # "Build"

\* The selected epoch and the unresolved candidate.
EpochInv ==
    /\ DOMAIN slot.content = Members /\ slot.gen <= generation
    /\ slot.gen = published /\ Quiet(source.reconciled) => slot.content = disk
    /\ unresolved # None =>
           /\ loop.recover
           /\ validation = unresolved
           /\ DOMAIN unresolved.content = Members /\ unresolved.gen = generation
           /\ Quiet(source.reconciled) => unresolved.content = disk

\* Every file of c was on disk, with that content, since the query arrived.
Recent(q, c) == \A f \in DOMAIN c : c[f] \in query[q].held[f]

\* A watermark that no census observed before the query arrived has.
Asked(q) ==
    IF query[q].at = "Request" THEN full.admitted + 1
    ELSE IF query[q].at = "Mirror" THEN posting[q]
    ELSE IF query[q].at = "Target" THEN Barrier(q).admitted
    ELSE query[q].target

\* A query with a strict policy: a census of its watermark has read the tree
\* since the query arrived, and so has the selected epoch once the watermark
\* is reconciled.
WaitInv(q) ==
    /\ seen.watermark >= Asked(q) => Recent(q, seen.content)
    /\ Barrier(q).reconciled >= Asked(q) =>
           Recent(q, slot.content) /\ (unresolved # None => Recent(q, unresolved.content))
    /\ query[q].at = "Lease" => Barrier(q).reconciled >= query[q].target

ServedInv(q) ==
    /\ DOMAIN query[q].pin.content = Members /\ Recent(q, query[q].pin.content)
    /\ query[q].policy = "Semantic" /\ query[q].at \in {"Label", "Done"} => ~query[q].pin.pending

QueryInv(q) ==
    /\ Unfinished(q) => \A f \in Members : disk[f] \in query[q].held[f]
    /\ query[q].policy # "Best" /\ query[q].at \in Waiting => WaitInv(q)
    /\ query[q].policy # "Best" /\ query[q].at \in Served => ServedInv(q)

UpdatesInv ==
    /\ TreeTypes /\ LoopTypes /\ QueryTypes
    /\ BarrierInv /\ CensusInv /\ LoopInv /\ EpochInv
    /\ \A q \in Queries : QueryInv(q)

-----------------------------------------------------------------------------
(* Lemmas about the operators.                                             *)

\* The larger and the smaller of two watermarks.
LEMMA TwoWatermarks ==
    ASSUME NEW a \in Nat, NEW b \in Nat
    PROVE  /\ Max({a, b}) \in {a, b} /\ Max({a, b}) >= a /\ Max({a, b}) >= b
           /\ Min({a, b}) \in {a, b} /\ Min({a, b}) <= a /\ Min({a, b}) <= b
<1>1. \E x \in {a, b} : \A y \in {a, b} : x >= y
  <2>1. CASE a >= b
    BY <2>1
  <2>2. CASE b >= a
    BY <2>2
  <2> QED
    BY <2>1, <2>2
<1>2. \E x \in {a, b} : \A y \in {a, b} : x =< y
  <2>1. CASE a >= b
    BY <2>1
  <2>2. CASE b >= a
    BY <2>2
  <2> QED
    BY <2>1, <2>2
<1>3. Max({a, b}) \in {a, b} /\ \A y \in {a, b} : Max({a, b}) >= y
  BY Zenon, <1>1 DEF Max
<1>4. Min({a, b}) \in {a, b} /\ \A y \in {a, b} : Min({a, b}) =< y
  BY Zenon, <1>2 DEF Min
<1> QED
  BY Zenon, <1>3, <1>4

\* A tree without files.
LEMMA EmptyTree == << >> \in PartialTrees /\ DOMAIN << >> = {}
<1>1. DOMAIN << >> = {}
  OBVIOUS
<1>2. << >> \in [{} -> Contents]
  OBVIOUS
<1>3. {} \in SUBSET Files
  OBVIOUS
<1> QED
  BY Zenon, <1>1, <1>2, <1>3 DEF PartialTrees

\* The constant records of the model have their types.
LEMMA IdleTypes ==
    /\ None \in Epochs /\ DOMAIN None.content = {}
    /\ idleLoop \in Loops /\ idleCensus \in Censuses /\ idleBuild \in Builds
    /\ idleCensus.watermark = 0 /\ DOMAIN idleCensus.content = {}
  BY EmptyTree DEF None, idleLoop, idleCensus, idleBuild, Epochs, Loops, Censuses, Builds, Pcs

\* A partial tree is a function into the contents, and the other way round.
LEMMA TreeMembers ==
    /\ \A c \in PartialTrees : c \in [DOMAIN c -> Contents] /\ DOMAIN c \subseteq Files
    /\ \A S \in SUBSET Files : \A c \in [S -> Contents] : c \in PartialTrees /\ DOMAIN c = S
    /\ \A c \in Histories : c \in [DOMAIN c -> SUBSET Contents] /\ DOMAIN c \subseteq Files
    /\ \A S \in SUBSET Files : \A c \in [S -> SUBSET Contents] : c \in Histories /\ DOMAIN c = S
  BY DEF PartialTrees, Histories

\* Restored keeps a barrier's order of watermarks.
LEMMA RestoredBarrier ==
    ASSUME NEW b \in Barriers, NEW w \in Nat, b.reconciled <= b.admitted
    PROVE  /\ Restored(b, w) \in Barriers
           /\ Restored(b, w).admitted = b.admitted
           /\ Restored(b, w).reconciled <= b.admitted
           /\ b.reconciled <= Restored(b, w).reconciled
           /\ Restored(b, w).reconciled # b.reconciled => Restored(b, w).reconciled <= w
<1>1. b.admitted \in Nat /\ b.reconciled \in Nat
  BY DEF Barriers
<1>2. DEFINE n == Min({w, b.admitted})
<1>3. n \in Nat /\ n <= w /\ n <= b.admitted
  BY <1>1, TwoWatermarks
<1>4. DEFINE m == Max({b.reconciled, n})
<1>5. m \in {b.reconciled, n} /\ m >= b.reconciled
  BY <1>1, <1>3, TwoWatermarks
<1>6. Restored(b, w) = [b EXCEPT !.unavailable = FALSE, !.reconciled = m]
  BY DEF Restored
<1> HIDE DEF n, m
<1>7. m \in Nat
  BY <1>1, <1>3, <1>5
<1>8. /\ Restored(b, w) \in Barriers /\ Restored(b, w).admitted = b.admitted
      /\ Restored(b, w).reconciled = m
  BY <1>6, <1>7 DEF Barriers
<1> QED
  BY <1>1, <1>3, <1>5, <1>7, <1>8

-----------------------------------------------------------------------------
(* What a step that is none of the loop's keeps, and what keeps a query's  *)
(* part of the invariant.                                                  *)

\* A step after which all is quiet with an old request found it so.
Settles == \A w \in Nat : w <= full.admitted /\ Quiet(w)' => Quiet(w) /\ disk' = disk

\* A step that edits nothing, delivers nothing and takes no request back
\* settles.
LEMMA CalmSettles ==
    ASSUME UpdatesInv, disk' = disk, unseen' = unseen, lost' = lost,
           counted' = counted, full'.admitted \in Nat, full'.admitted >= full.admitted
    PROVE  Settles
<1>1. full.admitted \in Nat
  BY DEF UpdatesInv, TreeTypes, Barriers
<1> QED
  BY <1>1 DEF Settles, Quiet

\* The census, the loop and the epochs, when another thread takes a step.
LEMMA OutsideKeeps ==
    ASSUME UpdatesInv, UNCHANGED <<epochs, updater, published>>, Settles,
           DOMAIN disk' = DOMAIN disk, full' \in Barriers, source' \in Barriers,
           full.admitted <= full'.admitted, full'.reconciled = full.reconciled,
           source'.reconciled = source.reconciled
    PROVE  LoopTypes' /\ CensusInv' /\ LoopInv' /\ EpochInv'
<1>0. /\ generation' = generation /\ slot' = slot /\ unresolved' = unresolved
      /\ validation' = validation /\ loop' = loop /\ seen' = seen /\ build' = build
      /\ published' = published
  BY DEF epochs, updater
<1>1. /\ seen.watermark \in Nat /\ full.admitted \in Nat /\ full'.admitted \in Nat
      /\ source.reconciled \in Nat /\ seen.watermark <= full.admitted
      /\ source.reconciled <= full.admitted
  BY DEF UpdatesInv, TreeTypes, LoopTypes, BarrierInv, CensusInv, Censuses, Barriers
<1>2. LoopTypes'
  BY Zenon, <1>0 DEF UpdatesInv, LoopTypes
<1>3. CensusInv'
  <2>1. seen'.watermark <= full'.admitted
    BY <1>0, <1>1
  <2>2. DOMAIN seen'.content \subseteq Members'
    BY Zenon, <1>0 DEF UpdatesInv, CensusInv, Members
  <2>3. Quiet(seen.watermark)' => Quiet(seen.watermark) /\ disk' = disk
    <3>1. PICK w \in Nat : w = seen.watermark
      BY <1>1
    <3> QED
      BY Zenon, <1>0, <1>1, <3>1 DEF Settles, Quiet
  <2> QED
    BY Zenon, <1>0, <2>1, <2>2, <2>3 DEF UpdatesInv, CensusInv
<1>4. LoopInv'
  BY Zenon, <1>0 DEF UpdatesInv, LoopInv, Members
<1>5. EpochInv'
  <2>1. Quiet(source.reconciled)' => Quiet(source.reconciled) /\ disk' = disk
    <3>1. PICK w \in Nat : w = source.reconciled
      BY <1>1
    <3> QED
      BY Zenon, <1>1, <3>1 DEF Settles, Quiet
  <2> QED
    BY Zenon, <1>0, <2>1 DEF UpdatesInv, EpochInv, Members
<1> QED
  BY <1>2, <1>3, <1>4, <1>5

\* A query that takes no step itself: what it asked for is answered by no
\* older census, because a census only reads on or starts over, an epoch is
\* only selected when it was the census's, and a watermark is only reconciled
\* up to the census's.
LEMMA QueryKept ==
    ASSUME UpdatesInv, NEW q \in Queries, DOMAIN disk' = DOMAIN disk,
           query'[q].at = query[q].at, query'[q].policy = query[q].policy,
           query'[q].target = query[q].target, query'[q].pin = query[q].pin,
           \A f \in Members : query[q].held[f] \subseteq query'[q].held[f],
           Unfinished(q) => \A f \in Members : disk'[f] \in query'[q].held[f],
           posting'[q] = posting[q],
           full' \in Barriers, source' \in Barriers, seen' \in Censuses,
           full.admitted <= full'.admitted, source.admitted <= source'.admitted,
           \A f \in DOMAIN seen'.content :
               /\ f \in Members /\ seen'.watermark = seen.watermark
               /\ \/ f \in DOMAIN seen.content /\ seen'.content[f] = seen.content[f]
                  \/ seen'.content[f] = disk[f],
           \/ /\ full'.reconciled = full.reconciled /\ source'.reconciled = source.reconciled
              /\ \/ slot' = slot
                 \/ unresolved # None /\ slot' = unresolved
                 \/ loop.pc = "Activate" /\ slot' = unresolved
              /\ \/ unresolved' \in {None, unresolved}
                 \/ loop.pc = "Verify" /\ unresolved'.content = seen.content
           \/ /\ slot' = slot /\ unresolved' = unresolved
              /\ unresolved = None /\ slot.content = seen.content
              /\ full.reconciled <= full'.reconciled /\ source.reconciled <= source'.reconciled
              /\ full'.reconciled = full.reconciled \/ full'.reconciled <= seen.watermark
              /\ source'.reconciled = source.reconciled \/ source'.reconciled <= seen.watermark
    PROVE  QueryInv(q)'
<1>0. QueryInv(q) /\ BarrierInv /\ CensusInv /\ LoopInv /\ EpochInv
  BY Zenon DEF UpdatesInv
<1>1. /\ full.admitted \in Nat /\ full'.admitted \in Nat /\ source.admitted \in Nat
      /\ source'.admitted \in Nat /\ full.reconciled \in Nat /\ full'.reconciled \in Nat
      /\ source.reconciled \in Nat /\ source'.reconciled \in Nat
      /\ seen.watermark \in Nat /\ seen'.watermark \in Nat
  BY DEF UpdatesInv, TreeTypes, LoopTypes, Barriers, Censuses
<1>2. query[q].target \in Nat /\ posting[q] \in Nat
  BY DEF UpdatesInv, QueryTypes, TreeTypes, QueryRecords, Threads
<1>3. Asked(q) \in Nat /\ Asked(q)' \in Nat /\ Asked(q) <= Asked(q)'
  BY <1>1, <1>2 DEF Asked, Barrier
<1>4. Unfinished(q)' <=> Unfinished(q)
  BY Zenon DEF Unfinished
<1>5. \A c : DOMAIN c \subseteq Members /\ Recent(q, c) =>
               \A f \in DOMAIN c : c[f] \in query'[q].held[f]
  BY Zenon DEF Recent
<1>7. ASSUME query[q].policy # "Best", query[q].at \in Served
      PROVE  ServedInv(q)'
  BY Zenon, <1>0, <1>5, <1>7 DEF QueryInv, ServedInv, Recent, Members
<1>8. ASSUME query[q].policy # "Best", query[q].at \in Waiting
      PROVE  WaitInv(q)'
  <2>1. WaitInv(q)
    BY Zenon, <1>0, <1>8 DEF QueryInv
  <2>2. Unfinished(q)
    BY <1>8 DEF Unfinished, Waiting
  <2>3. \A f \in Members : disk[f] \in query[q].held[f]
    BY Zenon, <1>0, <2>2 DEF QueryInv
  <2>4. ASSUME seen'.watermark >= Asked(q)' PROVE Recent(q, seen.content)'
    <3> SUFFICES ASSUME NEW f \in DOMAIN seen'.content
                 PROVE  seen'.content[f] \in query'[q].held[f]
      BY Zenon DEF Recent
    <3>1. seen'.watermark = seen.watermark /\ f \in Members
      BY Zenon
    <3>2. seen.watermark >= Asked(q)
      BY <1>1, <1>3, <2>4, <3>1
    <3>3. Recent(q, seen.content)
      BY Zenon, <2>1, <3>2 DEF WaitInv
    <3> QED
      BY Zenon, <2>3, <3>1, <3>3 DEF Recent
  <2>5. Barrier(q).reconciled \in Nat /\ Barrier(q)'.reconciled \in Nat
    BY <1>1 DEF Barrier
  <2>6. DOMAIN slot.content = Members /\ (unresolved # None => DOMAIN unresolved.content = Members)
    BY Zenon, <1>0 DEF EpochInv
  <2>7. ASSUME Barrier(q)'.reconciled >= Asked(q)'
        PROVE  /\ \A f \in DOMAIN slot'.content : slot'.content[f] \in query'[q].held[f]
               /\ unresolved' # None =>
                    \A f \in DOMAIN unresolved'.content : unresolved'.content[f] \in query'[q].held[f]
    <3>1. CASE /\ full'.reconciled = full.reconciled /\ source'.reconciled = source.reconciled
               /\ \/ slot' = slot
                  \/ unresolved # None /\ slot' = unresolved
                  \/ loop.pc = "Activate" /\ slot' = unresolved
               /\ \/ unresolved' \in {None, unresolved}
                  \/ loop.pc = "Verify" /\ unresolved'.content = seen.content
      <4>1. Barrier(q)'.reconciled = Barrier(q).reconciled
        BY Zenon, <3>1 DEF Barrier
      <4>2. Barrier(q).reconciled >= Asked(q)
        BY <1>3, <2>5, <2>7, <4>1
      <4>3. Recent(q, slot.content) /\ (unresolved # None => Recent(q, unresolved.content))
        BY Zenon, <2>1, <4>2 DEF WaitInv
      <4>4. ASSUME loop.pc \in {"Activate", "Verify"}
            PROVE  DOMAIN seen.content = Members /\ Recent(q, seen.content)
        <5>1. /\ DOMAIN seen.content = Members
              /\ source.reconciled <= seen.watermark /\ full.reconciled <= seen.watermark
          BY <1>0, <4>4 DEF LoopInv
        <5>2. seen.watermark >= Asked(q)
          BY <1>1, <1>3, <4>2, <5>1 DEF Barrier
        <5> QED
          BY Zenon, <2>1, <5>1, <5>2 DEF WaitInv
      <4>5. loop.pc = "Activate" => unresolved.content = seen.content
        BY Zenon, <1>0 DEF LoopInv
      <4> QED
        BY Zenon, <1>5, <2>6, <3>1, <4>3, <4>4, <4>5
    <3>2. CASE /\ slot' = slot /\ unresolved' = unresolved
               /\ unresolved = None /\ slot.content = seen.content
               /\ full.reconciled <= full'.reconciled /\ source.reconciled <= source'.reconciled
               /\ full'.reconciled = full.reconciled \/ full'.reconciled <= seen.watermark
               /\ source'.reconciled = source.reconciled \/ source'.reconciled <= seen.watermark
      <4>1. Barrier(q)'.reconciled = Barrier(q).reconciled \/ Barrier(q)'.reconciled <= seen.watermark
        BY Zenon, <3>2 DEF Barrier
      <4>2. Barrier(q).reconciled >= Asked(q) \/ seen.watermark >= Asked(q)
        BY <1>1, <1>3, <2>5, <2>7, <4>1
      <4>3. Recent(q, slot.content)
        BY Zenon, <2>1, <3>2, <4>2 DEF WaitInv
      <4> QED
        BY Zenon, <1>5, <2>6, <3>2, <4>3
    <3> QED
      BY Zenon, <3>1, <3>2
  <2>8. query[q].at = "Lease" => Barrier(q)'.reconciled >= query[q].target
    <3>1. Barrier(q).reconciled <= Barrier(q)'.reconciled
      BY <1>1 DEF Barrier
    <3> QED
      BY <1>2, <2>1, <2>5, <3>1 DEF WaitInv
  <2> QED
    BY Zenon, <2>4, <2>7, <2>8 DEF WaitInv, Recent
<1> QED
  BY Zenon, <1>0, <1>4, <1>7, <1>8 DEF QueryInv, Members

\* request, first half: the watermark is admitted in the full barrier.
LEMMA AdmitStep ==
    ASSUME UpdatesInv, NEW t \in Threads, Admit(t), source' = source
    PROVE  /\ full' \in Barriers /\ full'.admitted = full.admitted + 1
           /\ full'.reconciled = full.reconciled
           /\ posting' \in [Threads -> Nat] /\ posting'[t] = full'.admitted
           /\ \A u \in Threads : u # t => posting'[u] = posting[u]
           /\ BarrierInv'
<1>1. full \in Barriers /\ posting \in [Threads -> Nat] /\ source \in Barriers
  BY DEF UpdatesInv, TreeTypes
<1>2. /\ full' \in Barriers /\ full'.admitted = full.admitted + 1
      /\ full'.reconciled = full.reconciled /\ full.admitted \in Nat /\ full.reconciled \in Nat
  BY <1>1 DEF Admit, Barriers
<1>3. /\ posting' \in [Threads -> Nat] /\ posting'[t] = full.admitted + 1
      /\ \A u \in Threads : u # t => posting'[u] = posting[u]
  BY <1>1, <1>2 DEF Admit
<1>4. BarrierInv
  BY DEF UpdatesInv
<1>5. \A u \in Threads : posting'[u] <= full'.admitted
  BY <1>1, <1>2, <1>3, <1>4 DEF BarrierInv
<1>6. source.admitted <= full'.admitted /\ full'.reconciled <= full'.admitted /\ 1 <= full'.admitted
  BY <1>1, <1>2, <1>4 DEF BarrierInv, Barriers
<1> QED
  BY <1>2, <1>3, <1>4, <1>5, <1>6 DEF BarrierInv

\* request, second half: the watermark is mirrored into the source barrier.
LEMMA MirrorStep ==
    ASSUME UpdatesInv, NEW t \in Threads, Mirror(t), full' = full
    PROVE  /\ source' \in Barriers /\ source'.admitted >= source.admitted
           /\ source'.admitted >= posting[t]
           /\ source'.reconciled = source.reconciled
           /\ posting' \in [Threads -> Nat]
           /\ \A u \in Threads : u # t => posting'[u] = posting[u]
           /\ BarrierInv'
<1>1. full \in Barriers /\ posting \in [Threads -> Nat] /\ source \in Barriers
  BY DEF UpdatesInv, TreeTypes
<1>2. /\ source.admitted \in Nat /\ posting[t] \in Nat /\ full.admitted \in Nat
      /\ source.reconciled \in Nat
  BY <1>1 DEF Barriers
<1>3. DEFINE m == Max({source.admitted, posting[t]})
<1>4. m \in {source.admitted, posting[t]} /\ m >= source.admitted /\ m >= posting[t]
  BY <1>2, TwoWatermarks
<1>5. source' = [source EXCEPT !.admitted = m]
  BY DEF Mirror
<1> HIDE DEF m
<1>6. m \in Nat
  BY <1>2, <1>4
<1>7. source' \in Barriers /\ source'.admitted = m /\ source'.reconciled = source.reconciled
  BY <1>1, <1>5, <1>6 DEF Barriers
<1>8. /\ posting' \in [Threads -> Nat] /\ posting'[t] = 0
      /\ \A u \in Threads : u # t => posting'[u] = posting[u]
  BY <1>1 DEF Mirror
<1>9. BarrierInv
  BY DEF UpdatesInv
<1>10. m <= full.admitted /\ source.reconciled <= m
  BY <1>2, <1>4, <1>9 DEF BarrierInv
<1>11. \A u \in Threads : posting'[u] <= full.admitted
  BY <1>1, <1>2, <1>8, <1>9 DEF BarrierInv
<1>12. full.admitted = m \/ \E u \in Threads : posting'[u] = full.admitted
  <2>1. CASE full.admitted = source.admitted
    BY <1>2, <1>4, <1>10, <2>1
  <2>2. CASE posting[t] = full.admitted
    BY <1>2, <1>4, <1>10, <2>2
  <2>3. CASE \E u \in Threads : u # t /\ posting[u] = full.admitted
    BY Zenon, <1>8, <2>3
  <2> QED
    BY Zenon, <1>9, <2>1, <2>2, <2>3 DEF BarrierInv
<1> QED
  BY Zenon, <1>4, <1>7, <1>8, <1>9, <1>10, <1>11, <1>12 DEF BarrierInv

\* A query that stands aside while a thread other than the loop takes a step.
LEMMA QueryAside ==
    ASSUME UpdatesInv, NEW q \in Queries, disk' = disk, seen' = seen, slot' = slot,
           unresolved' = unresolved, query'[q] = query[q], posting'[q] = posting[q],
           full' \in Barriers, source' \in Barriers,
           full.admitted <= full'.admitted, source.admitted <= source'.admitted,
           full'.reconciled = full.reconciled, source'.reconciled = source.reconciled
    PROVE  QueryInv(q)'
<1>1. seen' \in Censuses /\ DOMAIN seen.content \subseteq Members
  BY Zenon DEF UpdatesInv, LoopTypes, CensusInv
<1>2. Unfinished(q) => \A f \in Members : disk'[f] \in query'[q].held[f]
  BY Zenon DEF UpdatesInv, QueryInv
<1>3. DOMAIN disk' = DOMAIN disk
  BY Zenon
<1>4. \A f \in Members : query[q].held[f] \subseteq query'[q].held[f]
  BY Zenon
<1>5. \A f \in DOMAIN seen'.content :
               /\ f \in Members /\ seen'.watermark = seen.watermark
               /\ \/ f \in DOMAIN seen.content /\ seen'.content[f] = seen.content[f]
                  \/ seen'.content[f] = disk[f]
  BY Zenon, <1>1
<1> QED
  BY Zenon, <1>1, <1>2, <1>3, <1>4, <1>5, QueryKept

\* A step of the watcher, of the owner of the watch or of the environment that
\* changes no file.
LEMMA AsideStep ==
    ASSUME UpdatesInv, UNCHANGED <<disk, published, epochs, updater, query>>, Settles,
           events' \in Nat, full' \in Barriers, source' \in Barriers,
           posting' \in [Threads -> Nat], \A q \in Queries : posting'[q] = posting[q],
           full.admitted <= full'.admitted, source.admitted <= source'.admitted,
           full'.reconciled = full.reconciled, source'.reconciled = source.reconciled,
           BarrierInv'
    PROVE  UpdatesInv'
<1>1. /\ disk' = disk /\ published' = published /\ query' = query /\ seen' = seen
      /\ slot' = slot /\ unresolved' = unresolved /\ UNCHANGED <<epochs, updater, published>>
  BY DEF epochs, updater
<1>2. LoopTypes' /\ CensusInv' /\ LoopInv' /\ EpochInv'
  BY Zenon, <1>1, OutsideKeeps
<1>3. TreeTypes'
  BY Zenon, <1>1 DEF UpdatesInv, TreeTypes
<1>4. QueryTypes'
  BY Zenon, <1>1 DEF UpdatesInv, QueryTypes, Members
<1>5. \A q \in Queries : QueryInv(q)'
  BY Zenon, <1>1, QueryAside
<1> QED
  BY Zenon, <1>2, <1>3, <1>4, <1>5 DEF UpdatesInv

\* The threads' names differ.
LEMMA ThreadNames ==
    /\ "callback" \in Threads /\ "watch" \in Threads /\ "loop" \in Threads
    /\ Queries \subseteq Threads
    /\ \A q \in Queries : q # "callback" /\ q # "watch" /\ q # "loop"
  BY UpdatesAssumption DEF Threads

\* An edit: what is on disk now is remembered for every query under way.
LEMMA EditStep ==
    ASSUME UpdatesInv, NEW f \in Members, NEW c \in Contents, Edit(f, c)
    PROVE  UpdatesInv'
<1>1. /\ UNCHANGED <<epochs, updater, published>> /\ events' = events /\ full' = full
      /\ source' = source /\ posting' = posting /\ seen' = seen /\ slot' = slot
      /\ unresolved' = unresolved /\ published' = published
  BY DEF Edit, observation, epochs, updater
<1>2. disk \in [Members -> Contents] /\ Members \subseteq Files
  BY TreeMembers DEF UpdatesInv, TreeTypes, Members
<1>3. disk' \in [Members -> Contents] /\ DOMAIN disk' = DOMAIN disk /\ Members' = Members
  BY <1>2 DEF Edit, Members
<1>4. disk' \in PartialTrees
  BY Zenon, <1>2, <1>3, TreeMembers
<1>5. full \in Barriers /\ source \in Barriers /\ full.admitted \in Nat /\ source.admitted \in Nat
  BY DEF UpdatesInv, TreeTypes, Barriers
<1>6. Settles
  BY Zenon DEF Settles, Quiet, Edit
<1>7. LoopTypes' /\ CensusInv' /\ LoopInv' /\ EpochInv'
  <2>1. full.admitted <= full'.admitted
    BY <1>1, <1>5
  <2> QED
    BY Zenon, <1>1, <1>3, <1>5, <1>6, <2>1, OutsideKeeps
<1>8. TreeTypes' /\ BarrierInv'
  BY Zenon, <1>1, <1>4 DEF UpdatesInv, TreeTypes, BarrierInv
<1>9. ASSUME NEW q \in Queries
      PROVE  /\ query'[q] \in QueryRecords /\ DOMAIN query'[q].held = Members
             /\ query'[q].at = query[q].at /\ query'[q].policy = query[q].policy
             /\ query'[q].target = query[q].target /\ query'[q].pin = query[q].pin
             /\ \A g \in Members : query[q].held[g] \subseteq query'[q].held[g]
             /\ Unfinished(q) => \A g \in Members : disk'[g] \in query'[q].held[g]
  <2>1. query[q] \in QueryRecords /\ DOMAIN query[q].held = Members
    BY DEF UpdatesInv, QueryTypes
  <2>2. query[q].held \in [Members -> SUBSET Contents]
    BY <2>1, TreeMembers DEF QueryRecords
  <2>3. CASE ~Unfinished(q)
    <3>1. query'[q] = query[q]
      BY <2>3 DEF Edit
    <3> QED
      BY Zenon, <2>1, <2>3, <3>1
  <2>4. CASE Unfinished(q)
    <3>1. query'[q] = [query[q] EXCEPT !.held[f] = @ \cup {c}]
      BY <2>4 DEF Edit
    <3>2. DEFINE h == [query[q].held EXCEPT ![f] = @ \cup {c}]
    <3>3. query'[q] = [query[q] EXCEPT !.held = h]
      BY <3>1
    <3>4. /\ h \in [Members -> SUBSET Contents] /\ DOMAIN h = Members
          /\ \A g \in Members : query[q].held[g] \subseteq h[g] /\ (g = f => c \in h[g])
      BY <2>2
    <3>5. h \in Histories
      BY Zenon, <1>2, <3>4, TreeMembers
    <3> HIDE DEF h
    <3>6. /\ query'[q] \in QueryRecords /\ query'[q].held = h
          /\ query'[q].at = query[q].at /\ query'[q].policy = query[q].policy
          /\ query'[q].target = query[q].target /\ query'[q].pin = query[q].pin
      BY <2>1, <3>3, <3>5 DEF QueryRecords
    <3>7. \A g \in Members : disk[g] \in query[q].held[g]
      BY Zenon, <2>4 DEF UpdatesInv, QueryInv
    <3>8. \A g \in Members : disk'[g] = IF g = f THEN c ELSE disk[g]
      BY <1>2 DEF Edit
    <3>9. \A g \in Members : disk'[g] \in h[g]
      BY Zenon, <3>4, <3>7, <3>8
    <3> QED
      BY Zenon, <3>4, <3>6, <3>9
  <2> QED
    BY Zenon, <2>3, <2>4
<1>10. QueryTypes'
  <2>1. query' = [q \in Queries |-> query'[q]]
    BY DEF Edit
  <2> QED
    BY Zenon, <1>3, <1>9, <2>1 DEF QueryTypes
<1>11. ASSUME NEW q \in Queries PROVE QueryInv(q)'
  <2>1. seen' \in Censuses /\ DOMAIN seen.content \subseteq Members
    BY Zenon, <1>1 DEF UpdatesInv, LoopTypes, CensusInv
  <2>2. full.admitted <= full'.admitted /\ source.admitted <= source'.admitted
    BY <1>1, <1>5
  <2>3. \A g \in DOMAIN seen'.content :
               /\ g \in Members /\ seen'.watermark = seen.watermark
               /\ \/ g \in DOMAIN seen.content /\ seen'.content[g] = seen.content[g]
                  \/ seen'.content[g] = disk[g]
    BY Zenon, <1>1, <2>1
  <2> QED
    BY Zenon, <1>1, <1>3, <1>5, <1>9, <2>1, <2>2, <2>3, QueryKept
<1> QED
  BY Zenon, <1>7, <1>8, <1>10, <1>11 DEF UpdatesInv

\* The watcher callback, the owner of the watch and the environment.
LEMMA WatcherStep ==
    ASSUME UpdatesInv, Environment \/ Callback
    PROVE  UpdatesInv'
<1>1. /\ full \in Barriers /\ source \in Barriers /\ events \in Nat /\ posting \in [Threads -> Nat]
      /\ full.admitted \in Nat /\ source.admitted \in Nat
      /\ full.admitted <= full.admitted + 1 /\ full.admitted <= full.admitted
      /\ source.admitted <= source.admitted
  BY DEF UpdatesInv, TreeTypes, Barriers
<1>2. CASE LoseEvent
  <2>1. /\ UNCHANGED <<disk, published, epochs, updater, query>> /\ events' = events
        /\ full' = full /\ source' = source /\ posting' = posting /\ lost'
    BY <1>2 DEF LoseEvent, observation
  <2>2. Settles
    BY Zenon, <2>1 DEF Settles, Quiet
  <2>3. BarrierInv'
    BY Zenon, <2>1 DEF UpdatesInv, BarrierInv
  <2> QED
    BY Zenon, <1>1, <2>1, <2>2, <2>3, AsideStep
<1>3. CASE Cancel
  <2>1. /\ UNCHANGED <<disk, published, epochs, updater, query>> /\ events' = events
        /\ full' = full /\ source' = source /\ posting' = posting
        /\ disk' = disk /\ unseen' = unseen /\ lost' = lost /\ counted' = counted
    BY <1>3 DEF Cancel, observation, tree
  <2>2. full'.admitted \in Nat /\ full'.admitted >= full.admitted
    BY <1>1, <2>1
  <2>3. Settles
    BY Zenon, <2>1, <2>2, CalmSettles
  <2>4. BarrierInv'
    BY Zenon, <2>1 DEF UpdatesInv, BarrierInv
  <2> QED
    BY Zenon, <1>1, <2>1, <2>3, <2>4, AsideStep
<1>4. CASE CountEvent
  <2>1. /\ UNCHANGED <<disk, published, epochs, updater, query>> /\ events' = events + 1
        /\ full' = full /\ source' = source /\ posting' = posting /\ counted'
    BY <1>4 DEF CountEvent
  <2>2. Settles
    BY Zenon, <2>1 DEF Settles, Quiet
  <2>3. BarrierInv'
    BY Zenon, <2>1 DEF UpdatesInv, BarrierInv
  <2>4. events' \in Nat
    BY <1>1, <2>1
  <2> QED
    BY Zenon, <1>1, <2>1, <2>2, <2>3, <2>4, AsideStep
<1>5. CASE RequestForEvent
  <2>1. /\ UNCHANGED <<disk, published, epochs, updater, query>> /\ events' = events
        /\ source' = source /\ Admit("callback") /\ disk' = disk
    BY <1>5 DEF RequestForEvent, tree
  <2>2. /\ full' \in Barriers /\ full'.admitted = full.admitted + 1
        /\ full'.reconciled = full.reconciled /\ posting' \in [Threads -> Nat]
        /\ \A q \in Queries : posting'[q] = posting[q]
        /\ BarrierInv'
    BY Zenon, <2>1, AdmitStep, ThreadNames
  <2>3. Settles
    BY <1>1, <2>2 DEF Settles, Quiet
  <2>4. full.admitted <= full'.admitted
    BY <1>1, <2>2
  <2> QED
    BY Zenon, <1>1, <2>1, <2>2, <2>3, <2>4, AsideStep
<1>6. CASE WatchInstalled
  <2>1. /\ UNCHANGED <<disk, published, epochs, updater, query>> /\ events' = events
        /\ source' = source /\ Admit("watch") /\ disk' = disk
        /\ unseen' = unseen /\ lost' = lost /\ counted' = counted
    BY <1>6 DEF WatchInstalled, tree
  <2>2. /\ full' \in Barriers /\ full'.admitted = full.admitted + 1
        /\ full'.reconciled = full.reconciled /\ posting' \in [Threads -> Nat]
        /\ \A q \in Queries : posting'[q] = posting[q]
        /\ BarrierInv'
    BY Zenon, <2>1, AdmitStep, ThreadNames
  <2>3. full.admitted <= full'.admitted /\ full'.admitted \in Nat /\ full'.admitted >= full.admitted
    BY <1>1, <2>2
  <2>4. Settles
    BY Zenon, <2>1, <2>3, CalmSettles
  <2> QED
    BY Zenon, <1>1, <2>1, <2>2, <2>3, <2>4, AsideStep
<1>7. ASSUME NEW t \in {"callback", "watch"}, MirrorHint(t) PROVE UpdatesInv'
  <2>1. /\ UNCHANGED <<disk, published, epochs, updater, query>> /\ events' = events
        /\ full' = full /\ Mirror(t) /\ disk' = disk
        /\ unseen' = unseen /\ lost' = lost /\ counted' = counted
    BY <1>7 DEF MirrorHint, tree
  <2>2. t \in Threads /\ \A q \in Queries : q \in Threads /\ q # t
    BY Zenon, ThreadNames
  <2>3. /\ source' \in Barriers /\ source'.admitted >= source.admitted
        /\ source'.reconciled = source.reconciled /\ posting' \in [Threads -> Nat]
        /\ \A q \in Queries : posting'[q] = posting[q]
        /\ BarrierInv'
    BY Zenon, <2>1, <2>2, MirrorStep
  <2>4. /\ full.admitted <= full'.admitted /\ full'.admitted \in Nat
        /\ full'.admitted >= full.admitted /\ source.admitted <= source'.admitted
    BY <1>1, <2>1, <2>3 DEF Barriers
  <2>5. Settles
    BY Zenon, <2>1, <2>4, CalmSettles
  <2> QED
    BY Zenon, <1>1, <2>1, <2>3, <2>4, <2>5, AsideStep
<1>8. CASE \E f \in Members, c \in Contents : Edit(f, c)
  BY Zenon, <1>8, EditStep
<1> QED
  BY Zenon, <1>2, <1>3, <1>4, <1>5, <1>6, <1>7, <1>8 DEF Environment, Callback

-----------------------------------------------------------------------------
(* The steps of a query.                                                   *)

\* A query's own step, given its own part of the invariant afterwards.
LEMMA QueryOwn ==
    ASSUME UpdatesInv, NEW q \in Queries, UNCHANGED others,
           full' \in Barriers, source' \in Barriers, posting' \in [Threads -> Nat],
           \A p \in Queries : p # q => posting'[p] = posting[p],
           full.admitted <= full'.admitted, source.admitted <= source'.admitted,
           full'.reconciled = full.reconciled, source'.reconciled = source.reconciled,
           BarrierInv',
           NEW r \in QueryRecords, DOMAIN r.held = Members, query' = [query EXCEPT ![q] = r],
           QueryInv(q)'
    PROVE  UpdatesInv'
<1>1. /\ UNCHANGED <<epochs, updater, published>> /\ disk' = disk /\ unseen' = unseen
      /\ lost' = lost /\ counted' = counted /\ events' = events /\ seen' = seen
      /\ slot' = slot /\ unresolved' = unresolved /\ published' = published
  BY DEF others, tree, epochs, updater
<1>2. full.admitted \in Nat /\ full'.admitted \in Nat
  BY DEF UpdatesInv, TreeTypes, Barriers
<1>3. Settles
  BY <1>1, <1>2, CalmSettles
<1>4. LoopTypes' /\ CensusInv' /\ LoopInv' /\ EpochInv'
  BY Zenon, <1>1, <1>3, OutsideKeeps
<1>5. TreeTypes'
  BY Zenon, <1>1 DEF UpdatesInv, TreeTypes
<1>6. /\ query' \in [Queries -> QueryRecords] /\ query'[q] = r
      /\ \A p \in Queries : p # q => query'[p] = query[p]
  BY DEF UpdatesInv, QueryTypes
<1>7. QueryTypes'
  BY Zenon, <1>1, <1>6 DEF UpdatesInv, QueryTypes, Members
<1>8. \A p \in Queries : p # q => QueryInv(p)'
  BY Zenon, <1>1, <1>6, QueryAside
<1> QED
  BY Zenon, <1>4, <1>5, <1>7, <1>8 DEF UpdatesInv

\* A query's own step that leaves the barriers alone.
LEMMA QueryAlone ==
    ASSUME UpdatesInv, NEW q \in Queries, UNCHANGED <<full, source, wake, posting, others>>,
           NEW r \in QueryRecords, DOMAIN r.held = Members, query' = [query EXCEPT ![q] = r],
           QueryInv(q)'
    PROVE  UpdatesInv'
<1>1. UNCHANGED others /\ full' = full /\ source' = source /\ posting' = posting
  BY Zenon
<1>2. full \in Barriers /\ source \in Barriers /\ posting \in [Threads -> Nat] /\ BarrierInv
  BY Zenon DEF UpdatesInv, TreeTypes
<1>3. full.admitted <= full'.admitted /\ source.admitted <= source'.admitted
  BY <1>1, <1>2 DEF Barriers
<1>4. BarrierInv'
  BY Zenon, <1>1, <1>2 DEF BarrierInv
<1> QED
  BY Zenon, <1>1, <1>2, <1>3, <1>4, QueryOwn

\* What UpdatesInv says of one query.
LEMMA OneQuery ==
    ASSUME UpdatesInv, NEW q \in Queries
    PROVE  /\ query[q] \in QueryRecords /\ DOMAIN query[q].held = Members
           /\ query \in [Queries -> QueryRecords] /\ QueryInv(q)
           /\ \A r : [query EXCEPT ![q] = r][q] = r
           /\ [f \in Members |-> {}] \in Histories
           /\ [f \in Members |-> {disk[f]}] \in Histories
<1>1. query \in [Queries -> QueryRecords] /\ DOMAIN query[q].held = Members
  BY Zenon DEF UpdatesInv, QueryTypes
<1>2. Members \in SUBSET Files /\ disk \in [Members -> Contents]
  BY TreeMembers DEF UpdatesInv, TreeTypes, Members
<1>3. [f \in Members |-> {}] \in [Members -> SUBSET Contents]
  OBVIOUS
<1>4. [f \in Members |-> {disk[f]}] \in [Members -> SUBSET Contents]
  BY <1>2
<1>5. [f \in Members |-> {}] \in Histories /\ [f \in Members |-> {disk[f]}] \in Histories
  BY Zenon, <1>2, <1>3, <1>4, TreeMembers
<1>6. query[q] \in QueryRecords /\ \A r : [query EXCEPT ![q] = r][q] = r
  BY <1>1
<1> QED
  BY Zenon, <1>1, <1>5, <1>6 DEF UpdatesInv

\* A query that is turned away.
LEMMA TurnedAway ==
    ASSUME UpdatesInv, NEW q \in Queries, UNCHANGED <<full, source, wake, posting, others>>,
           NEW at \in {"Unavailable", "Refused", "Deadline"}, QueryGoes(q, at)
    PROVE  UpdatesInv'
<1>0. PICK h : h = [f \in Members |-> {}]
  OBVIOUS
<1>1. PICK r : r = [Ended(q, at) EXCEPT !.pin = None, !.held = h]
  OBVIOUS
<1>2. query' = [query EXCEPT ![q] = r]
  BY Zenon, <1>0, <1>1 DEF QueryGoes
<1>3. r \in QueryRecords /\ r.at = at /\ r.held = h
  <2>1. query[q] \in QueryRecords /\ None \in Epochs /\ h \in Histories
    BY Zenon, <1>0, OneQuery, IdleTypes
  <2> QED
    BY <1>1, <2>1 DEF Ended, QueryRecords
<1>4. query'[q].at = at /\ DOMAIN r.held = Members
  BY <1>0, <1>2, <1>3, OneQuery
<1>5. QueryInv(q)'
  BY <1>4 DEF QueryInv, Unfinished, Waiting, Served
<1> QED
  BY Zenon, <1>2, <1>3, <1>4, <1>5, QueryAlone

\* A query that starts over, or gives up.
LEMMA StartsOver ==
    ASSUME UpdatesInv, NEW q \in Queries, UNCHANGED <<full, source, wake, posting, others>>,
           query[q].at \in {"Pin", "Compare", "Label"}, SelectionChanged(q)
    PROVE  UpdatesInv'
<1>1. CASE QueryGoes(q, "Refused") \/ QueryGoes(q, "Deadline")
  BY Zenon, <1>1, TurnedAway
<1>2. CASE query' = [query EXCEPT ![q].at = "Request", ![q].target = 0, ![q].notified = FALSE,
                                  ![q].pin = None, ![q].tries = @ + 1]
  <2>1. PICK r : r = [query[q] EXCEPT !.at = "Request", !.target = 0, !.notified = FALSE,
                                      !.pin = None, !.tries = @ + 1]
    OBVIOUS
  <2>2. query' = [query EXCEPT ![q] = r]
    BY <1>2, <2>1, OneQuery
  <2>3. /\ r \in QueryRecords /\ r.at = "Request" /\ r.held = query[q].held
        /\ r.policy = query[q].policy
    <3>1. query[q] \in QueryRecords /\ None \in Epochs
      BY Zenon, OneQuery, IdleTypes
    <3>2. PICK n \in Nat : n = query[q].tries + 1
      BY <3>1 DEF QueryRecords
    <3>3. r = [query[q] EXCEPT !.at = "Request", !.target = 0, !.notified = FALSE,
                               !.pin = None, !.tries = n]
      BY <2>1, <3>1, <3>2 DEF QueryRecords
    <3> QED
      BY <3>1, <3>3 DEF QueryRecords, Waiting
  <2>4. query'[q] = r /\ DOMAIN r.held = Members
    BY Zenon, <2>2, <2>3, OneQuery
  <2>5. \A f \in Members : disk[f] \in query[q].held[f]
    BY OneQuery DEF QueryInv, Unfinished
  <2>6. /\ disk' = disk /\ full' = full /\ source' = source /\ seen' = seen
    BY DEF others, tree, updater
  <2>7. /\ full.admitted \in Nat /\ seen.watermark \in Nat /\ seen.watermark <= full.admitted
        /\ full.reconciled \in Nat /\ source.reconciled \in Nat /\ source.admitted \in Nat
        /\ full.reconciled <= full.admitted /\ source.reconciled <= full.admitted
    BY DEF UpdatesInv, TreeTypes, LoopTypes, Barriers, Censuses, BarrierInv, CensusInv
  <2>8. Asked(q)' = full.admitted + 1
    BY <2>3, <2>4, <2>6 DEF Asked
  <2>9. WaitInv(q)'
    BY <2>3, <2>4, <2>6, <2>7, <2>8 DEF WaitInv, Barrier
  <2>10. QueryInv(q)'
    BY <2>3, <2>4, <2>5, <2>6, <2>9 DEF QueryInv, Served, Members
  <2> QED
    BY Zenon, <2>2, <2>3, <2>4, <2>10, QueryAlone
<1> QED
  BY Zenon, <1>1, <1>2 DEF SelectionChanged

\* What a waiting query relies on, as long as it asks for no less.
LEMMA StillWaits ==
    ASSUME UpdatesInv, NEW q \in Queries, query[q].policy # "Best" => WaitInv(q),
           query[q].at \in Waiting, query'[q].at \in Waiting \ {"Lease"},
           query'[q].policy = query[q].policy, query'[q].held = query[q].held,
           disk' = disk, seen' = seen, slot' = slot, unresolved' = unresolved,
           full'.reconciled = full.reconciled, source'.reconciled = source.reconciled,
           Asked(q) \in Nat, Asked(q)' \in Nat, Asked(q) <= Asked(q)'
    PROVE  QueryInv(q)'
<1>1. /\ seen.watermark \in Nat /\ full.reconciled \in Nat /\ source.reconciled \in Nat
      /\ QueryInv(q)
  BY DEF UpdatesInv, TreeTypes, LoopTypes, Barriers, Censuses
<1>2. Unfinished(q)
  BY DEF Unfinished, Waiting
<1>3. \A f \in Members' : disk'[f] \in query'[q].held[f]
  BY Zenon, <1>1, <1>2 DEF QueryInv, Members
<1>4. Barrier(q)'.reconciled = Barrier(q).reconciled /\ Barrier(q).reconciled \in Nat
  BY <1>1 DEF Barrier
<1>5. \A c : Recent(q, c) => \A f \in DOMAIN c : c[f] \in query'[q].held[f]
  BY Zenon DEF Recent
<1>6. ASSUME query[q].policy # "Best" PROVE WaitInv(q)'
  <2>1. seen'.watermark >= Asked(q)' => seen.watermark >= Asked(q)
    BY <1>1
  <2>2. Barrier(q)'.reconciled >= Asked(q)' => Barrier(q).reconciled >= Asked(q)
    BY <1>4
  <2> QED
    BY Zenon, <1>5, <1>6, <2>1, <2>2 DEF WaitInv, Recent
<1>7. query'[q].at \notin Served
  BY DEF Waiting, Served
<1> QED
  BY Zenon, <1>3, <1>6, <1>7 DEF QueryInv

\* A query arrives.
LEMMA ArriveStep ==
    ASSUME UpdatesInv, NEW q \in Queries, NEW policy \in Policies, Arrive(q, policy)
    PROVE  UpdatesInv'
<1>1. PICK h : h = [f \in Members |-> {disk[f]}]
  OBVIOUS
<1>2. PICK r : r = [query[q] EXCEPT !.at = IF policy = "Best" THEN "Lease" ELSE "Request",
                                    !.policy = policy, !.held = h]
  OBVIOUS
<1>3. query[q] \in QueryRecords /\ h \in Histories /\ query \in [Queries -> QueryRecords]
  BY Zenon, <1>1, OneQuery
<1>4. query' = [query EXCEPT ![q] = r]
  BY <1>1, <1>2, <1>3 DEF Arrive
<1>5. policy \in {"Best", "Source", "Semantic"}
  BY UpdatesAssumption
<1>6. /\ r \in QueryRecords /\ r.at = (IF policy = "Best" THEN "Lease" ELSE "Request")
      /\ r.policy = policy /\ r.held = h
  BY <1>2, <1>3, <1>5 DEF QueryRecords, Waiting
<1>7. query'[q] = r /\ DOMAIN r.held = Members /\ query' \in [Queries -> QueryRecords]
  BY <1>1, <1>3, <1>4, <1>6
<1>8. /\ disk' = disk /\ full' = full /\ source' = source /\ seen' = seen /\ posting' = posting
      /\ slot' = slot /\ unresolved' = unresolved /\ published' = published /\ events' = events
      /\ unseen' = unseen /\ lost' = lost /\ counted' = counted
      /\ UNCHANGED <<epochs, updater, published>>
  BY DEF Arrive, tree, observation, updater, epochs
<1>9. /\ full.admitted \in Nat /\ seen.watermark \in Nat /\ seen.watermark <= full.admitted
      /\ full.reconciled \in Nat /\ source.reconciled \in Nat /\ source.admitted \in Nat
      /\ full.reconciled <= full.admitted /\ source.reconciled <= full.admitted
      /\ full \in Barriers /\ source \in Barriers
      /\ full.admitted <= full.admitted /\ source.admitted <= source.admitted
      /\ full.admitted >= full.admitted
  BY DEF UpdatesInv, TreeTypes, LoopTypes, Barriers, Censuses, BarrierInv, CensusInv
<1>10. \A f \in Members : disk[f] \in h[f]
  BY <1>1
<1>11. ASSUME policy # "Best" PROVE WaitInv(q)'
  <2>1. Asked(q)' = full.admitted + 1
    BY <1>6, <1>7, <1>8, <1>11 DEF Asked
  <2> QED
    BY <1>6, <1>7, <1>8, <1>9, <1>11, <2>1 DEF WaitInv, Barrier
<1>12. QueryInv(q)'
  BY <1>6, <1>7, <1>8, <1>10, <1>11 DEF QueryInv, Served, Members
<1>13. Settles
  BY Zenon, <1>8, <1>9, CalmSettles
<1>14. LoopTypes' /\ CensusInv' /\ LoopInv' /\ EpochInv'
  BY Zenon, <1>8, <1>9, <1>13, OutsideKeeps
<1>15. TreeTypes' /\ BarrierInv'
  BY Zenon, <1>8 DEF UpdatesInv, TreeTypes, BarrierInv
<1>16. \A p \in Queries : p # q => query'[p] = query[p]
  BY <1>3, <1>4
<1>17. QueryTypes'
  BY Zenon, <1>7, <1>8, <1>16 DEF UpdatesInv, QueryTypes, Members
<1>18. \A p \in Queries : p # q => QueryInv(p)'
  BY Zenon, <1>8, <1>9, <1>16, QueryAside
<1> QED
  BY Zenon, <1>12, <1>14, <1>15, <1>17, <1>18 DEF UpdatesInv

\* A query requests a census: nobody has observed its watermark yet.
LEMMA RequestStep ==
    ASSUME UpdatesInv, NEW q \in Queries, RequestCensus(q)
    PROVE  UpdatesInv'
<1>1. PICK r : r = [query[q] EXCEPT !.at = "Mirror"]
  OBVIOUS
<1>2. query[q] \in QueryRecords /\ query' = [query EXCEPT ![q] = r]
  BY <1>1, OneQuery DEF RequestCensus, QueryGoes
<1>3. /\ r \in QueryRecords /\ r.at = "Mirror" /\ r.policy = query[q].policy
      /\ r.held = query[q].held
  BY <1>1, <1>2 DEF QueryRecords, Waiting
<1>4. query'[q] = r /\ DOMAIN r.held = Members /\ QueryInv(q)
  BY Zenon, <1>2, <1>3, OneQuery
<1>5. UNCHANGED others /\ source' = source /\ Admit(q) /\ q \in Threads
  BY Zenon, ThreadNames DEF RequestCensus
<1>6. /\ full' \in Barriers /\ full'.admitted = full.admitted + 1
      /\ full'.reconciled = full.reconciled /\ posting' \in [Threads -> Nat]
      /\ posting'[q] = full'.admitted /\ BarrierInv'
      /\ \A p \in Queries : p # q => posting'[p] = posting[p]
  BY Zenon, <1>5, AdmitStep, ThreadNames
<1>7. disk' = disk /\ seen' = seen
  BY Zenon, <1>5 DEF others, tree, updater
<1>8. /\ full.admitted \in Nat /\ seen.watermark \in Nat /\ seen.watermark <= full.admitted
      /\ full.reconciled \in Nat /\ source.reconciled \in Nat /\ source.admitted \in Nat
      /\ full.reconciled <= full.admitted /\ source.reconciled <= full.admitted
      /\ source \in Barriers
  BY DEF UpdatesInv, TreeTypes, LoopTypes, Barriers, Censuses, BarrierInv, CensusInv
<1>9. \A f \in Members : disk[f] \in query[q].held[f]
  BY <1>4 DEF QueryInv, Unfinished, RequestCensus
<1>10. WaitInv(q)'
  <2>1. Asked(q)' = full.admitted + 1
    BY <1>3, <1>4, <1>6 DEF Asked
  <2> QED
    BY <1>3, <1>4, <1>5, <1>6, <1>7, <1>8, <2>1 DEF WaitInv, Barrier
<1>11. QueryInv(q)'
  BY <1>3, <1>4, <1>7, <1>9, <1>10 DEF QueryInv, Served, Members
<1>12. full.admitted <= full'.admitted /\ source.admitted <= source'.admitted
  BY <1>5, <1>6, <1>8
<1> QED
  BY Zenon, <1>2, <1>3, <1>4, <1>5, <1>6, <1>8, <1>11, <1>12, QueryOwn

\* A query mirrors its request: the source barrier asks for no less.
LEMMA MirrorCensusStep ==
    ASSUME UpdatesInv, NEW q \in Queries, MirrorCensus(q)
    PROVE  UpdatesInv'
<1>1. PICK r : r = [query[q] EXCEPT !.at = "Target"]
  OBVIOUS
<1>2. query[q] \in QueryRecords /\ query' = [query EXCEPT ![q] = r]
  BY <1>1, OneQuery DEF MirrorCensus, QueryGoes
<1>3. /\ r \in QueryRecords /\ r.at = "Target" /\ r.policy = query[q].policy
      /\ r.held = query[q].held
  BY <1>1, <1>2 DEF QueryRecords, Waiting
<1>4. query'[q] = r /\ DOMAIN r.held = Members /\ QueryInv(q)
  BY Zenon, <1>2, <1>3, OneQuery
<1>5. UNCHANGED others /\ full' = full /\ Mirror(q) /\ q \in Threads /\ query[q].at = "Mirror"
  BY Zenon, ThreadNames DEF MirrorCensus
<1>6. /\ source' \in Barriers /\ source'.admitted >= source.admitted
      /\ source'.admitted >= posting[q] /\ source'.reconciled = source.reconciled
      /\ posting' \in [Threads -> Nat] /\ BarrierInv'
      /\ \A p \in Queries : p # q => posting'[p] = posting[p]
  BY Zenon, <1>5, MirrorStep, ThreadNames
<1>7. disk' = disk /\ seen' = seen /\ slot' = slot /\ unresolved' = unresolved
  BY Zenon, <1>5 DEF others, tree, updater, epochs
<1>8. /\ full.admitted \in Nat /\ posting[q] \in Nat /\ posting[q] <= full.admitted
      /\ source'.admitted \in Nat /\ full \in Barriers /\ source.admitted \in Nat
  BY <1>5, <1>6 DEF UpdatesInv, TreeTypes, Barriers, BarrierInv
<1>9. Asked(q) = posting[q] /\ Asked(q)' \in Nat /\ Asked(q)' >= posting[q]
  BY <1>3, <1>4, <1>5, <1>6, <1>8 DEF Asked, Barrier
<1>10. query[q].policy # "Best" => WaitInv(q)
  BY <1>4, <1>5 DEF QueryInv, Waiting
<1>11. QueryInv(q)'
  <2>1. query[q].at \in Waiting /\ query'[q].at \in Waiting \ {"Lease"}
    BY <1>3, <1>4, <1>5 DEF Waiting
  <2>2. Asked(q) \in Nat /\ Asked(q) <= Asked(q)'
    BY <1>8, <1>9
  <2> QED
    BY Zenon, <1>3, <1>4, <1>5, <1>6, <1>7, <1>9, <1>10, <2>1, <2>2, StillWaits
<1>12. full.admitted <= full'.admitted /\ source.admitted <= source'.admitted
  BY <1>5, <1>6, <1>8
<1> QED
  BY Zenon, <1>2, <1>3, <1>4, <1>5, <1>6, <1>8, <1>11, <1>12, QueryOwn

\* A query captures its watermark, compares it, sleeps and wakes up.
LEMMA AwaitStep ==
    ASSUME UpdatesInv, NEW q \in Queries,
           Register(q) \/ CheckWatermark(q) \/ Sleep(q) \/ Awake(q)
    PROVE  UpdatesInv'
<1>0. /\ query[q] \in QueryRecords /\ query \in [Queries -> QueryRecords] /\ QueryInv(q)
      /\ DOMAIN query[q].held = Members
  BY Zenon, OneQuery
<1>1. UNCHANGED <<full, source, wake, posting, others>>
  BY Zenon DEF Register, CheckWatermark, Sleep, Awake
<1>2. /\ disk' = disk /\ seen' = seen /\ slot' = slot /\ unresolved' = unresolved
      /\ full' = full /\ source' = source
  BY Zenon, <1>1 DEF others, tree, updater, epochs
<1>3. Barrier(q).admitted \in Nat /\ Barrier(q).reconciled \in Nat /\ query[q].target \in Nat
  BY <1>0 DEF UpdatesInv, TreeTypes, Barriers, Barrier, QueryRecords
<1>4. ASSUME NEW at \in {"Check", "Await", "Asleep"}, NEW n \in Nat, NEW b \in BOOLEAN,
             query[q].at \in {"Target", "Check", "Await", "Asleep"},
             n = IF query[q].at = "Target" THEN Barrier(q).admitted ELSE query[q].target,
             query' = [query EXCEPT ![q] =
                         [query[q] EXCEPT !.at = at, !.target = n, !.notified = b]]
      PROVE  UpdatesInv'
  <2>1. PICK r : r = [query[q] EXCEPT !.at = at, !.target = n, !.notified = b]
    OBVIOUS
  <2>2. /\ r \in QueryRecords /\ r.at = at /\ r.target = n /\ r.policy = query[q].policy
        /\ r.held = query[q].held
    BY <1>0, <2>1 DEF QueryRecords, Waiting
  <2>3. query' = [query EXCEPT ![q] = r] /\ query'[q] = r /\ DOMAIN r.held = Members
    BY Zenon, <1>0, <1>4, <2>1, <2>2, OneQuery
  <2>4. query[q].at \in Waiting /\ query'[q].at \in Waiting \ {"Lease"}
    BY <1>4, <2>2, <2>3 DEF Waiting
  <2>5. Asked(q) = n /\ Asked(q)' = n
    BY <1>4, <2>2, <2>3 DEF Asked
  <2>6. n <= n
    OBVIOUS
  <2>7. query[q].policy # "Best" => WaitInv(q)
    BY Zenon, <1>0, <2>4 DEF QueryInv
  <2>8. QueryInv(q)'
    BY Zenon, <1>2, <2>2, <2>3, <2>4, <2>5, <2>6, <2>7, StillWaits
  <2> QED
    BY Zenon, <1>1, <2>2, <2>3, <2>8, QueryAlone
<1>5. CASE Register(q)
  <2>1. query' = [query EXCEPT ![q] = [query[q] EXCEPT !.at = "Check", !.target = Barrier(q).admitted,
                                                       !.notified = query[q].notified]]
    BY <1>0, <1>5 DEF Register, QueryRecords
  <2>2. query[q].at = "Target" /\ query[q].notified \in BOOLEAN
    BY <1>0, <1>5 DEF Register, QueryRecords
  <2>3. PICK n \in Nat : n = Barrier(q).admitted
    BY <1>3
  <2> QED
    BY Zenon, <1>4, <2>1, <2>2, <2>3
<1>6. CASE Awake(q)
  <2>1. query' = [query EXCEPT ![q] = [query[q] EXCEPT !.at = "Check", !.target = query[q].target,
                                                       !.notified = FALSE]]
    BY <1>0, <1>6 DEF Awake, QueryRecords
  <2>2. query[q].at = "Asleep"
    BY Zenon, <1>6 DEF Awake
  <2>3. "Asleep" # "Target"
    OBVIOUS
  <2>4. PICK n \in Nat : n = query[q].target
    BY <1>3
  <2> QED
    BY Zenon, <1>4, <2>1, <2>2, <2>3, <2>4
<1>7. CASE Sleep(q)
  <2>1. query' = [query EXCEPT ![q] = [query[q] EXCEPT !.at = "Asleep", !.target = query[q].target,
                                                       !.notified = query[q].notified]]
    BY <1>0, <1>7 DEF Sleep, QueryGoes, QueryRecords
  <2>2. query[q].at = "Await" /\ query[q].notified \in BOOLEAN
    BY <1>0, <1>7 DEF Sleep, QueryRecords
  <2>3. "Await" # "Target"
    OBVIOUS
  <2>4. PICK n \in Nat : n = query[q].target
    BY <1>3
  <2> QED
    BY Zenon, <1>4, <2>1, <2>2, <2>3, <2>4
<1>8. CASE CheckWatermark(q)
  <2>0. query[q].at = "Check" /\ query[q].notified \in BOOLEAN
    BY <1>0, <1>8 DEF CheckWatermark, QueryRecords
  <2>1. CASE Barrier(q).unavailable
    <3>1. QueryGoes(q, "Unavailable")
      BY Zenon, <1>8, <2>1 DEF CheckWatermark
    <3> QED
      BY Zenon, <1>1, <3>1, TurnedAway
  <2>2. CASE ~Barrier(q).unavailable /\ ~(Barrier(q).reconciled >= query[q].target)
    <3>1. QueryGoes(q, "Await")
      BY Zenon, <1>8, <2>2 DEF CheckWatermark
    <3>2. query' = [query EXCEPT ![q] = [query[q] EXCEPT !.at = "Await", !.target = query[q].target,
                                                         !.notified = query[q].notified]]
      BY <1>0, <3>1 DEF QueryGoes, QueryRecords
    <3>3. "Check" # "Target"
      OBVIOUS
    <3>4. PICK n \in Nat : n = query[q].target
      BY <1>3
    <3> QED
      BY Zenon, <1>4, <2>0, <3>2, <3>3, <3>4
  <2>3. CASE ~Barrier(q).unavailable /\ Barrier(q).reconciled >= query[q].target
    <3>1. QueryGoes(q, "Lease")
      BY Zenon, <1>8, <2>3 DEF CheckWatermark
    <3>2. PICK r : r = [query[q] EXCEPT !.at = "Lease"]
      OBVIOUS
    <3>3. query' = [query EXCEPT ![q] = r]
      BY <1>0, <3>1, <3>2 DEF QueryGoes
    <3>4. /\ r \in QueryRecords /\ r.at = "Lease" /\ r.target = query[q].target
          /\ r.policy = query[q].policy /\ r.held = query[q].held
      BY <1>0, <3>2 DEF QueryRecords, Waiting
    <3>5. query'[q] = r /\ DOMAIN r.held = Members
      BY Zenon, <1>0, <3>3, <3>4, OneQuery
    <3>6. query[q].policy # "Best" => WaitInv(q)
      BY <1>0, <2>0 DEF QueryInv, Waiting
    <3>7. Asked(q) = query[q].target /\ Asked(q)' = query[q].target
      BY <2>0, <3>4, <3>5 DEF Asked
    <3>8. Barrier(q)' = Barrier(q)
      BY Zenon, <1>2, <3>4, <3>5 DEF Barrier
    <3>9. query[q].policy # "Best" => WaitInv(q)'
      BY Zenon, <1>2, <2>3, <3>4, <3>5, <3>6, <3>7, <3>8 DEF WaitInv, Recent
    <3>10. \A f \in Members : disk[f] \in query[q].held[f]
      BY <1>0, <2>0 DEF QueryInv, Unfinished
    <3>11. QueryInv(q)'
      BY <1>2, <3>4, <3>5, <3>9, <3>10 DEF QueryInv, Served, Members
    <3> QED
      BY Zenon, <1>1, <3>3, <3>4, <3>5, <3>11, QueryAlone
  <2> QED
    BY Zenon, <2>1, <2>2, <2>3
<1> QED
  BY Zenon, <1>5, <1>6, <1>7, <1>8

\* A query leases the slot, asks the gate, compares the generation and reads
\* the label: what it was given stays what it asked for.
LEMMA ServeStep ==
    ASSUME UpdatesInv, NEW q \in Queries,
           LeaseSlot(q) \/ PinEpoch(q) \/ CompareGeneration(q) \/ ReadLabel(q)
    PROVE  UpdatesInv'
<1>0. /\ query[q] \in QueryRecords /\ query \in [Queries -> QueryRecords] /\ QueryInv(q)
      /\ DOMAIN query[q].held = Members
  BY Zenon, OneQuery
<1>1. UNCHANGED <<full, source, wake, posting, others>>
  BY Zenon DEF LeaseSlot, PinEpoch, CompareGeneration, ReadLabel
<1>2. /\ disk' = disk /\ seen' = seen /\ slot' = slot /\ unresolved' = unresolved
      /\ full' = full /\ source' = source
  BY Zenon, <1>1 DEF others, tree, updater, epochs
<1>3. Unfinished(q) /\ \A f \in Members : disk[f] \in query[q].held[f]
  BY <1>0 DEF QueryInv, Unfinished, LeaseSlot, PinEpoch, CompareGeneration, ReadLabel
<1>4. CASE LeaseSlot(q)
  <2>1. PICK r : r = [query[q] EXCEPT !.at = "Pin", !.pin = slot]
    OBVIOUS
  <2>2. query' = [query EXCEPT ![q] = r]
    BY <1>0, <1>4, <2>1 DEF LeaseSlot
  <2>3. slot \in Epochs /\ DOMAIN slot.content = Members
    BY Zenon DEF UpdatesInv, LoopTypes, EpochInv
  <2>4. /\ r \in QueryRecords /\ r.at = "Pin" /\ r.policy = query[q].policy
        /\ r.held = query[q].held /\ r.pin = slot
    BY <1>0, <2>1, <2>3 DEF QueryRecords, Served
  <2>5. query'[q] = r /\ DOMAIN r.held = Members
    BY Zenon, <1>0, <2>2, <2>4, OneQuery
  <2>6. query[q].at = "Lease"
    BY Zenon, <1>4 DEF LeaseSlot
  <2>7. query[q].policy # "Best" => WaitInv(q)
    BY <1>0, <2>6 DEF QueryInv, Waiting
  <2>8. Asked(q) = query[q].target
    BY <2>6 DEF Asked
  <2>9. query[q].policy # "Best" => Recent(q, slot.content)
    BY Zenon, <2>6, <2>7, <2>8 DEF WaitInv
  <2>10. query[q].policy # "Best" => ServedInv(q)'
    BY <1>2, <2>3, <2>4, <2>5, <2>9 DEF ServedInv, Recent, Members
  <2>11. QueryInv(q)'
    BY <1>2, <1>3, <2>4, <2>5, <2>10 DEF QueryInv, Waiting, Members
  <2> QED
    BY Zenon, <1>1, <2>2, <2>4, <2>5, <2>11, QueryAlone
<1>5. ASSUME NEW r \in QueryRecords, query' = [query EXCEPT ![q] = r],
             r.policy = query[q].policy, r.held = query[q].held, r.pin = query[q].pin,
             query[q].at \in Served, r.at \in Served,
             r.policy = "Semantic" /\ r.at \in {"Label", "Done"} => ~query[q].pin.pending
      PROVE  UpdatesInv'
  <2>1. query'[q] = r /\ DOMAIN r.held = Members
    BY Zenon, <1>0, <1>5, OneQuery
  <2>2. query[q].policy # "Best" => ServedInv(q)
    BY Zenon, <1>0, <1>5 DEF QueryInv
  <2>3. query[q].policy # "Best" => ServedInv(q)'
    BY Zenon, <1>2, <1>5, <2>1, <2>2 DEF ServedInv, Recent, Members
  <2>4. r.at \notin Waiting
    BY <1>5 DEF Waiting, Served
  <2>5. QueryInv(q)'
    BY Zenon, <1>2, <1>3, <1>5, <2>1, <2>3, <2>4 DEF QueryInv, Members
  <2> QED
    BY Zenon, <1>1, <1>5, <2>1, <2>5, QueryAlone
<1>6. ASSUME query[q].at = "Compare", QueryGoes(q, "Label"),
             ~(query[q].policy = "Semantic" /\ query[q].pin.pending)
      PROVE  UpdatesInv'
  <2>1. PICK r : r = [query[q] EXCEPT !.at = "Label"]
    OBVIOUS
  <2>2. query' = [query EXCEPT ![q] = r]
    BY <1>0, <1>6, <2>1 DEF QueryGoes
  <2>3. /\ r \in QueryRecords /\ r.at = "Label" /\ r.policy = query[q].policy
        /\ r.held = query[q].held /\ r.pin = query[q].pin
    BY <1>0, <2>1 DEF QueryRecords, Served
  <2>4. query[q].at \in Served /\ r.at \in Served
    BY <1>6, <2>3 DEF Served
  <2> QED
    BY Zenon, <1>5, <1>6, <2>2, <2>3, <2>4
<1>7. ASSUME query[q].at = "Pin", QueryGoes(q, "Compare")
      PROVE  UpdatesInv'
  <2>1. PICK r : r = [query[q] EXCEPT !.at = "Compare"]
    OBVIOUS
  <2>2. query' = [query EXCEPT ![q] = r]
    BY <1>0, <1>7, <2>1 DEF QueryGoes
  <2>3. /\ r \in QueryRecords /\ r.at = "Compare" /\ r.policy = query[q].policy
        /\ r.held = query[q].held /\ r.pin = query[q].pin
    BY <1>0, <2>1 DEF QueryRecords, Served
  <2>4. query[q].at \in Served /\ r.at \in Served /\ r.at \notin {"Label", "Done"}
    BY <1>7, <2>3 DEF Served
  <2> QED
    BY Zenon, <1>5, <2>2, <2>3, <2>4
<1>8. ASSUME NEW state \in Labels, Labelled(q, state), query[q].at \in {"Compare", "Label"},
             query[q].at = "Compare" => state # "Current"
      PROVE  UpdatesInv'
  <2>1. CASE SelectionChanged(q)
    BY Zenon, <1>1, <1>8, <2>1, StartsOver
  <2>2. CASE query' = [query EXCEPT ![q] = [Ended(q, "Done") EXCEPT !.label = state]]
             /\ ~(query[q].policy # "Best" /\ state # "Current")
    <3>1. PICK r : r = [Ended(q, "Done") EXCEPT !.label = state]
      OBVIOUS
    <3>2. query' = [query EXCEPT ![q] = r]
      BY Zenon, <2>2, <3>1
    <3>3. /\ r \in QueryRecords /\ r.at = "Done" /\ r.policy = query[q].policy
          /\ r.held = query[q].held /\ r.pin = query[q].pin
      BY <1>0, <1>8, <3>1 DEF Ended, QueryRecords, Served
    <3>4. query[q].at \in Served /\ r.at \in Served
      BY <1>8, <3>3 DEF Served
    <3>5. query[q].policy = "Semantic" => ~query[q].pin.pending
      <4>1. query[q].policy = "Semantic" => query[q].at = "Label" /\ ServedInv(q)
        BY <1>0, <1>8, <2>2, <3>4 DEF QueryInv
      <4> QED
        BY Zenon, <4>1 DEF ServedInv
    <3> QED
      BY Zenon, <1>5, <3>2, <3>3, <3>4, <3>5
  <2> QED
    BY Zenon, <1>8, <2>1, <2>2 DEF Labelled
<1>9. CASE PinEpoch(q)
  <2>1. query[q].at = "Pin" /\ (QueryGoes(q, "Compare") \/ SelectionChanged(q))
    BY Zenon, <1>9 DEF PinEpoch
  <2> QED
    BY Zenon, <1>1, <1>7, <2>1, StartsOver
<1>10. CASE CompareGeneration(q)
  <2>1. /\ query[q].at = "Compare"
        /\ \/ Labelled(q, "PotentiallyStale") \/ Labelled(q, "Unavailable")
           \/ ~(query[q].policy = "Semantic" /\ query[q].pin.pending) /\ QueryGoes(q, "Label")
    BY Zenon, <1>10 DEF CompareGeneration
  <2>2. /\ "PotentiallyStale" \in Labels /\ "Unavailable" \in Labels
        /\ "PotentiallyStale" # "Current" /\ "Unavailable" # "Current"
    BY DEF Labels
  <2> QED
    BY Zenon, <1>6, <1>8, <2>1, <2>2
<1>11. CASE ReadLabel(q)
  <2>1. query[q].at = "Label" /\ Labelled(q, State(Barrier(q))) /\ "Label" # "Compare"
    BY <1>11 DEF ReadLabel
  <2>2. PICK state \in Labels : state = State(Barrier(q))
    BY DEF State, Labels
  <2> QED
    BY Zenon, <1>8, <2>1, <2>2
<1> QED
  BY Zenon, <1>4, <1>9, <1>10, <1>11

\* Every step of a query.
LEMMA QueryStepKeeps ==
    ASSUME UpdatesInv, NEW q \in Queries, QueryStep(q)
    PROVE  UpdatesInv'
<1>1. CASE Deadline(q)
  BY Zenon, <1>1, TurnedAway DEF Deadline
<1> QED
  BY Zenon, <1>1, ArriveStep, RequestStep, MirrorCensusStep, AwaitStep, ServeStep
     DEF QueryStep, QueryProceeds

-----------------------------------------------------------------------------
(* The steps of the update loop.                                           *)

\* The queries and the types, while the loop takes a step.
LEMMA LoopKeeps ==
    ASSUME UpdatesInv, disk' = disk, events' = events, published' \in Nat,
           full' \in Barriers, source' \in Barriers, posting' \in [Threads -> Nat],
           LoopTypes', query' \in [Queries -> QueryRecords],
           \A q \in Queries :
               /\ query'[q].at = query[q].at /\ query'[q].policy = query[q].policy
               /\ query'[q].target = query[q].target /\ query'[q].pin = query[q].pin
               /\ query'[q].held = query[q].held /\ posting'[q] = posting[q],
           full.admitted <= full'.admitted, source.admitted <= source'.admitted,
           \A f \in DOMAIN seen'.content :
               /\ f \in Members /\ seen'.watermark = seen.watermark
               /\ \/ f \in DOMAIN seen.content /\ seen'.content[f] = seen.content[f]
                  \/ seen'.content[f] = disk[f],
           \/ /\ full'.reconciled = full.reconciled /\ source'.reconciled = source.reconciled
              /\ \/ slot' = slot
                 \/ unresolved # None /\ slot' = unresolved
                 \/ loop.pc = "Activate" /\ slot' = unresolved
              /\ \/ unresolved' \in {None, unresolved}
                 \/ loop.pc = "Verify" /\ unresolved'.content = seen.content
           \/ /\ slot' = slot /\ unresolved' = unresolved
              /\ unresolved = None /\ slot.content = seen.content
              /\ full.reconciled <= full'.reconciled /\ source.reconciled <= source'.reconciled
              /\ full'.reconciled = full.reconciled \/ full'.reconciled <= seen.watermark
              /\ source'.reconciled = source.reconciled \/ source'.reconciled <= seen.watermark,
           BarrierInv', CensusInv', LoopInv', EpochInv'
    PROVE  UpdatesInv'
<1>1. TreeTypes'
  BY Zenon DEF UpdatesInv, TreeTypes
<1>2. QueryTypes'
  BY Zenon DEF UpdatesInv, QueryTypes, Members
<1>3. ASSUME NEW q \in Queries PROVE QueryInv(q)'
  <2>1. seen' \in Censuses
    BY Zenon DEF LoopTypes
  <2>2. Unfinished(q) => \A f \in Members : disk'[f] \in query'[q].held[f]
    BY Zenon DEF UpdatesInv, QueryInv
  <2>3. \A f \in Members : query[q].held[f] \subseteq query'[q].held[f]
    BY Zenon
  <2>4. DOMAIN disk' = DOMAIN disk
    BY Zenon
  <2> QED
    BY Zenon, <2>1, <2>2, <2>3, <2>4, QueryKept
<1> QED
  BY Zenon, <1>1, <1>2, <1>3 DEF UpdatesInv

\* A step of the loop that reconciles no watermark and selects no epoch.
LEMMA LoopWorks ==
    ASSUME UpdatesInv, disk' = disk, events' = events, published' \in Nat, query' = query,
           slot' = slot, unresolved' \in {None, unresolved},
           full' \in Barriers, source' \in Barriers, posting' \in [Threads -> Nat],
           \A q \in Queries : posting'[q] = posting[q], LoopTypes',
           full.admitted <= full'.admitted, source.admitted <= source'.admitted,
           full'.reconciled = full.reconciled, source'.reconciled = source.reconciled,
           seen' = seen \/ DOMAIN seen'.content = {},
           BarrierInv', CensusInv', LoopInv', EpochInv'
    PROVE  UpdatesInv'
<1>1. \A f \in DOMAIN seen'.content :
               /\ f \in Members /\ seen'.watermark = seen.watermark
               /\ \/ f \in DOMAIN seen.content /\ seen'.content[f] = seen.content[f]
                  \/ seen'.content[f] = disk[f]
  BY Zenon DEF UpdatesInv, CensusInv
<1>2. query' \in [Queries -> QueryRecords]
  BY Zenon DEF UpdatesInv, QueryTypes
<1>3. \A q \in Queries :
               /\ query'[q].at = query[q].at /\ query'[q].policy = query[q].policy
               /\ query'[q].target = query[q].target /\ query'[q].pin = query[q].pin
               /\ query'[q].held = query[q].held /\ posting'[q] = posting[q]
  BY Zenon
<1> QED
  BY Zenon, <1>1, <1>2, <1>3, LoopKeeps

\* A census that is not read on.
LEMMA CensusKept ==
    ASSUME UpdatesInv, Settles, disk' = disk, full'.admitted \in Nat,
           full.admitted <= full'.admitted,
           seen' = seen \/ (DOMAIN seen'.content = {} /\ seen'.watermark = 0)
                        \/ (DOMAIN seen'.content = {} /\ seen'.watermark = full.admitted)
    PROVE  CensusInv'
<1>1. /\ seen.watermark \in Nat /\ full.admitted \in Nat /\ seen.watermark <= full.admitted
      /\ DOMAIN seen.content \subseteq Members
  BY DEF UpdatesInv, CensusInv, LoopTypes, TreeTypes, Censuses, Barriers
<1>2. CASE seen' = seen
  <2>1. PICK w \in Nat : w = seen.watermark
    BY <1>1
  <2>2. Quiet(seen.watermark)' => Quiet(seen.watermark)
    BY Zenon, <1>1, <1>2, <2>1 DEF Settles, Quiet
  <2>3. seen'.watermark <= full'.admitted
    BY <1>1, <1>2
  <2> QED
    BY Zenon, <1>1, <1>2, <2>2, <2>3 DEF CensusInv, UpdatesInv, Members
<1>3. CASE DOMAIN seen'.content = {} /\ seen'.watermark \in {0, full.admitted}
  <2>1. seen'.watermark <= full'.admitted
    BY <1>1, <1>3
  <2> QED
    BY Zenon, <1>3, <2>1 DEF CensusInv
<1> QED
  BY Zenon, <1>2, <1>3

\* Epochs that a step of the loop leaves alone, or settles.
LEMMA EpochsKept ==
    ASSUME UpdatesInv, Settles, disk' = disk, slot' = slot, published' = published,
           generation' = generation, validation' = validation,
           unresolved' \in {None, unresolved},
           unresolved' # None /\ loop.recover => loop'.recover,
           source'.reconciled = source.reconciled
    PROVE  EpochInv'
<1>1. source.reconciled \in Nat /\ source.reconciled <= full.admitted
  BY DEF UpdatesInv, BarrierInv, TreeTypes, Barriers
<1>2. PICK w \in Nat : w = source.reconciled
  BY <1>1
<1>3. Quiet(source.reconciled)' => Quiet(source.reconciled)
  BY Zenon, <1>1, <1>2 DEF Settles, Quiet
<1>4. EpochInv
  BY Zenon DEF UpdatesInv
<1> QED
  BY Zenon, <1>3, <1>4 DEF EpochInv, Members

\* An interrupted reconciliation leaves a request behind.
LEMMA UnsettledStep ==
    ASSUME UpdatesInv, Unsettled,
           UNCHANGED <<tree, counted, events, source, published, epochs, query>>
    PROVE  UpdatesInv'
<1>1. /\ disk' = disk /\ unseen' = unseen /\ lost' = lost /\ counted' = counted
      /\ events' = events /\ source' = source /\ published' = published /\ query' = query
      /\ generation' = generation /\ slot' = slot /\ unresolved' = unresolved
      /\ validation' = validation /\ seen' = idleCensus /\ build' = idleBuild /\ Admit("loop")
  BY DEF tree, epochs, Unsettled
<1>2. /\ full' \in Barriers /\ full'.admitted = full.admitted + 1
      /\ full'.reconciled = full.reconciled /\ posting' \in [Threads -> Nat]
      /\ \A q \in Queries : posting'[q] = posting[q]
      /\ BarrierInv'
  BY Zenon, <1>1, AdmitStep, ThreadNames
<1>3. /\ source \in Barriers /\ published \in Nat /\ full.admitted \in Nat
      /\ source.admitted \in Nat /\ loop \in Loops
  BY DEF UpdatesInv, TreeTypes, LoopTypes, Barriers
<1>4. /\ full.admitted <= full'.admitted /\ source.admitted <= source'.admitted
      /\ full'.admitted \in Nat /\ full'.admitted >= full.admitted
  BY <1>1, <1>2, <1>3
<1>5. Settles
  BY Zenon, <1>1, <1>4, CalmSettles
<1>6. /\ loop' \in Loops /\ loop'.pc = "Mirror" /\ loop'.then = "Select"
      /\ loop'.recover = loop.recover
  <2>1. idleLoop \in Loops /\ idleLoop.then = "Select"
    BY IdleTypes DEF idleLoop
  <2> QED
    BY <1>3, <2>1 DEF Unsettled, Leaves, Loops, Pcs
<1>7. LoopTypes'
  BY Zenon, <1>1, <1>6, IdleTypes DEF UpdatesInv, LoopTypes
<1>8. DOMAIN seen'.content = {} /\ seen'.watermark = 0
  BY Zenon, <1>1, IdleTypes
<1>9. CensusInv'
  BY Zenon, <1>1, <1>4, <1>5, <1>8, CensusKept
<1>10. LoopInv'
  BY <1>6, <1>8 DEF LoopInv
<1>11. EpochInv'
  BY Zenon, <1>1, <1>5, <1>6, EpochsKept
<1> QED
  BY Zenon, <1>1, <1>2, <1>3, <1>4, <1>7, <1>8, <1>9, <1>10, <1>11, LoopWorks

\* A step of the loop between its census and its build, which no other thread
\* can tell.
LEMMA PlainStep ==
    ASSUME UpdatesInv,
           UNCHANGED <<tree, counted, events, full, source, published, posting, generation,
                       slot, validation, query>>,
           unresolved' \in {None, unresolved},
           unresolved' # None /\ loop.recover => loop'.recover,
           loop' \in Loops, seen' \in Censuses, build' \in Builds,
           seen' = seen \/ (DOMAIN seen'.content = {} /\ seen'.watermark = 0)
                        \/ (DOMAIN seen'.content = {} /\ seen'.watermark = full.admitted),
           LoopInv'
    PROVE  UpdatesInv'
<1>1. /\ disk' = disk /\ unseen' = unseen /\ lost' = lost /\ counted' = counted
      /\ events' = events /\ source' = source /\ published' = published /\ query' = query
      /\ generation' = generation /\ slot' = slot /\ full' = full /\ posting' = posting
      /\ validation' = validation
  BY DEF tree
<1>2. /\ source \in Barriers /\ published \in Nat /\ full \in Barriers /\ full.admitted \in Nat
      /\ source.admitted \in Nat /\ posting \in [Threads -> Nat]
  BY DEF UpdatesInv, TreeTypes, Barriers
<1>3. /\ full.admitted <= full'.admitted /\ source.admitted <= source'.admitted
      /\ full'.admitted \in Nat /\ full'.admitted >= full.admitted
  BY <1>1, <1>2
<1>4. Settles
  BY Zenon, <1>1, <1>3, CalmSettles
<1>5. LoopTypes'
  BY Zenon, <1>1, IdleTypes DEF UpdatesInv, LoopTypes
<1>6. CensusInv'
  BY Zenon, <1>1, <1>3, <1>4, CensusKept
<1>7. EpochInv'
  BY Zenon, <1>1, <1>4, EpochsKept
<1>8. BarrierInv'
  BY Zenon, <1>1 DEF UpdatesInv, BarrierInv
<1> QED
  BY Zenon, <1>1, <1>2, <1>3, <1>5, <1>6, <1>7, <1>8, LoopWorks

\* The loop's program counter moves.
LEMMA GoesTo ==
    ASSUME UpdatesInv, NEW pc \in Pcs, Goes(pc)
    PROVE  /\ loop' \in Loops /\ loop'.pc = pc /\ loop'.then = loop.then
           /\ loop'.recover = loop.recover
  BY DEF UpdatesInv, LoopTypes, Goes, Loops

\* The loop leaves a reconciliation.
LEMMA LeavesTo ==
    ASSUME UpdatesInv, NEW pc \in Pcs, Leaves(pc)
    PROVE  /\ loop' \in Loops /\ loop'.pc = pc /\ loop'.then = "Select"
           /\ loop'.recover = loop.recover
<1>1. idleLoop \in Loops /\ idleLoop.then = "Select" /\ loop \in Loops
  BY IdleTypes DEF idleLoop, UpdatesInv, LoopTypes
<1> QED
  BY <1>1 DEF Leaves, Loops

\* A reconciliation fails.
LEMMA ErrsStep ==
    ASSUME UpdatesInv, Errs,
           UNCHANGED <<tree, observation, generation, slot, validation, query>>,
           unresolved' \in {None, unresolved}
    PROVE  UpdatesInv'
<1>1. UNCHANGED <<tree, counted, events, full, source, published, posting, generation,
                  slot, validation, query>>
  BY DEF observation
<1>2. seen' = idleCensus /\ build' = idleBuild /\ Leaves("Error")
  BY Zenon DEF Errs
<1>3. "Error" \in Pcs
  BY DEF Pcs
<1>4. loop' \in Loops /\ loop'.pc = "Error" /\ loop'.recover = loop.recover
  BY Zenon, <1>2, <1>3, LeavesTo
<1>5. seen' \in Censuses /\ build' \in Builds /\ DOMAIN seen'.content = {} /\ seen'.watermark = 0
  BY Zenon, <1>2, IdleTypes
<1>6. LoopInv'
  BY <1>5, <1>4 DEF LoopInv
<1> QED
  BY Zenon, <1>1, <1>4, <1>5, <1>6, PlainStep

\* The loop asks for a census itself.
LEMMA AskStep ==
    ASSUME UpdatesInv, NEW pc \in {"Begin", "Select", "Build"}, AskAgain(pc),
           UNCHANGED <<tree, counted, events, source, published, epochs, seen, build, query>>,
           pc # "Build" => DOMAIN seen.content = {},
           pc = "Build" => ~loop.recover
    PROVE  UpdatesInv'
<1>1. /\ disk' = disk /\ unseen' = unseen /\ lost' = lost /\ counted' = counted
      /\ events' = events /\ source' = source /\ published' = published /\ query' = query
      /\ generation' = generation /\ slot' = slot /\ unresolved' = unresolved
      /\ validation' = validation /\ seen' = seen /\ build' = build /\ Admit("loop")
  BY DEF tree, epochs, AskAgain
<1>2. /\ full' \in Barriers /\ full'.admitted = full.admitted + 1
      /\ full'.reconciled = full.reconciled /\ posting' \in [Threads -> Nat]
      /\ \A q \in Queries : posting'[q] = posting[q]
      /\ BarrierInv'
  BY Zenon, <1>1, AdmitStep, ThreadNames
<1>3. /\ source \in Barriers /\ published \in Nat /\ full.admitted \in Nat
      /\ source.admitted \in Nat /\ loop \in Loops
  BY DEF UpdatesInv, TreeTypes, LoopTypes, Barriers
<1>4. /\ full.admitted <= full'.admitted /\ source.admitted <= source'.admitted
      /\ full'.admitted \in Nat /\ full'.admitted >= full.admitted
  BY <1>1, <1>2, <1>3
<1>5. Settles
  BY Zenon, <1>1, <1>4, CalmSettles
<1>6. /\ loop' \in Loops /\ loop'.pc = "Mirror" /\ loop'.then = pc
      /\ loop'.recover = loop.recover
  BY <1>3 DEF AskAgain, Loops, Pcs
<1>7. LoopTypes'
  BY Zenon, <1>1, <1>6 DEF UpdatesInv, LoopTypes
<1>8. CensusInv'
  BY Zenon, <1>1, <1>4, <1>5, CensusKept
<1>9. LoopInv'
  BY <1>1, <1>6 DEF LoopInv
<1>10. EpochInv'
  BY Zenon, <1>1, <1>5, <1>6, EpochsKept
<1> QED
  BY Zenon, <1>1, <1>2, <1>3, <1>4, <1>7, <1>8, <1>9, <1>10, LoopWorks

\* A notification changes nothing a query relies on.
LEMMA NotifyKeeps ==
    ASSUME UpdatesInv, NEW policies, Notify(policies)
    PROVE  /\ query' \in [Queries -> QueryRecords]
           /\ \A q \in Queries :
                /\ query'[q].at = query[q].at /\ query'[q].policy = query[q].policy
                /\ query'[q].target = query[q].target /\ query'[q].pin = query[q].pin
                /\ query'[q].held = query[q].held
<1>1. query \in [Queries -> QueryRecords]
  BY Zenon DEF UpdatesInv, QueryTypes
<1>2. ASSUME NEW q \in Queries
      PROVE  /\ query'[q] \in QueryRecords
             /\ query'[q].at = query[q].at /\ query'[q].policy = query[q].policy
             /\ query'[q].target = query[q].target /\ query'[q].pin = query[q].pin
             /\ query'[q].held = query[q].held
  <2>1. query'[q] = query[q] \/ query'[q] = [query[q] EXCEPT !.notified = TRUE]
    BY DEF Notify
  <2>2. query[q] \in QueryRecords
    BY <1>1
  <2> QED
    BY <2>1, <2>2 DEF QueryRecords
<1>3. query' = [q \in Queries |-> query'[q]]
  BY DEF Notify
<1> QED
  BY Zenon, <1>2, <1>3

\* The select at the top of the loop.
LEMMA SelectStep ==
    ASSUME UpdatesInv, Select
    PROVE  UpdatesInv'
<1>1. loop.pc = "Select" /\ DOMAIN seen.content = {}
  BY DEF Select, At, UpdatesInv, LoopInv
<1>2. CASE AskAgain("Begin")
  BY <1>1, <1>2, AskStep DEF Select
<1>3. ASSUME NEW pc \in {"Stopped", "Begin"}, Goes(pc), UNCHANGED <<full, posting>>
      PROVE  UpdatesInv'
  <2>1. pc \in Pcs
    BY DEF Pcs
  <2>2. loop' \in Loops /\ loop'.pc = pc /\ loop'.recover = loop.recover
    BY Zenon, <1>3, <2>1, GoesTo
  <2>3. /\ UNCHANGED <<tree, counted, events, full, source, published, posting, generation,
                       slot, validation, query>>
        /\ seen' = seen /\ build' = build /\ unresolved' = unresolved
    BY <1>3 DEF Select, epochs
  <2>4. LoopInv'
    BY <1>1, <2>3, <2>2 DEF LoopInv
  <2>5. seen' \in Censuses /\ build' \in Builds
    BY Zenon, <2>3 DEF UpdatesInv, LoopTypes
  <2> QED
    BY Zenon, <2>2, <2>3, <2>4, <2>5, PlainStep
<1> QED
  BY Zenon, <1>2, <1>3 DEF Select

\* The loop mirrors its own request and goes on.
LEMMA LoopMirrorsStep ==
    ASSUME UpdatesInv, LoopMirrors
    PROVE  UpdatesInv'
<1>1. /\ disk' = disk /\ unseen' = unseen /\ lost' = lost /\ counted' = counted
      /\ events' = events /\ full' = full /\ published' = published /\ query' = query
      /\ generation' = generation /\ slot' = slot /\ unresolved' = unresolved
      /\ validation' = validation /\ seen' = seen /\ build' = build /\ Mirror("loop")
      /\ loop.pc = "Mirror"
  BY DEF LoopMirrors, tree, epochs, At
<1>2. /\ source' \in Barriers /\ source'.admitted >= source.admitted
      /\ source'.reconciled = source.reconciled /\ posting' \in [Threads -> Nat]
      /\ \A q \in Queries : posting'[q] = posting[q]
      /\ BarrierInv'
  BY Zenon, <1>1, MirrorStep, ThreadNames
<1>3. /\ full \in Barriers /\ published \in Nat /\ full.admitted \in Nat
      /\ source.admitted \in Nat /\ loop \in Loops /\ source'.admitted \in Nat
  BY <1>2 DEF UpdatesInv, TreeTypes, LoopTypes, Barriers
<1>4. /\ full.admitted <= full'.admitted /\ source.admitted <= source'.admitted
      /\ full'.admitted \in Nat /\ full'.admitted >= full.admitted
  BY <1>1, <1>2, <1>3
<1>5. Settles
  BY Zenon, <1>1, <1>4, CalmSettles
<1>6. /\ loop' \in Loops /\ loop'.pc = loop.then /\ loop'.recover = loop.recover
      /\ loop.then \in {"Select", "Begin", "Build"}
  BY <1>3 DEF LoopMirrors, Goes, Loops, Pcs
<1>7. LoopTypes'
  BY Zenon, <1>1, <1>6 DEF UpdatesInv, LoopTypes
<1>8. CensusInv'
  BY Zenon, <1>1, <1>4, <1>5, CensusKept
<1>9. LoopInv'
  <2>1. LoopInv
    BY Zenon DEF UpdatesInv
  <2> QED
    BY <1>1, <1>6, <2>1 DEF LoopInv
<1>10. EpochInv'
  BY Zenon, <1>1, <1>2, <1>5, <1>6, EpochsKept
<1> QED
  BY Zenon, <1>1, <1>2, <1>3, <1>4, <1>7, <1>8, <1>9, <1>10, LoopWorks

\* The pause after a failure: both barriers are unavailable, and the loop asks
\* again when it resumes.
LEMMA BackoffStep ==
    ASSUME UpdatesInv, MarkUnavailable \/ Resume
    PROVE  UpdatesInv'
<1>1. loop.pc \in {"Error", "Backoff"} /\ DOMAIN seen.content = {}
  BY DEF MarkUnavailable, Resume, At, UpdatesInv, LoopInv
<1>2. CASE AskAgain("Select") /\ Resume
  BY <1>1, <1>2, AskStep DEF Resume
<1>3. CASE Goes("Stopped") /\ UNCHANGED <<full, source, posting, query>>
  <2>1. "Stopped" \in Pcs
    BY DEF Pcs
  <2>2. loop' \in Loops /\ loop'.pc = "Stopped" /\ loop'.recover = loop.recover
    BY Zenon, <1>3, <2>1, GoesTo
  <2>3. /\ UNCHANGED <<tree, counted, events, full, source, published, posting, generation,
                       slot, validation, query>>
        /\ seen' = seen /\ build' = build /\ unresolved' = unresolved
    BY <1>3 DEF MarkUnavailable, Resume, epochs
  <2>4. LoopInv'
    BY <1>1, <2>3, <2>2 DEF LoopInv
  <2>5. seen' \in Censuses /\ build' \in Builds
    BY Zenon, <2>3 DEF UpdatesInv, LoopTypes
  <2> QED
    BY Zenon, <2>2, <2>3, <2>4, <2>5, PlainStep
<1>4. CASE MarkUnavailable /\ ~cancelled
  <2>1. /\ disk' = disk /\ unseen' = unseen /\ lost' = lost /\ counted' = counted
        /\ events' = events /\ published' = published /\ posting' = posting
        /\ generation' = generation /\ slot' = slot /\ unresolved' = unresolved
        /\ validation' = validation /\ seen' = seen /\ build' = build
        /\ Goes("Backoff") /\ Notify(Policies)
        /\ full' = [full EXCEPT !.unavailable = TRUE]
        /\ source' = [source EXCEPT !.unavailable = TRUE]
    BY <1>4 DEF MarkUnavailable, tree, epochs
  <2>2. /\ full' \in Barriers /\ full'.admitted = full.admitted /\ full.admitted \in Nat
        /\ full'.reconciled = full.reconciled /\ source' \in Barriers
        /\ source'.admitted = source.admitted /\ source'.reconciled = source.reconciled
        /\ source.admitted \in Nat
    BY <2>1 DEF UpdatesInv, TreeTypes, Barriers
  <2>3. BarrierInv'
    BY Zenon, <2>1, <2>2 DEF UpdatesInv, BarrierInv
  <2>4. /\ full.admitted <= full'.admitted /\ source.admitted <= source'.admitted
        /\ full'.admitted \in Nat /\ full'.admitted >= full.admitted
    BY <2>2
  <2>5. Settles
    BY Zenon, <2>1, <2>4, CalmSettles
  <2>6. "Backoff" \in Pcs
    BY DEF Pcs
  <2>7. loop' \in Loops /\ loop'.pc = "Backoff" /\ loop'.recover = loop.recover
    BY Zenon, <2>1, <2>6, GoesTo
  <2>8. LoopTypes'
    BY Zenon, <2>1, <2>7 DEF UpdatesInv, LoopTypes
  <2>9. LoopInv'
    BY <1>1, <2>1, <2>7 DEF LoopInv
  <2>10. CensusInv'
    BY Zenon, <2>1, <2>4, <2>5, CensusKept
  <2>11. EpochInv'
    BY Zenon, <2>1, <2>2, <2>5, <2>7, EpochsKept
  <2>12. published \in Nat /\ posting \in [Threads -> Nat]
    BY Zenon DEF UpdatesInv, TreeTypes
  <2>13. \A f \in DOMAIN seen'.content :
               /\ f \in Members /\ seen'.watermark = seen.watermark
               /\ \/ f \in DOMAIN seen.content /\ seen'.content[f] = seen.content[f]
                  \/ seen'.content[f] = disk[f]
    BY Zenon, <1>1, <2>1
  <2>14. /\ query' \in [Queries -> QueryRecords]
         /\ \A q \in Queries :
               /\ query'[q].at = query[q].at /\ query'[q].policy = query[q].policy
               /\ query'[q].target = query[q].target /\ query'[q].pin = query[q].pin
               /\ query'[q].held = query[q].held /\ posting'[q] = posting[q]
    BY Zenon, <2>1, NotifyKeeps
  <2> QED
    BY Zenon, <2>1, <2>2, <2>3, <2>4, <2>8, <2>9, <2>10, <2>11, <2>12, <2>13, <2>14, LoopKeeps
<1> QED
  BY Zenon, <1>2, <1>3, <1>4 DEF MarkUnavailable, Resume

\* The unresolved publication is settled: the selected epoch is the one it was,
\* or the candidate.
LEMMA RecoverStep ==
    ASSUME UpdatesInv, RecoverPublication
    PROVE  UpdatesInv'
<1>1. loop.pc = "Begin" /\ DOMAIN seen.content = {} /\ loop.recover
  BY DEF RecoverPublication, At, UpdatesInv, LoopInv
<1>2. CASE Errs /\ UNCHANGED <<slot, unresolved, open>>
  <2>1. UNCHANGED <<tree, observation, generation, slot, validation, query>> /\ unresolved' = unresolved
    BY <1>2 DEF RecoverPublication
  <2> QED
    BY Zenon, <1>2, <2>1, ErrsStep
<1>3. CASE /\ slot' \in IF unresolved = None THEN {slot} ELSE {slot, unresolved}
           /\ unresolved' = None /\ loop' = [loop EXCEPT !.recover = FALSE]
           /\ UNCHANGED <<seen, build, left>>
  <2>1. /\ disk' = disk /\ unseen' = unseen /\ lost' = lost /\ counted' = counted
        /\ events' = events /\ published' = published /\ posting' = posting
        /\ generation' = generation /\ validation' = validation /\ seen' = seen /\ build' = build
        /\ full' = full /\ source' = source /\ query' = query
    BY <1>3 DEF RecoverPublication, tree, observation
  <2>2. slot' = slot \/ (unresolved # None /\ slot' = unresolved)
    BY Zenon, <1>3
  <2>3. /\ full \in Barriers /\ source \in Barriers /\ published \in Nat
        /\ posting \in [Threads -> Nat] /\ full.admitted \in Nat /\ source.admitted \in Nat
        /\ full.admitted <= full.admitted /\ source.admitted <= source.admitted
        /\ full.admitted >= full.admitted /\ generation \in Nat /\ generation <= generation
    BY DEF UpdatesInv, TreeTypes, LoopTypes, Barriers
  <2>4. Settles
    BY Zenon, <2>1, <2>3, CalmSettles
  <2>5. loop' \in Loops /\ loop'.pc = "Begin" /\ loop'.recover = FALSE
    BY <1>1, <1>3 DEF UpdatesInv, LoopTypes, Loops
  <2>6. LoopTypes'
    BY Zenon, <1>3, <2>1, <2>2, <2>5, IdleTypes DEF UpdatesInv, LoopTypes
  <2>7. LoopInv'
    BY <1>1, <2>1, <2>5 DEF LoopInv
  <2>8. CensusInv'
    BY Zenon, <2>1, <2>3, <2>4, CensusKept
  <2>9. EpochInv
    BY Zenon DEF UpdatesInv
  <2>10. EpochInv'
    BY Zenon, <1>3, <2>1, <2>2, <2>3, <2>9 DEF EpochInv, Quiet, Members
  <2>11. BarrierInv'
    BY Zenon, <2>1 DEF UpdatesInv, BarrierInv
  <2>12. \A f \in DOMAIN seen'.content :
               /\ f \in Members /\ seen'.watermark = seen.watermark
               /\ \/ f \in DOMAIN seen.content /\ seen'.content[f] = seen.content[f]
                  \/ seen'.content[f] = disk[f]
    BY Zenon, <1>1, <2>1
  <2>13. /\ query' \in [Queries -> QueryRecords]
         /\ \A q \in Queries :
               /\ query'[q].at = query[q].at /\ query'[q].policy = query[q].policy
               /\ query'[q].target = query[q].target /\ query'[q].pin = query[q].pin
               /\ query'[q].held = query[q].held /\ posting'[q] = posting[q]
    BY Zenon, <2>1 DEF UpdatesInv, QueryTypes
  <2>14. unresolved' \in {None, unresolved}
    BY Zenon, <1>3
  <2> QED
    BY Zenon, <2>1, <2>2, <2>3, <2>6, <2>7, <2>8, <2>10, <2>11, <2>12, <2>13, <2>14, LoopKeeps
<1> QED
  BY Zenon, <1>2, <1>3 DEF RecoverPublication

\* A census reads the watermark before it walks.
LEMMA ObserveStep ==
    ASSUME UpdatesInv, ObserveWatermark
    PROVE  UpdatesInv'
<1>1. DOMAIN seen.content = {} /\ ~loop.recover
  BY DEF ObserveWatermark, At, UpdatesInv, LoopInv
<1>2. /\ UNCHANGED <<tree, observation, generation, slot, validation, query>>
      /\ UNCHANGED <<tree, counted, events, full, source, published, posting, generation,
                     slot, validation, query>>
      /\ unresolved' = unresolved
  BY DEF ObserveWatermark, epochs, observation
<1>3. CASE Errs
  BY Zenon, <1>2, <1>3, ErrsStep
<1>4. CASE /\ seen' = [seen EXCEPT !.watermark = full.admitted, !.events = events,
                                   !.gen = generation]
           /\ Goes("Walk") /\ UNCHANGED <<build, left>>
  <2>1. "Walk" \in Pcs
    BY DEF Pcs
  <2>2. loop' \in Loops /\ loop'.pc = "Walk" /\ loop'.recover = loop.recover
    BY Zenon, <1>4, <2>1, GoesTo
  <2>3. full.admitted \in Nat /\ events \in Nat /\ generation \in Nat /\ seen \in Censuses
        /\ build \in Builds
    BY DEF UpdatesInv, TreeTypes, LoopTypes, Barriers
  <2>4. /\ seen' \in Censuses /\ seen'.content = seen.content
        /\ seen'.watermark = full.admitted /\ seen'.gen = generation
    BY <1>4, <2>3 DEF Censuses
  <2>5. source.reconciled <= full.admitted /\ full.reconciled <= full.admitted
    BY DEF UpdatesInv, TreeTypes, Barriers, BarrierInv
  <2>6. LoopInv'
    BY <1>1, <1>2, <2>2, <2>4, <2>5 DEF LoopInv
  <2>7. build' \in Builds
    BY Zenon, <1>4, <2>3
  <2> QED
    BY Zenon, <1>1, <1>2, <2>2, <2>4, <2>6, <2>7, PlainStep
<1> QED
  BY Zenon, <1>3, <1>4 DEF ObserveWatermark

\* The walk reads a file: its content is what the file holds now.
LEMMA ReadStep ==
    ASSUME UpdatesInv, NEW f \in Members, ReadFile(f)
    PROVE  UpdatesInv'
<1>1. /\ disk' = disk /\ unseen' = unseen /\ lost' = lost /\ counted' = counted
      /\ events' = events /\ published' = published /\ posting' = posting
      /\ generation' = generation /\ validation' = validation /\ loop' = loop /\ build' = build
      /\ full' = full /\ source' = source /\ query' = query /\ slot' = slot
      /\ unresolved' = unresolved /\ loop.pc = "Walk" /\ f \notin DOMAIN seen.content
  BY DEF ReadFile, tree, observation, epochs, At
<1>2. PICK c : c = [g \in DOMAIN seen.content \cup {f} |-> IF g = f THEN disk[f] ELSE seen.content[g]]
  OBVIOUS
<1>3. seen \in Censuses /\ seen.content \in PartialTrees /\ disk \in PartialTrees
  BY DEF UpdatesInv, LoopTypes, TreeTypes, Censuses
<1>4. /\ seen.content \in [DOMAIN seen.content -> Contents] /\ DOMAIN seen.content \subseteq Files
      /\ disk \in [Members -> Contents] /\ Members \subseteq Files
  BY Zenon, <1>3, TreeMembers DEF Members
<1>5. /\ DOMAIN c = DOMAIN seen.content \cup {f} /\ c \in [DOMAIN seen.content \cup {f} -> Contents]
      /\ c[f] = disk[f] /\ \A g \in DOMAIN seen.content : c[g] = seen.content[g]
  BY <1>1, <1>2, <1>4
<1>6. c \in PartialTrees
  <2>1. DOMAIN seen.content \cup {f} \in SUBSET Files
    BY <1>4
  <2> QED
    BY Zenon, <1>5, <2>1, TreeMembers
<1>7. seen' = [seen EXCEPT !.content = c]
  BY <1>2, <1>3 DEF ReadFile, Censuses
<1>8. /\ seen' \in Censuses /\ seen'.content = c /\ seen'.watermark = seen.watermark
      /\ seen'.gen = seen.gen
  BY <1>3, <1>6, <1>7 DEF Censuses
<1>9. CensusInv /\ LoopInv /\ EpochInv /\ BarrierInv
  BY Zenon DEF UpdatesInv
<1>10. CensusInv'
  BY ZenonT(40), <1>1, <1>5, <1>8, <1>9 DEF CensusInv, Quiet, Members
<1>11. LoopInv'
  BY <1>1, <1>8, <1>9 DEF LoopInv, Members
<1>12. EpochInv' /\ BarrierInv'
  BY Zenon, <1>1, <1>9 DEF EpochInv, BarrierInv, Quiet, Members
<1>13. LoopTypes'
  BY Zenon, <1>1, <1>8 DEF UpdatesInv, LoopTypes
<1>14. \A g \in DOMAIN seen'.content :
               /\ g \in Members /\ seen'.watermark = seen.watermark
               /\ \/ g \in DOMAIN seen.content /\ seen'.content[g] = seen.content[g]
                  \/ seen'.content[g] = disk[g]
  BY Zenon, <1>5, <1>8, <1>9 DEF CensusInv
<1>15. /\ query' \in [Queries -> QueryRecords]
       /\ \A q \in Queries :
               /\ query'[q].at = query[q].at /\ query'[q].policy = query[q].policy
               /\ query'[q].target = query[q].target /\ query'[q].pin = query[q].pin
               /\ query'[q].held = query[q].held /\ posting'[q] = posting[q]
  BY Zenon, <1>1 DEF UpdatesInv, QueryTypes
<1>16. /\ full \in Barriers /\ source \in Barriers /\ published \in Nat
       /\ posting \in [Threads -> Nat]
       /\ full.admitted <= full.admitted /\ source.admitted <= source.admitted
  BY DEF UpdatesInv, TreeTypes, Barriers
<1> QED
  BY Zenon, <1>1, <1>10, <1>11, <1>12, <1>13, <1>14, <1>15, <1>16, LoopKeeps

\* A whole census is the tree, when all is quiet with a request no later than
\* the watermark it read.
LEMMA CensusIsTheTree ==
    ASSUME UpdatesInv, NEW w \in Nat, w <= seen.watermark, Quiet(w),
           DOMAIN seen.content = Members
    PROVE  seen.content = disk
<1>1. /\ seen.watermark \in Nat /\ full.admitted \in Nat /\ seen.watermark <= full.admitted
      /\ seen.content \in PartialTrees /\ disk \in PartialTrees
  BY DEF UpdatesInv, LoopTypes, TreeTypes, Censuses, Barriers, CensusInv
<1>2. Quiet(seen.watermark)
  BY <1>1 DEF Quiet
<1>3. \A f \in DOMAIN seen.content : seen.content[f] = disk[f]
  BY Zenon, <1>2 DEF UpdatesInv, CensusInv
<1>4. seen.content \in [Members -> Contents] /\ disk \in [Members -> Contents]
  BY Zenon, <1>1, TreeMembers DEF Members
<1> QED
  BY <1>3, <1>4

\* The loop publishes a generation it is about to reconcile to.
LEMMA PublishesTo ==
    ASSUME UpdatesInv, NEW pc \in {"Select", "Build"}, NEW semantic \in BOOLEAN
    PROVE  /\ Publishes(semantic, pc) \in Loops /\ Publishes(semantic, pc).pc = "Publish"
           /\ Publishes(semantic, pc).recover = loop.recover
           /\ Publishes(semantic, pc).observed = loop.observed
  BY DEF UpdatesInv, LoopTypes, Publishes, Loops, Pcs

\* The first census of a reconciliation.
LEMMA FirstCensusStep ==
    ASSUME UpdatesInv, FirstCensus
    PROVE  UpdatesInv'
<1>1. /\ loop.pc = "Walk" /\ DOMAIN seen.content = Members
  BY DEF FirstCensus, Fenced, At
<1>2. /\ UNCHANGED <<tree, counted, events, full, source, published, posting, generation,
                     slot, validation, query>>
      /\ unresolved' = unresolved /\ seen' = seen /\ build' = build
  BY DEF FirstCensus, epochs, observation
<1>3. LoopInv /\ loop \in Loops /\ seen \in Censuses /\ build \in Builds
  BY Zenon DEF UpdatesInv, LoopTypes
<1>4. ~loop.recover
  BY <1>1, <1>3 DEF LoopInv
<1>5. PICK l, o, s : /\ l = (IF ~Matches(slot) THEN [loop EXCEPT !.pc = "Advance"]
                             ELSE IF slot.pending THEN Publishes(FALSE, "Build")
                             ELSE Publishes(TRUE, "Select"))
                     /\ o = [content |-> seen.content, events |-> seen.events]
                     /\ s = (IF Matches(slot) THEN "Semantic" ELSE "Source")
  OBVIOUS
<1>6. loop' = [l EXCEPT !.observed = o, !.stage = s]
  BY Zenon, <1>5 DEF FirstCensus
<1>7. /\ l \in Loops /\ l.recover = loop.recover /\ l.pc \in {"Advance", "Publish"}
      /\ l.pc = "Publish" => Matches(slot)
  <2>1. CASE ~Matches(slot)
    <3>1. l = [loop EXCEPT !.pc = "Advance"]
      BY Zenon, <1>5, <2>1
    <3> QED
      BY <1>3, <3>1 DEF Loops, Pcs
  <2>2. CASE Matches(slot)
    <3>1. l = Publishes(FALSE, "Build") \/ l = Publishes(TRUE, "Select")
      BY Zenon, <1>5, <2>2
    <3> QED
      BY <2>2, <3>1, PublishesTo
  <2> QED
    BY Zenon, <2>1, <2>2
<1>8. o \in [content : PartialTrees, events : Nat] /\ s \in {"Source", "Semantic"}
  BY <1>3, <1>5 DEF Censuses
<1>9. loop' \in Loops /\ loop'.pc = l.pc /\ loop'.recover = l.recover
  BY <1>6, <1>7, <1>8 DEF Loops
<1>10. LoopInv'
  BY <1>1, <1>2, <1>3, <1>4, <1>7, <1>9 DEF LoopInv, Matches
<1>11. seen' \in Censuses /\ build' \in Builds
  BY Zenon, <1>2, <1>3
<1> QED
  BY Zenon, <1>2, <1>4, <1>9, <1>10, <1>11, PlainStep

\* The durable generation advances past the selected epoch's.
LEMMA AdvanceStep ==
    ASSUME UpdatesInv, AdvanceGeneration
    PROVE  UpdatesInv'
<1>1. loop.pc = "Advance"
  BY DEF AdvanceGeneration, At
<1>2. LoopInv /\ loop \in Loops /\ seen \in Censuses /\ build \in Builds /\ EpochInv
  BY Zenon DEF UpdatesInv, LoopTypes
<1>3. ~loop.recover /\ seen.gen = generation
  BY <1>1, <1>2 DEF LoopInv
<1>4. CASE Errs /\ UNCHANGED generation
  <2>1. UNCHANGED <<tree, observation, generation, slot, validation, query>> /\ unresolved' = unresolved
    BY <1>4 DEF AdvanceGeneration
  <2> QED
    BY Zenon, <1>4, <2>1, ErrsStep
<1>5. CASE generation' = seen.gen + 1 /\ Goes("Build") /\ UNCHANGED <<seen, build, left>>
  <2>1. /\ disk' = disk /\ unseen' = unseen /\ lost' = lost /\ counted' = counted
        /\ events' = events /\ published' = published /\ posting' = posting /\ slot' = slot
        /\ validation' = validation /\ seen' = seen /\ build' = build /\ unresolved' = unresolved
        /\ full' = full /\ source' = source /\ query' = query
    BY <1>5 DEF AdvanceGeneration, tree, observation
  <2>2. /\ full \in Barriers /\ source \in Barriers /\ published \in Nat
        /\ posting \in [Threads -> Nat] /\ full.admitted \in Nat /\ source.admitted \in Nat
        /\ full.admitted <= full.admitted /\ source.admitted <= source.admitted
        /\ full.admitted >= full.admitted /\ generation \in Nat /\ slot.gen \in Nat
    BY DEF UpdatesInv, TreeTypes, LoopTypes, Barriers, Epochs
  <2>3. Settles
    BY Zenon, <2>1, <2>2, CalmSettles
  <2>4. "Build" \in Pcs
    BY DEF Pcs
  <2>5. loop' \in Loops /\ loop'.pc = "Build" /\ loop'.recover = loop.recover
    BY Zenon, <1>5, <2>4, GoesTo
  <2>6. generation' \in Nat /\ slot.gen <= generation'
    BY <1>2, <1>3, <1>5, <2>2 DEF EpochInv
  <2>7. LoopTypes'
    BY Zenon, <2>1, <2>5, <2>6 DEF UpdatesInv, LoopTypes
  <2>8. LoopInv'
    BY <1>3, <2>5 DEF LoopInv
  <2>9. CensusInv'
    BY Zenon, <2>1, <2>2, <2>3, CensusKept
  <2>10. EpochInv'
    BY Zenon, <1>2, <1>3, <2>1, <2>6 DEF EpochInv, Quiet, Members
  <2>11. BarrierInv'
    BY Zenon, <2>1 DEF UpdatesInv, BarrierInv
  <2>12. unresolved' \in {None, unresolved}
    BY Zenon, <2>1
  <2> QED
    BY Zenon, <2>1, <2>2, <2>7, <2>8, <2>9, <2>10, <2>11, <2>12, LoopWorks
<1> QED
  BY Zenon, <1>4, <1>5 DEF AdvanceGeneration

\* The generation of the census is published: the selected epoch is the census.
LEMMA PublishStep ==
    ASSUME UpdatesInv, PublishGeneration
    PROVE  UpdatesInv'
<1>1. /\ disk' = disk /\ unseen' = unseen /\ lost' = lost /\ counted' = counted
      /\ events' = events /\ published' = seen.gen /\ posting' = posting /\ slot' = slot
      /\ validation' = validation /\ seen' = seen /\ build' = build /\ unresolved' = unresolved
      /\ full' = full /\ source' = source /\ query' = query /\ generation' = generation
      /\ loop.pc = "Publish" /\ Goes("RestoreSource")
  BY DEF PublishGeneration, tree, epochs, At
<1>2. LoopInv /\ EpochInv
  BY Zenon DEF UpdatesInv
<1>3. /\ full \in Barriers /\ source \in Barriers /\ seen.gen \in Nat
      /\ posting \in [Threads -> Nat] /\ full.admitted \in Nat /\ source.admitted \in Nat
      /\ full.admitted <= full.admitted /\ source.admitted <= source.admitted
      /\ full.admitted >= full.admitted /\ source.reconciled \in Nat
  BY DEF UpdatesInv, TreeTypes, LoopTypes, Barriers, Censuses
<1>4. /\ ~loop.recover /\ slot.content = seen.content /\ source.reconciled <= seen.watermark
  BY <1>1, <1>2 DEF LoopInv
<1>5. Settles
  BY Zenon, <1>1, <1>3, CalmSettles
<1>6. "RestoreSource" \in Pcs
  BY DEF Pcs
<1>7. loop' \in Loops /\ loop'.pc = "RestoreSource" /\ loop'.recover = loop.recover
  BY Zenon, <1>1, <1>6, GoesTo
<1>8. LoopTypes'
  BY Zenon, <1>1, <1>7 DEF UpdatesInv, LoopTypes
<1>9. LoopInv'
  BY <1>1, <1>2, <1>4, <1>7 DEF LoopInv
<1>10. CensusInv'
  BY Zenon, <1>1, <1>3, <1>5, CensusKept
<1>11. EpochInv'
  <2>1. Quiet(source.reconciled) => slot.content = disk
    <3>1. PICK w \in Nat : w = source.reconciled
      BY <1>3
    <3> QED
      BY Zenon, <1>2, <1>4, <3>1, CensusIsTheTree DEF EpochInv
  <2> QED
    BY Zenon, <1>1, <1>2, <1>4, <2>1 DEF EpochInv, Quiet, Members
<1>12. BarrierInv'
  BY Zenon, <1>1 DEF UpdatesInv, BarrierInv
<1>13. unresolved' \in {None, unresolved}
  BY Zenon, <1>1
<1> QED
  BY Zenon, <1>1, <1>3, <1>8, <1>9, <1>10, <1>11, <1>12, <1>13, LoopWorks

\* The loop goes on after a watermark is reconciled.
LEMMA ContinueTo ==
    ASSUME UpdatesInv, ~loop.recover, Continue
    PROVE  /\ loop' \in Loops /\ ~loop'.recover /\ loop'.pc \in {"Build", "Select"}
           /\ seen' \in Censuses /\ DOMAIN seen'.content = {} /\ seen'.watermark = 0
           /\ LoopInv'
<1>1. "Build" \in Pcs /\ "Select" \in Pcs
  BY DEF Pcs
<1>2. Goes("Build") \/ Leaves("Select")
  BY Zenon DEF Continue
<1>3. loop' \in Loops /\ ~loop'.recover /\ loop'.pc \in {"Build", "Select"}
  BY Zenon, <1>1, <1>2, GoesTo, LeavesTo
<1>4. seen' \in Censuses /\ DOMAIN seen'.content = {} /\ seen'.watermark = 0
  BY Zenon, IdleTypes DEF Continue
<1>5. LoopInv'
  BY <1>3, <1>4 DEF LoopInv
<1> QED
  BY Zenon, <1>3, <1>4, <1>5

\* A barrier is reconciled up to the watermark of the census.
LEMMA RestoreStep ==
    ASSUME UpdatesInv, RestoreSource \/ RestoreFull
    PROVE  UpdatesInv'
<1>1. /\ disk' = disk /\ unseen' = unseen /\ lost' = lost /\ counted' = counted
      /\ events' = events /\ published' = published /\ posting' = posting /\ slot' = slot
      /\ validation' = validation /\ build' = build /\ unresolved' = unresolved
      /\ generation' = generation /\ loop.pc \in {"RestoreSource", "RestoreFull"}
  BY DEF RestoreSource, RestoreFull, tree, epochs, At
<1>2. LoopInv /\ EpochInv /\ BarrierInv
  BY Zenon DEF UpdatesInv
<1>3. /\ full \in Barriers /\ source \in Barriers /\ seen.watermark \in Nat /\ seen \in Censuses
      /\ posting \in [Threads -> Nat] /\ full.admitted \in Nat /\ source.admitted \in Nat
      /\ source.reconciled \in Nat /\ full.reconciled \in Nat /\ published \in Nat
  BY DEF UpdatesInv, TreeTypes, LoopTypes, Barriers, Censuses
<1>4. /\ ~loop.recover /\ slot.content = seen.content /\ source.reconciled <= seen.watermark
      /\ full.reconciled <= seen.watermark /\ seen.gen = generation /\ slot.gen = seen.gen
  BY <1>1, <1>2 DEF LoopInv
<1>5. unresolved = None /\ DOMAIN slot.content = Members
  BY Zenon, <1>2, <1>4 DEF EpochInv
<1>6. /\ full' \in Barriers /\ source' \in Barriers
      /\ full'.admitted = full.admitted /\ source'.admitted = source.admitted
      /\ full'.reconciled <= full.admitted /\ source'.reconciled <= source.admitted
      /\ full.reconciled <= full'.reconciled /\ source.reconciled <= source'.reconciled
      /\ full'.reconciled = full.reconciled \/ full'.reconciled <= seen.watermark
      /\ source'.reconciled = source.reconciled \/ source'.reconciled <= seen.watermark
  <2>1. full.reconciled <= full.admitted /\ source.reconciled <= source.admitted
        /\ full.reconciled <= full.reconciled /\ source.reconciled <= source.reconciled
    BY <1>2, <1>3 DEF BarrierInv
  <2>2. CASE source' = Restored(source, seen.watermark) /\ full' = full
    BY Zenon, <1>3, <2>1, <2>2, RestoredBarrier
  <2>3. CASE full' = Restored(full, seen.watermark) /\ source' = source
    BY Zenon, <1>3, <2>1, <2>3, RestoredBarrier
  <2> QED
    BY Zenon, <2>2, <2>3 DEF RestoreSource, RestoreFull
<1>7. /\ full.admitted <= full'.admitted /\ source.admitted <= source'.admitted
      /\ full'.admitted \in Nat /\ full'.admitted >= full.admitted
      /\ full'.reconciled \in Nat /\ source'.reconciled \in Nat
      /\ full'.reconciled <= seen.watermark /\ source'.reconciled <= seen.watermark
  BY <1>3, <1>4, <1>6 DEF Barriers
<1>8. Settles
  BY Zenon, <1>1, <1>7, CalmSettles
<1>9. BarrierInv'
  BY Zenon, <1>1, <1>2, <1>6 DEF BarrierInv
<1>11. /\ loop' \in Loops /\ LoopInv' /\ seen' \in Censuses
       /\ seen' = seen \/ (DOMAIN seen'.content = {} /\ seen'.watermark = 0)
  <2>1. CASE Continue
    BY Zenon, <1>4, <2>1, ContinueTo
  <2>2. CASE Goes("RestoreFull") /\ seen' = seen
    <3>1. "RestoreFull" \in Pcs
      BY DEF Pcs
    <3>2. loop' \in Loops /\ loop'.pc = "RestoreFull" /\ loop'.recover = loop.recover
      BY Zenon, <2>2, <3>1, GoesTo
    <3>3. LoopInv'
      BY <1>1, <1>4, <1>7, <2>2, <3>2 DEF LoopInv
    <3> QED
      BY Zenon, <1>3, <2>2, <3>2, <3>3
  <2> QED
    BY Zenon, <2>1, <2>2 DEF RestoreSource, RestoreFull
<1>12. LoopTypes'
  BY Zenon, <1>1, <1>11 DEF UpdatesInv, LoopTypes
<1>13. CensusInv'
  BY Zenon, <1>1, <1>7, <1>8, <1>11, CensusKept
<1>14. EpochInv'
  <2>1. Quiet(source.reconciled)' => slot.content = disk
    <3>1. PICK w \in Nat : w = source'.reconciled
      BY <1>7
    <3>2. Quiet(source.reconciled)' => Quiet(w)
      BY Zenon, <1>1, <1>6, <3>1 DEF Quiet
    <3> QED
      BY Zenon, <1>4, <1>5, <1>7, <3>1, <3>2, CensusIsTheTree
  <2> QED
    BY Zenon, <1>1, <1>2, <1>5, <2>1 DEF EpochInv, Members
<1>15. /\ query' \in [Queries -> QueryRecords]
       /\ \A q \in Queries :
               /\ query'[q].at = query[q].at /\ query'[q].policy = query[q].policy
               /\ query'[q].target = query[q].target /\ query'[q].pin = query[q].pin
               /\ query'[q].held = query[q].held /\ posting'[q] = posting[q]
  BY Zenon, <1>1, NotifyKeeps DEF RestoreSource, RestoreFull
<1>16. \A f \in DOMAIN seen'.content :
               /\ f \in Members /\ seen'.watermark = seen.watermark
               /\ \/ f \in DOMAIN seen.content /\ seen'.content[f] = seen.content[f]
                  \/ seen'.content[f] = disk[f]
  BY Zenon, <1>11 DEF UpdatesInv, CensusInv
<1> QED
  BY Zenon, <1>1, <1>3, <1>4, <1>5, <1>6, <1>7, <1>9, <1>11, <1>12, <1>13, <1>14, <1>15, <1>16,
     LoopKeeps

\* A census during or after a build starts over.
LEMMA CensusStep ==
    ASSUME UpdatesInv, NEW purpose \in {"First", "Mid", "Final"}, Census(purpose), build' = build,
           ~loop.recover,
           UNCHANGED <<tree, counted, events, full, source, published, posting, epochs, query>>
    PROVE  UpdatesInv'
<1>1. "Observe" \in Pcs
  BY DEF Pcs
<1>2. loop' \in Loops /\ loop'.pc = "Observe" /\ loop'.recover = loop.recover
  BY Zenon, <1>1, GoesTo DEF Census
<1>3. idleCensus \in Censuses /\ idleCensus.watermark = 0 /\ DOMAIN idleCensus.content = {}
  BY Zenon, IdleTypes
<1>4. seen' \in Censuses /\ DOMAIN seen'.content = {} /\ seen'.watermark = 0
  BY <1>3 DEF Census, Censuses
<1>5. LoopInv'
  BY <1>2, <1>4 DEF LoopInv
<1>6. /\ UNCHANGED <<tree, counted, events, full, source, published, posting, generation,
                     slot, validation, query>>
      /\ unresolved' = unresolved /\ build' \in Builds
  BY DEF epochs, UpdatesInv, LoopTypes
<1> QED
  BY Zenon, <1>2, <1>4, <1>5, <1>6, PlainStep

\* A build never runs while a publication is unresolved.
LEMMA BuildIsClear ==
    ASSUME UpdatesInv, loop.pc \in {"Build", "Walk", "Verify"}
    PROVE  ~loop.recover
  BY DEF UpdatesInv, LoopInv

\* The build beside the loop, the hints the loop takes meanwhile, and its end.
LEMMA BuildStep ==
    ASSUME UpdatesInv,
           Capture \/ CheckCapture \/ BuildEnds \/ BuildCancelled \/ BuildTick \/ BuildHint
    PROVE  UpdatesInv'
<1>1. /\ generation \in Nat /\ disk \in PartialTrees /\ build \in Builds /\ seen \in Censuses
      /\ loop \in Loops /\ LoopInv
  BY Zenon DEF UpdatesInv, TreeTypes, LoopTypes
<1>2. CASE Capture \/ CheckCapture
  <2>1. /\ UNCHANGED <<tree, counted, events, full, source, published, posting, generation,
                       slot, validation, query>>
        /\ unresolved' = unresolved /\ loop' = loop /\ seen' = seen
    BY <1>2 DEF Capture, CheckCapture, observation, epochs
  <2>2. build' \in Builds
    BY <1>1, <1>2 DEF Capture, CheckCapture, Builds
  <2>3. LoopInv'
    BY Zenon, <1>1, <2>1 DEF LoopInv, Members, tree
  <2> QED
    BY Zenon, <1>1, <2>1, <2>2, <2>3, PlainStep
<1>3. CASE BuildEnds
  <2>1. ~loop.recover
    BY <1>3, BuildIsClear DEF BuildEnds, At
  <2>2. UNCHANGED <<tree, counted, events, source, published, epochs, query>>
    BY Zenon, <1>3 DEF BuildEnds
  <2>3. CASE Census("Final") /\ UNCHANGED <<full, posting, build, left>>
    BY Zenon, <2>1, <2>2, <2>3, CensusStep
  <2>4. CASE Unsettled
    BY Zenon, <2>2, <2>4, UnsettledStep
  <2>5. CASE Errs /\ UNCHANGED <<full, posting>>
    <3>1. /\ UNCHANGED <<tree, observation, generation, slot, validation, query>>
          /\ unresolved' = unresolved
      BY <1>3, <2>5 DEF BuildEnds, observation, epochs
    <3> QED
      BY Zenon, <2>5, <3>1, ErrsStep
  <2> QED
    BY Zenon, <1>3, <2>3, <2>4, <2>5 DEF BuildEnds
<1>4. CASE BuildCancelled
  BY Zenon, <1>4, UnsettledStep DEF BuildCancelled
<1>5. CASE BuildTick
  <2>1. ~loop.recover
    BY <1>5, BuildIsClear DEF BuildTick, Building, At
  <2> QED
    BY Zenon, <1>5, <2>1, AskStep DEF BuildTick
<1>6. CASE BuildHint
  <2>1. ~loop.recover
    BY <1>6, BuildIsClear DEF BuildHint, Building, At
  <2>2. CASE Unsettled
    BY Zenon, <1>6, <2>2, UnsettledStep DEF BuildHint
  <2>3. CASE Census("Mid") /\ UNCHANGED <<full, posting, build>>
    BY Zenon, <1>6, <2>1, <2>3, CensusStep DEF BuildHint
  <2> QED
    BY Zenon, <1>6, <2>2, <2>3 DEF BuildHint
<1> QED
  BY Zenon, <1>2, <1>3, <1>4, <1>5, <1>6

\* The censuses during a build and after it.
LEMMA LaterCensusStep ==
    ASSUME UpdatesInv, SourceChanged \/ MidCensus \/ FinalCensus
    PROVE  UpdatesInv'
<1>1. loop.pc = "Walk" /\ DOMAIN seen.content = Members
  BY DEF SourceChanged, MidCensus, FinalCensus, Fenced, At
<1>2. LoopInv /\ loop \in Loops /\ seen \in Censuses /\ build \in Builds /\ ~loop.recover
  BY <1>1, BuildIsClear DEF UpdatesInv, LoopTypes
<1>3. CASE Unsettled /\ (SourceChanged \/ MidCensus)
  BY Zenon, <1>3, UnsettledStep DEF SourceChanged, MidCensus
<1>4. CASE FinalCensus
  <2>1. "Verify" \in Pcs
    BY DEF Pcs
  <2>2. loop' \in Loops /\ loop'.pc = "Verify" /\ loop'.recover = loop.recover
    BY Zenon, <1>4, <2>1, GoesTo DEF FinalCensus
  <2>3. /\ UNCHANGED <<tree, counted, events, full, source, published, posting, generation,
                       slot, validation, query>>
        /\ unresolved' = unresolved /\ seen' = seen /\ build' = build /\ disk' = disk
    BY <1>4 DEF FinalCensus, epochs, observation, tree
  <2>4. LoopInv'
    BY <1>1, <1>2, <2>2, <2>3 DEF LoopInv, Members
  <2>5. seen' \in Censuses /\ build' \in Builds
    BY Zenon, <1>2, <2>3
  <2> QED
    BY Zenon, <1>2, <2>2, <2>3, <2>4, <2>5, PlainStep
<1>5. CASE /\ MidCensus
           /\ loop' = IF Matches(slot) THEN Publishes(FALSE, "Build")
                      ELSE [loop EXCEPT !.pc = "Build"]
           /\ UNCHANGED <<full, posting, seen, build>>
  <2>1. /\ UNCHANGED <<tree, counted, events, full, source, published, posting, generation,
                       slot, validation, query>>
        /\ unresolved' = unresolved /\ seen' = seen /\ build' = build
    BY <1>5 DEF MidCensus, epochs
  <2>2. /\ loop' \in Loops /\ ~loop'.recover /\ loop'.pc \in {"Publish", "Build"}
        /\ loop'.pc = "Publish" => Matches(slot)
    <3>1. CASE Matches(slot) /\ loop' = Publishes(FALSE, "Build")
      BY <1>2, <3>1, PublishesTo
    <3>2. CASE loop' = [loop EXCEPT !.pc = "Build"]
      BY <1>2, <3>2 DEF Loops, Pcs
    <3> QED
      BY Zenon, <1>5, <3>1, <3>2
  <2>3. LoopInv'
    BY <1>1, <1>2, <2>1, <2>2 DEF LoopInv, Matches
  <2>4. seen' \in Censuses /\ build' \in Builds
    BY Zenon, <1>2, <2>1
  <2> QED
    BY Zenon, <1>2, <2>1, <2>2, <2>3, <2>4, PlainStep
<1> QED
  BY Zenon, <1>3, <1>4, <1>5 DEF SourceChanged, MidCensus

\* The final fence: the candidate is what the last census read.
LEMMA SubmitStep ==
    ASSUME UpdatesInv, Submit
    PROVE  UpdatesInv'
<1>1. loop.pc = "Verify"
  BY DEF Submit, At
<1>2. LoopInv /\ EpochInv /\ loop \in Loops /\ seen \in Censuses /\ build \in Builds
  BY Zenon DEF UpdatesInv, LoopTypes
<1>3. /\ ~loop.recover /\ DOMAIN seen.content = Members /\ seen.gen = generation
      /\ source.reconciled <= seen.watermark /\ full.reconciled <= seen.watermark
  BY <1>1, <1>2 DEF LoopInv
<1>4. unresolved = None
  BY Zenon, <1>2, <1>3 DEF EpochInv
<1>5. CASE ~FinalFence
  <2>1. Unsettled /\ UNCHANGED <<tree, counted, events, source, published, epochs, query>>
    BY <1>5 DEF Submit, epochs
  <2> QED
    BY Zenon, <2>1, UnsettledStep
<1>6. CASE FinalFence
  <2>1. /\ disk' = disk /\ unseen' = unseen /\ lost' = lost /\ counted' = counted
        /\ events' = events /\ published' = published /\ posting' = posting /\ slot' = slot
        /\ validation' = Candidate /\ seen' = seen /\ build' = idleBuild
        /\ unresolved' = Candidate
        /\ full' = full /\ source' = source /\ query' = query /\ generation' = generation
        /\ loop' = [loop EXCEPT !.pc = "Activate", !.recover = TRUE]
    BY <1>6 DEF Submit, tree
  <2>2. /\ full \in Barriers /\ source \in Barriers /\ published \in Nat
        /\ posting \in [Threads -> Nat] /\ full.admitted \in Nat /\ source.admitted \in Nat
        /\ full.admitted <= full.admitted /\ source.admitted <= source.admitted
        /\ full.admitted >= full.admitted /\ source.reconciled \in Nat
    BY DEF UpdatesInv, TreeTypes, Barriers
  <2>3. /\ Candidate \in Epochs /\ Candidate.content = seen.content
        /\ Candidate.gen = seen.gen
    BY <1>2, <1>6 DEF Candidate, Epochs, Builds, FinalFence, Matches
  <2>4. loop' \in Loops /\ loop'.pc = "Activate" /\ loop'.recover
    BY <1>2, <2>1 DEF Loops, Pcs
  <2>5. LoopTypes'
    BY Zenon, <2>1, <2>3, <2>4, IdleTypes DEF UpdatesInv, LoopTypes
  <2>6. LoopInv'
    BY <1>3, <2>1, <2>3, <2>4 DEF LoopInv, Members
  <2>7. Settles
    BY Zenon, <2>1, <2>2, CalmSettles
  <2>8. CensusInv'
    BY Zenon, <2>1, <2>2, <2>7, CensusKept
  <2>9. EpochInv'
    <3>1. Quiet(source.reconciled) => seen.content = disk
      <4>1. PICK w \in Nat : w = source.reconciled
        BY <2>2
      <4> QED
        BY Zenon, <1>3, <4>1, CensusIsTheTree
    <3> QED
      BY Zenon, <1>2, <1>3, <2>1, <2>3, <2>4, <3>1 DEF EpochInv, Quiet, Members
  <2>10. BarrierInv'
    BY Zenon, <2>1 DEF UpdatesInv, BarrierInv
  <2>11. \A f \in DOMAIN seen'.content :
               /\ f \in Members /\ seen'.watermark = seen.watermark
               /\ \/ f \in DOMAIN seen.content /\ seen'.content[f] = seen.content[f]
                  \/ seen'.content[f] = disk[f]
    BY Zenon, <1>3, <2>1
  <2>12. /\ query' \in [Queries -> QueryRecords]
         /\ \A q \in Queries :
               /\ query'[q].at = query[q].at /\ query'[q].policy = query[q].policy
               /\ query'[q].target = query[q].target /\ query'[q].pin = query[q].pin
               /\ query'[q].held = query[q].held /\ posting'[q] = posting[q]
    BY Zenon, <2>1 DEF UpdatesInv, QueryTypes
  <2> QED
    BY Zenon, <1>1, <2>1, <2>2, <2>3, <2>5, <2>6, <2>8, <2>9, <2>10, <2>11, <2>12, LoopKeeps
<1> QED
  BY Zenon, <1>5, <1>6

\* The candidate is selected.
LEMMA ActivatedStep ==
    ASSUME UpdatesInv, Activated
    PROVE  UpdatesInv'
<1>1. /\ disk' = disk /\ unseen' = unseen /\ lost' = lost /\ counted' = counted
      /\ events' = events /\ published' = published /\ posting' = posting
      /\ slot' = unresolved /\ unresolved' = None /\ loop.pc = "Activate"
      /\ validation' = validation /\ seen' = seen /\ build' = build
      /\ full' = full /\ source' = source /\ query' = query /\ generation' = generation
  BY DEF Activated, tree, observation, At
<1>2. LoopInv /\ EpochInv /\ unresolved \in Epochs
  BY Zenon DEF UpdatesInv, LoopTypes
<1>3. /\ DOMAIN seen.content = Members /\ seen.gen = generation
      /\ source.reconciled <= seen.watermark /\ full.reconciled <= seen.watermark
      /\ unresolved.content = seen.content /\ unresolved.gen = seen.gen
  BY <1>1, <1>2 DEF LoopInv
<1>4. /\ full \in Barriers /\ source \in Barriers /\ published \in Nat /\ generation \in Nat
      /\ posting \in [Threads -> Nat] /\ full.admitted \in Nat /\ source.admitted \in Nat
      /\ full.admitted <= full.admitted /\ source.admitted <= source.admitted
      /\ full.admitted >= full.admitted /\ source.reconciled \in Nat /\ generation <= generation
  BY DEF UpdatesInv, TreeTypes, LoopTypes, Barriers
<1>5. loop' \in Loops /\ loop'.pc = "Publish" /\ ~loop'.recover
  <2>1. PICK l \in {Publishes(FALSE, "Build"), Publishes(TRUE, "Select")} :
           loop' = [l EXCEPT !.recover = FALSE, !.stage = "Semantic"]
    BY Zenon DEF Activated
  <2>2. l \in Loops /\ l.pc = "Publish"
    BY <2>1, PublishesTo
  <2> QED
    BY <2>1, <2>2 DEF Loops
<1>6. LoopTypes'
  BY Zenon, <1>1, <1>2, <1>5, IdleTypes DEF UpdatesInv, LoopTypes
<1>7. LoopInv'
  BY <1>1, <1>3, <1>5 DEF LoopInv
<1>8. Settles
  BY Zenon, <1>1, <1>4, CalmSettles
<1>9. CensusInv'
  BY Zenon, <1>1, <1>4, <1>8, CensusKept
<1>10. EpochInv'
  <2>1. Quiet(source.reconciled) => seen.content = disk
    <3>1. PICK w \in Nat : w = source.reconciled
      BY <1>4
    <3> QED
      BY Zenon, <1>3, <3>1, CensusIsTheTree
  <2> QED
    BY Zenon, <1>1, <1>3, <1>4, <2>1 DEF EpochInv, Quiet, Members
<1>11. BarrierInv'
  BY Zenon, <1>1 DEF UpdatesInv, BarrierInv
<1>12. \A f \in DOMAIN seen'.content :
               /\ f \in Members /\ seen'.watermark = seen.watermark
               /\ \/ f \in DOMAIN seen.content /\ seen'.content[f] = seen.content[f]
                  \/ seen'.content[f] = disk[f]
  BY Zenon, <1>1, <1>3
<1>13. /\ query' \in [Queries -> QueryRecords]
       /\ \A q \in Queries :
               /\ query'[q].at = query[q].at /\ query'[q].policy = query[q].policy
               /\ query'[q].target = query[q].target /\ query'[q].pin = query[q].pin
               /\ query'[q].held = query[q].held /\ posting'[q] = posting[q]
  BY Zenon, <1>1 DEF UpdatesInv, QueryTypes
<1>14. unresolved' \in {None, unresolved}
  BY Zenon, <1>1
<1> QED
  BY Zenon, <1>1, <1>4, <1>6, <1>7, <1>9, <1>10, <1>11, <1>12, <1>13, <1>14, LoopKeeps

\* An activation fails, or its outcome stays unknown.
LEMMA ActivationErrsStep ==
    ASSUME UpdatesInv, ActivationErrs
    PROVE  UpdatesInv'
<1>1. UNCHANGED <<tree, observation, generation, slot, validation, query>> /\ Errs
  BY Zenon DEF ActivationErrs
<1>2. unresolved' \in {None, unresolved}
  BY Zenon DEF ActivationErrs
<1> QED
  BY Zenon, <1>1, <1>2, ErrsStep

-----------------------------------------------------------------------------
(* The invariant holds, and what follows from it.                          *)

\* A process starts with an epoch that no census has looked at.
LEMMA UpdatesStart ==
    ASSUME Init
    PROVE  UpdatesInv
<1>1. left.files \subseteq Files
  BY UpdatesAssumption DEF Init
<1>2. PICK c \in Contents : disk = [f \in left.files |-> c]
  BY Zenon DEF Init
<1>3. disk \in [left.files -> Contents] /\ Members = left.files
  BY <1>2 DEF Members
<1>4. disk \in PartialTrees
  BY Zenon, <1>1, <1>3, TreeMembers
<1>5. PICK t \in Trees, p \in BOOLEAN : slot = [content |-> t, gen |-> 0, pending |-> p]
  BY Zenon DEF Init
<1>6. t \in PartialTrees /\ DOMAIN t = Members
  BY Zenon, <1>1, <1>3, <1>5, TreeMembers DEF Trees
<1>7. slot \in Epochs /\ slot.content = t /\ slot.gen = 0
  BY <1>5, <1>6 DEF Epochs
<1>8. /\ full = Fresh(1) /\ source = Fresh(1) /\ published = 0 /\ generation \in {0, 1}
      /\ posting = [u \in Threads |-> 0] /\ unresolved = None /\ validation = None
      /\ loop = idleLoop /\ seen = idleCensus /\ build = idleBuild /\ events = 0
  BY Zenon DEF Init
<1>9. TreeTypes /\ BarrierInv
  BY <1>4, <1>8 DEF TreeTypes, BarrierInv, Fresh, Barriers
<1>10. LoopTypes
  BY <1>7, <1>8, IdleTypes DEF LoopTypes
<1>11. DOMAIN seen.content = {} /\ seen.watermark = 0 /\ loop.pc = "Select" /\ ~loop.recover
  BY <1>8, IdleTypes DEF idleLoop
<1>12. CensusInv /\ LoopInv
  BY <1>8, <1>11 DEF CensusInv, LoopInv, Fresh
<1>13. EpochInv
  BY <1>6, <1>7, <1>8 DEF EpochInv, Quiet, Fresh
<1>14. PICK h : h = [f \in Members |-> {}]
  OBVIOUS
<1>15. h \in Histories /\ DOMAIN h = Members
  <2>1. h \in [Members -> SUBSET Contents]
    BY <1>14
  <2> QED
    BY Zenon, <1>1, <1>3, <2>1, TreeMembers
<1>16. PICK r : r = [at |-> "Idle", policy |-> "Best", target |-> 0, notified |-> FALSE,
                     pin |-> None, label |-> "None", tries |-> 0, held |-> h]
  OBVIOUS
<1>17. None \in Epochs
  BY Zenon, IdleTypes
<1>18. r \in QueryRecords /\ r.at = "Idle" /\ r.held = h
  BY <1>15, <1>16, <1>17 DEF QueryRecords, Labels
<1>19. query = [q \in Queries |-> r]
  BY Zenon, <1>14, <1>16 DEF Init
<1>20. QueryTypes
  BY <1>15, <1>18, <1>19 DEF QueryTypes
<1>21. \A q \in Queries : QueryInv(q)
  BY <1>18, <1>19 DEF QueryInv, Unfinished, Waiting, Served
<1> QED
  BY Zenon, <1>9, <1>10, <1>12, <1>13, <1>20, <1>21 DEF UpdatesInv

\* Every step of every thread keeps the invariant.
LEMMA UpdatesStep ==
    ASSUME UpdatesInv, [Next]_vars
    PROVE  UpdatesInv'
<1>1. CASE Environment \/ Callback
  BY Zenon, <1>1, WatcherStep
<1>2. CASE Loop
  BY Zenon, <1>2, SelectStep, LoopMirrorsStep, BackoffStep, RecoverStep, ObserveStep, ReadStep,
     LaterCensusStep, FirstCensusStep, AdvanceStep, PublishStep, RestoreStep, BuildStep,
     SubmitStep, ActivatedStep, ActivationErrsStep DEF Loop
<1>3. CASE Build
  BY Zenon, <1>3, BuildStep DEF Build
<1>4. CASE \E q \in Queries : QueryStep(q)
  BY Zenon, <1>4, QueryStepKeeps
<1>5. CASE UNCHANGED vars
  <2>1. /\ UNCHANGED <<disk, published, epochs, updater, query>> /\ disk' = disk
        /\ unseen' = unseen /\ lost' = lost /\ counted' = counted /\ events' = events
        /\ full' = full /\ source' = source /\ posting' = posting
    BY <1>5 DEF vars, tree, observation
  <2>2. /\ full \in Barriers /\ source \in Barriers /\ events \in Nat
        /\ posting \in [Threads -> Nat] /\ full.admitted \in Nat /\ source.admitted \in Nat
        /\ full.admitted <= full.admitted /\ source.admitted <= source.admitted
        /\ full.admitted >= full.admitted
    BY DEF UpdatesInv, TreeTypes, Barriers
  <2>3. Settles
    BY Zenon, <2>1, <2>2, CalmSettles
  <2>4. BarrierInv'
    BY Zenon, <2>1 DEF UpdatesInv, BarrierInv
  <2> QED
    BY Zenon, <2>1, <2>2, <2>3, <2>4, AsideStep
<1> QED
  BY Zenon, <1>1, <1>2, <1>3, <1>4, <1>5 DEF Next

\* The barriers are ordered and a Current source barrier is about the tree.
LEMMA InvGivesTruth == ASSUME UpdatesInv PROVE BarrierTellsTheTruth
<1>1. /\ disk \in PartialTrees /\ slot.content \in PartialTrees /\ full \in Barriers
      /\ source \in Barriers /\ published \in Nat /\ generation \in Nat
      /\ query \in [Queries -> QueryRecords] /\ BarrierInv /\ EpochInv
  BY DEF UpdatesInv, TreeTypes, LoopTypes, QueryTypes, Epochs
<1>2. TypeOK
  <2>1. disk \in Trees /\ slot.content \in Trees
    BY Zenon, <1>1, TreeMembers DEF Trees, Members, EpochInv
  <2>2. \A q \in Queries : query[q].label \in Labels
    BY <1>1 DEF QueryRecords
  <2> QED
    BY Zenon, <1>1, <2>1, <2>2 DEF TypeOK, BarrierInv, EpochInv
<1>3. ASSUME ~unseen, ~lost, ~counted, \A t \in Threads : posting[t] = 0,
             State(source) = "Current", slot.gen = published
      PROVE  slot.content = disk
  <2>1. full.admitted = source.admitted
    BY <1>1, <1>3 DEF BarrierInv
  <2>2. source.reconciled >= source.admitted
    BY <1>3 DEF State
  <2>3. full.admitted = source.reconciled
    BY <1>1, <2>1, <2>2 DEF BarrierInv, Barriers
  <2>4. Quiet(source.reconciled)
    BY Zenon, <1>3, <2>3 DEF Quiet
  <2> QED
    BY Zenon, <1>1, <1>3, <2>4 DEF EpochInv
<1> QED
  BY Zenon, <1>2, <1>3 DEF BarrierTellsTheTruth, CurrentMeansTheTree

\* A query that is served got what it asked for.
LEMMA InvGivesRecent == ASSUME UpdatesInv PROVE StrictAnswerIsRecent
<1> SUFFICES ASSUME NEW q \in Queries, query[q].at = "Done", query[q].policy # "Best"
             PROVE  /\ \A f \in Members : query[q].pin.content[f] \in query[q].held[f]
                    /\ query[q].policy = "Semantic" => ~query[q].pin.pending
  BY Zenon DEF StrictAnswerIsRecent
<1>1. ServedInv(q)
  BY DEF UpdatesInv, QueryInv, Served
<1> QED
  BY <1>1 DEF ServedInv, Recent

\* The unresolved candidate is settled, not replaced.
LEMMA UnresolvedIsKept ==
    ASSUME UpdatesInv, [Next]_vars
    PROVE  KeepsUnresolved
<1> SUFFICES ASSUME unresolved # None PROVE unresolved' \in {None, unresolved}
  BY Zenon DEF KeepsUnresolved
<1>1. loop.recover
  BY Zenon DEF UpdatesInv, EpochInv
<1>2. loop.pc # "Verify"
  BY <1>1, BuildIsClear
<1>3. CASE UNCHANGED epochs
  BY <1>3 DEF epochs
<1>4. CASE Environment \/ Callback
  BY Zenon, <1>3, <1>4 DEF Environment, Callback, Edit, LoseEvent, WatchInstalled, Cancel,
     CountEvent, RequestForEvent, MirrorHint
<1>5. CASE \E q \in Queries : QueryStep(q)
  <2>1. PICK q \in Queries : QueryStep(q)
    BY Zenon, <1>5
  <2>2. ASSUME NEW p, Arrive(q, p) PROVE UNCHANGED epochs
    BY Zenon, <2>2 DEF Arrive
  <2>3. CASE RequestCensus(q) \/ MirrorCensus(q) \/ Register(q) \/ CheckWatermark(q) \/ Sleep(q)
             \/ Awake(q) \/ Deadline(q)
    BY Zenon, <1>3, <2>3 DEF RequestCensus, MirrorCensus, Register, CheckWatermark, Sleep, Awake,
       Deadline, others
  <2>4. CASE LeaseSlot(q) \/ PinEpoch(q) \/ CompareGeneration(q) \/ ReadLabel(q)
    BY Zenon, <1>3, <2>4 DEF LeaseSlot, PinEpoch, CompareGeneration, ReadLabel, others
  <2> QED
    BY Zenon, <1>3, <2>1, <2>2, <2>3, <2>4 DEF QueryStep, QueryProceeds, epochs, others
<1>6. CASE Build
  BY Zenon, <1>3, <1>6 DEF Build, Capture, CheckCapture
<1>7. CASE Loop
  <2>1. CASE Select \/ LoopMirrors \/ MarkUnavailable \/ Resume \/ ObserveWatermark
             \/ (\E f \in Members : ReadFile(f)) \/ SourceChanged \/ FirstCensus
             \/ PublishGeneration \/ RestoreSource \/ RestoreFull
    BY Zenon, <1>3, <2>1 DEF Select, LoopMirrors, MarkUnavailable, Resume, ObserveWatermark,
       ReadFile, SourceChanged, FirstCensus, PublishGeneration, RestoreSource, RestoreFull
  <2>2. CASE BuildEnds \/ BuildCancelled \/ BuildTick \/ BuildHint \/ MidCensus \/ FinalCensus
    BY Zenon, <1>3, <2>2 DEF BuildEnds, BuildCancelled, BuildTick, BuildHint, MidCensus, FinalCensus
  <2>3. CASE RecoverPublication \/ AdvanceGeneration \/ Activated \/ ActivationErrs
    BY Zenon, <2>3 DEF RecoverPublication, AdvanceGeneration, Activated, ActivationErrs
  <2>4. ~Submit
    BY Zenon, <1>2 DEF Submit, At
  <2> QED
    BY Zenon, <1>7, <2>1, <2>2, <2>3, <2>4 DEF Loop
<1>8. CASE UNCHANGED vars
  BY Zenon, <1>3, <1>8 DEF vars
<1> QED
  BY Zenon, <1>4, <1>5, <1>6, <1>7, <1>8 DEF Next

\* The inductive invariant of the update loop and the queries it serves.
THEOREM UpdatesInvariant == Spec => []UpdatesInv
<1>1. Init => UpdatesInv
  BY UpdatesStart
<1>2. UpdatesInv /\ [Next]_vars => UpdatesInv'
  BY UpdatesStep
<1> QED
  BY <1>1, <1>2, PTL DEF Spec

\* For every tree, workload and interleaving of the watcher, the update loop
\* and the queries: the barriers are ordered, and once every event is delivered
\* and requested a source barrier that says Current for the selected epoch
\* means the epoch is what the tree holds (workspace_updates.rs:267-288).
THEOREM BarriersTellTheTruth == Spec => []BarrierTellsTheTruth
<1>1. UpdatesInv => BarrierTellsTheTruth
  BY InvGivesTruth
<1> QED
  BY <1>1, UpdatesInvariant, PTL

\* For every set of queries: one that asked for current source and was admitted
\* has pinned an epoch every file of which was on disk since it arrived
\* (programmatic_query_backend.rs:897-898, 1032-1041).
THEOREM StrictAnswersAreRecent == Spec => []StrictAnswerIsRecent
<1>1. UpdatesInv => StrictAnswerIsRecent
  BY InvGivesRecent
<1> QED
  BY <1>1, UpdatesInvariant, PTL

\* An unresolved publication is settled, under the validation it was submitted
\* with, before there is another (updates.rs:319-320).
THEOREM SerialPublications == Spec => PublicationsAreSerial
<1>1. UpdatesInv' => UnresolvedKeepsItsValidation'
  BY Zenon DEF UpdatesInv, EpochInv, UnresolvedKeepsItsValidation
<1>2. UpdatesInv /\ [Next]_vars => KeepsUnresolved
  BY UnresolvedIsKept
<1>3. UpdatesInv /\ UpdatesInv' /\ [Next]_vars =>
          [UnresolvedKeepsItsValidation' /\ KeepsUnresolved]_vars
  BY <1>1, <1>2
<1> QED
  BY <1>3, UpdatesInvariant, PTL DEF Spec, PublicationsAreSerial
=============================================================================
