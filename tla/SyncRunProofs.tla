--------------------------- MODULE SyncRunProofs ---------------------------
(***************************************************************************)
(* Proofs about SyncRun, for every set of files, every number of versions  *)
(* and ingestions in flight, and every setting of the limits.              *)
(***************************************************************************)
EXTENDS SyncRun, FiniteSetTheorems, TLAPS

(***************************************************************************)
(* TypeOK in three parts: what is stored, the locals of the running job,   *)
(* and the ingestions in flight.                                           *)
(***************************************************************************)
DataOK ==
    /\ remote \in [Paths -> [ver : Versions, here : BOOLEAN]]
    /\ calm \in BOOLEAN
    /\ docs \in [Paths -> DocOf \union {NoDoc}]
    /\ memory \in [Paths -> 0 .. MaxVersion]
    /\ row \in {"none", "completed", "failed"}
    /\ used \in Nat

JobOK ==
    /\ phase \in {"idle", "walk", "loop", "fetch", "ingest"}
    /\ listing \in [Paths -> 0 .. MaxVersion]
    /\ todo \subseteq Paths
    /\ at \in Paths \union {NoPath}
    /\ phase \in {"fetch", "ingest"} => at \in todo /\ listing[at] # 0
    /\ count \in [Counters -> Nat]
    /\ rejected \subseteq Paths
    /\ streak \in Nat
    /\ cut \in {"no", "cap", "breaker"}
    /\ tokens \in Nat

CallOK == ingest \in [Slots -> IngestOf \union {NoIngest}]

\* The slot i holds an ingestion the job is waiting for.
Waiting(i) == ingest[i] # NoIngest /\ ingest[i].waited

(* Only the document at hand is waited for, and only what parsed is embedded. *)
CallInv ==
    /\ phase \in {"loop", "fetch", "ingest"} => \A p \in todo : listing[p] # 0
    /\ \A i \in Slots : Waiting(i) => phase = "ingest" /\ ingest[i].path = at
    /\ \A i, k \in Slots : Waiting(i) /\ Waiting(k) => i = k
    /\ \A i \in Slots :
        InStage(i, "embedding") => Kind(ingest[i].path, ingest[i].body) = "text"

(* What was listed, fetched and stored is a version the file has had, in    *)
(* this order.                                                             *)
VersionInv ==
    /\ EtagNeverAhead
    /\ \A p \in Paths : listing[p] <= remote[p].ver
    /\ \A i \in Slots : ingest[i] # NoIngest =>
        /\ ingest[i].etag <= ingest[i].body
        /\ ingest[i].body <= remote[ingest[i].path].ver

(* What the loop has left behind is indexed, rejected, or counted as failed. *)
LoopInv ==
    /\ phase \in {"idle", "walk"} => cut = "no"
    /\ cut = "breaker" => count["failures"] > 0
    /\ phase \in {"loop", "fetch", "ingest"} /\ count["failures"] = 0 =>
        \A p \in Paths : listing[p] # 0 /\ p \notin todo => Live(p) \/ p \in rejected

IInv == TypeOK /\ CallInv /\ VersionInv /\ LoopInv

USE DEF vars, jobVars

LEMMA Parts == TypeOK <=> DataOK /\ JobOK /\ CallOK
  BY DEF TypeOK, DataOK, JobOK, CallOK

LEMMA PartsNext == TypeOK' <=> DataOK' /\ JobOK' /\ CallOK'
  BY DEF TypeOK, DataOK, JobOK, CallOK

\* What the assumption says of the constants.
LEMMA Bounds ==
    /\ IsFiniteSet(Paths)
    /\ MaxVersion \in Nat \ {0}
    /\ Versions = 1 .. MaxVersion
    /\ NoPath \notin Paths
    /\ NoDoc \notin DocOf
    /\ NoIngest \notin IngestOf
    /\ MaxStreak \in Nat
    /\ Cap \in Nat
  BY SyncRunAssumption DEF Versions
----------------------------------------------------------------------------
(* The end of a document, whatever its outcome, keeps the locals in order. *)
LEMMA OutcomeOK ==
    ASSUME JobOK, NEW p \in Paths, NEW c \in {0, streak},
           \/ Rejects(p, c) \/ Fails(p) \/ FailsOnCap(p)
           \/ \E outcome \in {"indexed", "unchanged"} : Succeeds(p, outcome)
    PROVE  JobOK'
<1>1. ASSUME NEW outcome \in Counters, Processed(p, outcome)
      PROVE  /\ phase' = "loop" /\ at' = NoPath /\ todo' \subseteq Paths
             /\ count' \in [Counters -> Nat]
             /\ UNCHANGED <<listing, tokens>>
  BY <1>1 DEF Processed, JobOK, Counters
<1>2. CASE Rejects(p, c)
  BY <1>1, <1>2 DEF Rejects, JobOK, Counters
<1>3. CASE Fails(p)
  BY <1>1, <1>3 DEF Fails, JobOK, Counters
<1>4. CASE FailsOnCap(p)
  BY <1>1, <1>4 DEF FailsOnCap, JobOK, Counters
<1>5. ASSUME NEW outcome \in {"indexed", "unchanged"}, Succeeds(p, outcome) PROVE JobOK'
  BY <1>1, <1>5 DEF Succeeds, JobOK, Counters
<1> QED
  BY <1>2, <1>3, <1>4, <1>5

LEMMA TypeStep == ASSUME IInv, Next PROVE TypeOK'
<1> USE Bounds
<1>0. DataOK /\ JobOK /\ CallOK /\ CallInv
  BY Parts DEF IInv
<1>d. \A p \in Paths, e, b \in Versions :
        [docs EXCEPT ![p] = [etag |-> e, body |-> b, deleted |-> FALSE]] \in [Paths -> DocOf \union {NoDoc}]
  BY <1>0 DEF DataOK, DocOf
<1>w. \A i \in Slots : Waiting(i) => phase = "ingest" /\ at \in Paths
  BY <1>0 DEF CallInv, JobOK
<1>l. \A p \in Paths : listing[p] # 0 => listing[p] \in Versions
  BY <1>0 DEF JobOK
<1>1. ASSUME NEW p \in Paths, ChangeFile(p) PROVE TypeOK'
  <2>1. remote[p] \in [ver : Versions, here : BOOLEAN]
    BY <1>0 DEF DataOK
  <2>2. ASSUME remote[p].ver < MaxVersion
        PROVE  [remote EXCEPT ![p].ver = @ + 1] \in [Paths -> [ver : Versions, here : BOOLEAN]]
    <3>1. remote[p].ver + 1 \in Versions
      BY <2>1, <2>2
    <3>2. [remote[p] EXCEPT !.ver = @ + 1] \in [ver : Versions, here : BOOLEAN]
      BY <2>1, <3>1
    <3> QED
      BY <1>0, <3>2 DEF DataOK
  <2>3. [remote EXCEPT ![p].here = ~@] \in [Paths -> [ver : Versions, here : BOOLEAN]]
    BY <1>0, <2>1 DEF DataOK
  <2>4. remote' \in [Paths -> [ver : Versions, here : BOOLEAN]]
    BY <1>1, <2>2, <2>3 DEF ChangeFile
  <2> QED
    BY <1>0, <1>1, <2>4, PartsNext DEF ChangeFile, DataOK, JobOK, CallOK
<1>2. CASE CalmDown
  BY <1>0, <1>2, PartsNext DEF CalmDown, DataOK, JobOK, CallOK
<1>3. CASE BeginRun
  BY <1>0, <1>3, PartsNext DEF BeginRun, DataOK, JobOK, CallOK, Zero
<1>4. ASSUME NEW p \in Paths, Visit(p) PROVE TypeOK'
  BY <1>0, <1>4, PartsNext DEF Visit, DataOK, JobOK, CallOK
<1>5. CASE Listed
  BY <1>0, <1>5, PartsNext DEF Listed, DataOK, JobOK, CallOK
<1>a. Abandoned \in [Slots -> IngestOf \union {NoIngest}]
  <2>1. ASSUME NEW g \in IngestOf
        PROVE  [g EXCEPT !.waited = FALSE, !.charged = FALSE] \in IngestOf
    BY DEF IngestOf
  <2> QED
    BY <1>0, <2>1 DEF CallOK, Abandoned
<1>r. Return /\ count' \in [Counters -> Nat] => JobOK'
  BY DEF Return, JobOK, NoListing
<1>6. CASE WalkFails
  BY <1>0, <1>6, <1>a, <1>r, PartsNext DEF WalkFails, DataOK, JobOK, CallOK
<1>7. ASSUME NEW p \in Paths, SkipTooLarge(p) \/ SkipUnchanged(p) \/ SkipRemembered(p)
      PROVE  TypeOK'
  <2>1. JobOK'
    BY <1>0, <1>7, OutcomeOK DEF SkipTooLarge, SkipUnchanged, SkipRemembered
  <2> QED
    BY <1>0, <1>7, <2>1, PartsNext DEF SkipTooLarge, SkipUnchanged, SkipRemembered, DataOK, CallOK
<1>8. ASSUME NEW p \in Paths, Fetch(p) PROVE TypeOK'
  BY <1>0, <1>8, PartsNext DEF Fetch, InLoop, CallInv, DataOK, JobOK, CallOK
<1>f. phase = "fetch" => at \in Paths /\ listing[at] \in Versions
  BY <1>0, <1>l DEF JobOK
<1>b. \A p \in Paths : Body \in Versions \/ at # p
  BY <1>0 DEF Body, DataOK
<1>9. CASE FetchedSame
  <2>1. at \in Paths /\ docs[at] \in DocOf /\ listing[at] \in Versions
    BY <1>0, <1>9, <1>f DEF FetchedSame, Fetched, SameHash, Live, DataOK
  <2>2. [docs[at] EXCEPT !.etag = listing[at]] \in DocOf
    BY <2>1 DEF DocOf
  <2>3. docs' \in [Paths -> DocOf \union {NoDoc}]
    BY <1>0, <1>9, <2>1, <2>2 DEF FetchedSame, DataOK
  <2>4. JobOK'
    BY <1>0, <1>9, <2>1, OutcomeOK DEF FetchedSame
  <2> QED
    BY <1>0, <1>9, <2>3, <2>4, PartsNext DEF FetchedSame, DataOK, CallOK
<1>10. CASE FetchedUnsupported
  <2>1. JobOK'
    BY <1>0, <1>10, <1>f, OutcomeOK DEF FetchedUnsupported, Fetched
  <2>2. docs' \in [Paths -> DocOf \union {NoDoc}]
    BY <1>10, <1>d, <1>f, <1>b DEF FetchedUnsupported, Fetched
  <2> QED
    BY <1>0, <1>10, <2>1, <2>2, PartsNext DEF FetchedUnsupported, DataOK, CallOK
<1>11. CASE FetchedOversize
  <2>1. JobOK'
    BY <1>0, <1>11, <1>f, OutcomeOK DEF FetchedOversize, Fetched
  <2> QED
    BY <1>0, <1>11, <1>f, <2>1, PartsNext DEF FetchedOversize, Fetched, DataOK, CallOK
<1>12. ASSUME NEW i \in Slots, StartIngest(i) PROVE TypeOK'
  <2>0. at \in Paths /\ listing[at] \in Versions /\ Body \in Versions
    BY <1>12, <1>f, <1>b DEF StartIngest, Fetched
  <2>k. ASSUME NEW known \in BOOLEAN
        PROVE  [path |-> at, etag |-> listing[at], body |-> Body, known |-> known,
                stage |-> "parsing", waited |-> TRUE, charged |-> TRUE] \in IngestOf
    BY <2>0 DEF IngestOf
  <2>b. (docs[at] # NoDoc) \in BOOLEAN
    OBVIOUS
  <2>1. [path |-> at, etag |-> listing[at], body |-> Body, known |-> docs[at] # NoDoc,
         stage |-> "parsing", waited |-> TRUE, charged |-> TRUE] \in IngestOf
    BY <2>k, <2>b, Zenon
  <2>2. CallOK'
    BY <1>0, <1>12, <2>1 DEF StartIngest, CallOK
  <2> QED
    BY <1>0, <1>12, <2>2, PartsNext DEF StartIngest, Fetched, DataOK, JobOK
<1>m. [memory EXCEPT ![at] = 0] \in [Paths -> 0 .. MaxVersion]
  <2>1. memory \in [Paths -> 0 .. MaxVersion] /\ 0 \in 0 .. MaxVersion
    BY <1>0 DEF DataOK
  <2> QED
    BY <2>1
<1>13. CASE FetchRejected
  <2>1. JobOK'
    BY <1>0, <1>13, <1>f, OutcomeOK DEF FetchRejected
  <2> QED
    BY <1>0, <1>m, <1>13, <2>1, PartsNext DEF FetchRejected, DataOK, CallOK
<1>14. CASE FetchFails
  <2>1. JobOK'
    BY <1>0, <1>14, <1>f, OutcomeOK DEF FetchFails
  <2> QED
    BY <1>0, <1>14, <2>1, PartsNext DEF FetchFails, DataOK, CallOK
<1>e. \A i \in Slots : Ends(i) => CallOK'
  BY <1>0 DEF Ends, CallOK
<1>g. \A i \in Slots : ingest[i] # NoIngest => ingest[i] \in IngestOf
  BY <1>0 DEF CallOK
<1>15. ASSUME NEW i \in Slots, ParseRejects(i) PROVE TypeOK'
  <2>1. JobOK'
    BY <1>0, <1>15, <1>w, OutcomeOK DEF ParseRejects, InStage, ToJob, Waiting, JobOK
  <2>2. ingest[i].etag \in Versions
    BY <1>15, <1>g DEF ParseRejects, InStage, IngestOf
  <2>3. memory' \in [Paths -> 0 .. MaxVersion]
    <3>1. memory \in [Paths -> 0 .. MaxVersion]
      BY <1>0 DEF DataOK
    <3>2. [memory EXCEPT ![at] = ingest[i].etag] \in [Paths -> 0 .. MaxVersion]
      <4>1. ingest[i].etag \in 0 .. MaxVersion
        BY <2>2 DEF Versions
      <4> QED
        BY <3>1, <4>1
    <3>3. CASE ingest[i].waited
      BY <1>15, <3>2, <3>3 DEF ParseRejects, ToJob
    <3>4. CASE ~ingest[i].waited
      BY <1>15, <3>1, <3>4 DEF ParseRejects, ToJob
    <3> QED
      BY <3>3, <3>4
  <2> QED
    BY <1>0, <1>15, <1>e, <2>1, <2>3, PartsNext DEF ParseRejects, DataOK
<1>16. ASSUME NEW i \in Slots, CapRefuses(i) \/ IngestFails(i) PROVE TypeOK'
  <2>1. JobOK'
    BY <1>0, <1>16, <1>w, OutcomeOK DEF CapRefuses, IngestFails, InStage, ToJob, Waiting, JobOK
  <2> QED
    BY <1>0, <1>16, <1>e, <2>1, PartsNext DEF CapRefuses, IngestFails, ToJob, DataOK
<1>17. ASSUME NEW i \in Slots, Embed(i) PROVE TypeOK'
  <2>1. [ingest[i] EXCEPT !.stage = "embedding"] \in IngestOf
    BY <1>17, <1>g DEF Embed, InStage, IngestOf
  <2>2. CallOK'
    BY <1>0, <1>17, <2>1 DEF Embed, CallOK
  <2>3. DataOK'
    BY <1>0, <1>17 DEF Embed, DataOK
  <2> QED
    BY <1>0, <1>17, <2>2, <2>3, PartsNext DEF Embed, JobOK
<1>18. ASSUME NEW i \in Slots, Persist(i) PROVE TypeOK'
  <2>1. ingest[i] \in IngestOf
    BY <1>18, <1>g DEF Persist, InStage
  <2>2. ingest[i].path \in Paths /\ ingest[i].etag \in Versions /\ ingest[i].body \in Versions
    BY <2>1 DEF IngestOf
  <2>3. docs' \in [Paths -> DocOf \union {NoDoc}]
    BY <1>18, <1>d, <2>2 DEF Persist, Write
  <2>4. JobOK'
    <3>1. tokens' \in Nat
      BY <1>0, <1>18 DEF Persist, CountTokens, JobOK
    <3>2. CASE ingest[i].waited
      BY <1>0, <1>18, <3>1, <3>2 DEF Persist, JobOK, Counters
    <3>3. CASE ~ingest[i].waited
      BY <1>0, <1>18, <3>1, <3>3 DEF Persist, JobOK
    <3> QED
      BY <3>2, <3>3
  <2>5. memory' \in [Paths -> 0 .. MaxVersion]
    BY <1>0, <1>18 DEF Persist, DataOK
  <2> QED
    BY <1>0, <1>18, <1>e, <2>3, <2>4, <2>5, PartsNext DEF Persist, DataOK
<1>20. ASSUME NEW i \in Slots, TimesOut(i) PROVE TypeOK'
  <2>1. JobOK'
    BY <1>0, <1>20, <1>w, OutcomeOK DEF TimesOut, Waiting, JobOK
  <2>2. [ingest[i] EXCEPT !.waited = FALSE] \in IngestOf
    BY <1>20, <1>g DEF TimesOut, IngestOf
  <2>3. CallOK'
    BY <1>0, <1>20, <2>2 DEF TimesOut, CallOK
  <2> QED
    BY <1>0, <1>20, <2>1, <2>3, PartsNext DEF TimesOut, DataOK
<1>s. ASSUME NEW S \in SUBSET Paths, \A p \in S : docs[p] # NoDoc
      PROVE  Deleted(S) \in [Paths -> DocOf \union {NoDoc}]
  <2>1. ASSUME NEW d \in DocOf PROVE [d EXCEPT !.deleted = TRUE] \in DocOf
    BY DEF DocOf
  <2> QED
    BY <1>0, <1>s, <2>1 DEF Deleted, DataOK
<1>t. Gone \in SUBSET Paths /\ \A p \in Gone : docs[p] # NoDoc
  BY DEF Gone, Live
<1>22. CASE EndRun
  <2>1. PICK bad \in SUBSET Gone :
          /\ docs' = Deleted(Gone \ bad)
          /\ count' = [count EXCEPT !["failures"] = count["failures"] + Cardinality(bad)]
          /\ row' = FinalStatus(count["failures"] + Cardinality(bad))
    BY <1>22 DEF EndRun
  <2>2. Cardinality(bad) \in Nat
    BY <1>t, FS_Subset, FS_CardinalityType
  <2>3. count' \in [Counters -> Nat]
    BY <1>0, <2>1, <2>2 DEF JobOK, Counters
  <2>4. JobOK'
    BY <1>22, <1>r, <2>3 DEF EndRun
  <2>5. docs' \in [Paths -> DocOf \union {NoDoc}]
    BY <1>s, <1>t, <2>1
  <2>6. row' \in {"none", "completed", "failed"}
    BY <2>1 DEF FinalStatus
  <2>7. used' \in Nat
    BY <1>0, <1>22 DEF EndRun, DataOK, JobOK
  <2> QED
    BY <1>0, <1>22, <1>a, <2>4, <2>5, <2>6, <2>7, PartsNext DEF EndRun, DataOK, CallOK
<1>23. CASE Crash
  <2>1. docs' \in [Paths -> DocOf \union {NoDoc}]
    <3>1. PICK done \in SUBSET (IF AtEnd THEN Gone ELSE {}) : docs' = Deleted(done)
      BY <1>23 DEF Crash
    <3>2. done \in SUBSET Paths /\ \A p \in done : docs[p] # NoDoc
      BY <1>t, <3>1
    <3> QED
      BY <1>s, <3>1, <3>2
  <2>2. JobOK'
    BY <1>0, <1>23, <1>r DEF Crash, JobOK
  <2>3. CallOK'
    BY <1>23 DEF Crash, CallOK
  <2>4. row' \in {"none", "completed", "failed"}
    BY <1>0, <1>23 DEF Crash, DataOK
  <2> QED
    BY <1>0, <1>23, <2>1, <2>2, <2>3, <2>4, PartsNext DEF Crash, DataOK, NoListing
<1> QED
  BY <1>1, <1>2, <1>3, <1>4, <1>5, <1>6, <1>7, <1>8, <1>9, <1>10, <1>11, <1>12, <1>13, <1>14, <1>15,
     <1>16, <1>17, <1>18, <1>20, <1>22, <1>23 DEF Next, Run, Document, Call

LEMMA InitInv == Init => IInv
<1> SUFFICES ASSUME Init PROVE IInv
  OBVIOUS
<1> USE Bounds DEF Init
<1>1. DataOK
  <2>1. [ver : {1}, here : BOOLEAN] \subseteq [ver : Versions, here : BOOLEAN]
    OBVIOUS
  <2>2. remote \in [Paths -> [ver : Versions, here : BOOLEAN]]
    BY <2>1
  <2>3. memory \in [Paths -> 0 .. MaxVersion]
    BY DEF NoListing
  <2> QED
    BY <2>2, <2>3 DEF DataOK
<1>2. JobOK
  BY DEF JobOK, NoListing, Zero, Counters
<1>3. CallOK
  BY DEF CallOK
<1>4. CallInv
  BY DEF CallInv, Waiting, InStage
<1>5. VersionInv
  BY DEF VersionInv, EtagNeverAhead, NoListing
<1>6. LoopInv
  BY DEF LoopInv
<1> QED
  BY <1>1, <1>2, <1>3, <1>4, <1>5, <1>6, Parts DEF IInv

\* What the end of a document does to the other locals.
LEMMA OutcomeMoves ==
    ASSUME NEW p, NEW c,
           \/ Rejects(p, c) \/ Fails(p) \/ FailsOnCap(p)
           \/ \E outcome \in {"indexed", "unchanged"} : Succeeds(p, outcome)
    PROVE  phase' = "loop" /\ at' = NoPath /\ todo' = todo \ {p} /\ UNCHANGED <<listing, tokens>>
  BY DEF Rejects, Fails, FailsOnCap, Succeeds, Processed
----------------------------------------------------------------------------
LEMMA CallStep == ASSUME IInv, Next PROVE CallInv'
<1>0. JobOK /\ CallOK /\ CallInv
  BY Parts DEF IInv
<1>n. phase # "ingest" => \A i \in Slots : ~Waiting(i)
  BY <1>0 DEF CallInv
\* The slot i is the only one waited for, and the loop resumes.
<1>e. ASSUME NEW i \in Slots,
             \A k \in Slots \ {i} : ingest'[k] = ingest[k],
             ingest'[i] # NoIngest => ~ingest'[i].waited /\ ingest[i] # NoIngest
                                      /\ ingest'[i].stage = ingest[i].stage
                                      /\ ingest'[i].path = ingest[i].path
                                      /\ ingest'[i].body = ingest[i].body,
             \/ /\ Waiting(i)
                /\ phase' = "loop" /\ todo' \subseteq todo /\ listing' = listing
             \/ ~Waiting(i) /\ UNCHANGED <<phase, todo, at, listing>>
      PROVE  CallInv'
  <2>1. ASSUME Waiting(i) PROVE \A k \in Slots : ~Waiting(k)'
    BY <1>0, <1>e, <2>1 DEF CallInv, Waiting
  <2>2. ASSUME NEW k \in Slots, Waiting(k)' PROVE Waiting(k) /\ k # i /\ ingest'[k] = ingest[k]
    BY <1>e, <2>2 DEF Waiting
  <2>3. ASSUME NEW k \in Slots, InStage(k, "embedding")'
        PROVE  Kind(ingest'[k].path, ingest'[k].body) = "text"
    BY <1>0, <1>e, <2>3 DEF CallInv, InStage, Kind
  <2>4. phase' \in {"loop", "fetch", "ingest"} => \A p \in todo' : listing'[p] # 0
    BY <1>0, <1>e DEF CallInv, Waiting
  <2>5. CASE Waiting(i)
    BY <2>1, <2>3, <2>4, <2>5 DEF CallInv, Kind
  <2>6. CASE ~Waiting(i)
    BY <1>0, <1>e, <2>2, <2>3, <2>4, <2>6 DEF CallInv, Kind
  <2> QED
    BY <2>5, <2>6
\* No call is touched and none was waited for.
<1>f. ASSUME phase # "ingest", ingest' = ingest,
             phase' \in {"loop", "fetch", "ingest"} => \A p \in todo' : listing'[p] # 0
      PROVE  CallInv'
  BY <1>0, <1>n, <1>f DEF CallInv, Waiting, InStage, Kind
<1>s. ASSUME UNCHANGED <<phase, listing, todo, at, ingest>> PROVE CallInv'
  BY <1>0, <1>s DEF CallInv, Waiting, InStage, Kind
<1>1. ASSUME NEW p \in Paths, ChangeFile(p) PROVE CallInv'
  BY <1>1, <1>s DEF ChangeFile
<1>2. CASE CalmDown
  BY <1>2, <1>s DEF CalmDown
<1>3. CASE BeginRun
  BY <1>3, <1>f DEF BeginRun
<1>4. ASSUME NEW p \in Paths, Visit(p) PROVE CallInv'
  BY <1>4, <1>f DEF Visit
<1>5. CASE Listed
  BY <1>5, <1>f DEF Listed
<1>a. ASSUME ingest' = Abandoned, phase' = "idle" PROVE CallInv'
  <2>1. \A i \in Slots : ~Waiting(i)'
    BY <1>0, <1>a DEF Abandoned, Waiting, CallOK, IngestOf
  <2>2. ASSUME NEW i \in Slots, InStage(i, "embedding")'
        PROVE  InStage(i, "embedding") /\ ingest'[i].path = ingest[i].path /\ ingest'[i].body = ingest[i].body
    BY <1>0, <1>a, <2>2 DEF Abandoned, InStage, CallOK, IngestOf
  <2> QED
    BY <1>0, <1>a, <2>1, <2>2 DEF CallInv, Kind
<1>6. CASE WalkFails
  BY <1>6, <1>a DEF WalkFails, Return
<1>7. ASSUME NEW p \in Paths, SkipTooLarge(p) \/ SkipUnchanged(p) \/ SkipRemembered(p)
      PROVE  CallInv'
  <2>1. phase = "loop" /\ phase' = "loop" /\ todo' = todo \ {p} /\ listing' = listing /\ ingest' = ingest
    BY <1>7, OutcomeMoves DEF SkipTooLarge, SkipUnchanged, SkipRemembered, InLoop
  <2> QED
    BY <1>0, <1>f, <2>1 DEF CallInv
<1>8. ASSUME NEW p \in Paths, Fetch(p) PROVE CallInv'
  BY <1>0, <1>8, <1>f DEF Fetch, InLoop, CallInv
<1>9. CASE FetchedSame \/ FetchedUnsupported \/ FetchedOversize \/ FetchRejected \/ FetchFails
  <2>1. phase = "fetch" /\ phase' = "loop" /\ todo' = todo \ {at} /\ listing' = listing /\ ingest' = ingest
    BY <1>9, OutcomeMoves
    DEF FetchedSame, FetchedUnsupported, FetchedOversize, FetchRejected, FetchFails, Fetched
  <2> QED
    BY <1>0, <1>f, <2>1 DEF CallInv
<1>12. ASSUME NEW i \in Slots, StartIngest(i) PROVE CallInv'
  <2>1. /\ phase = "fetch" /\ phase' = "ingest" /\ UNCHANGED <<listing, todo, at>>
        /\ \A k \in Slots \ {i} : ingest'[k] = ingest[k]
    BY <1>0, <1>12 DEF StartIngest, Fetched, CallOK
  <2>2. ingest'[i].path = at /\ ingest'[i].stage = "parsing"
    BY <1>0, <1>12 DEF StartIngest, CallOK
  <2>3. \A k \in Slots : Waiting(k)' => k = i
    BY <1>n, <2>1 DEF Waiting
  <2>4. ASSUME NEW k \in Slots, InStage(k, "embedding")'
        PROVE  Kind(ingest'[k].path, ingest'[k].body) = "text"
    BY <1>0, <2>1, <2>2, <2>4 DEF CallInv, InStage, Kind
  <2> QED
    BY <1>0, <2>1, <2>2, <2>3, <2>4 DEF CallInv, Kind
<1>15. ASSUME NEW i \in Slots, ParseRejects(i) \/ CapRefuses(i) \/ IngestFails(i) PROVE CallInv'
  <2>1. ingest[i] # NoIngest /\ ingest'[i] = NoIngest /\ \A k \in Slots \ {i} : ingest'[k] = ingest[k]
    BY <1>0, <1>15 DEF ParseRejects, CapRefuses, IngestFails, InStage, Ends, CallOK
  <2>2. CASE ingest[i].waited
    <3>1. phase' = "loop" /\ todo' = todo \ {at} /\ listing' = listing
      BY <1>15, <2>2, OutcomeMoves DEF ParseRejects, CapRefuses, IngestFails, ToJob
    <3> QED
      BY <1>e, <2>1, <2>2, <3>1 DEF Waiting
  <2>3. CASE ~ingest[i].waited
    <3>1. UNCHANGED <<phase, todo, at, listing>>
      BY <1>15, <2>3 DEF ParseRejects, CapRefuses, IngestFails, ToJob
    <3> QED
      BY <1>e, <2>1, <2>3, <3>1 DEF Waiting
  <2> QED
    BY <2>2, <2>3
<1>17. ASSUME NEW i \in Slots, Embed(i) PROVE CallInv'
  <2>1. /\ Kind(ingest[i].path, ingest[i].body) = "text" /\ ingest[i] # NoIngest
        /\ UNCHANGED <<phase, listing, todo, at>>
    BY <1>17 DEF Embed, InStage
  <2>2. ingest[i] \in IngestOf
    BY <1>0, <2>1 DEF CallOK
  <2>3. /\ \A k \in Slots \ {i} : ingest'[k] = ingest[k]
        /\ ingest'[i] = [ingest[i] EXCEPT !.stage = "embedding"]
    BY <1>0, <1>17 DEF Embed, CallOK
  <2>4. /\ ingest'[i].path = ingest[i].path /\ ingest'[i].body = ingest[i].body
        /\ ingest'[i].waited = ingest[i].waited
    BY <2>2, <2>3 DEF IngestOf
  <2>5. ASSUME NEW k \in Slots, Waiting(k)' PROVE Waiting(k) /\ ingest'[k].path = ingest[k].path
    BY <2>1, <2>3, <2>4, <2>5 DEF Waiting
  <2>6. ASSUME NEW k \in Slots, InStage(k, "embedding")'
        PROVE  Kind(ingest'[k].path, ingest'[k].body) = "text"
    BY <1>0, <2>1, <2>3, <2>4, <2>6 DEF CallInv, InStage, Kind
  <2> QED
    BY <1>0, <2>1, <2>5, <2>6 DEF CallInv, Kind
<1>18. ASSUME NEW i \in Slots, Persist(i) PROVE CallInv'
  <2>1. ingest[i] # NoIngest /\ ingest'[i] = NoIngest /\ \A k \in Slots \ {i} : ingest'[k] = ingest[k]
    BY <1>0, <1>18 DEF Persist, InStage, Ends, CallOK
  <2>2. CASE ingest[i].waited
    <3>1. phase' = "loop" /\ todo' = todo \ {at} /\ listing' = listing
      BY <1>18, <2>2 DEF Persist
    <3> QED
      BY <1>e, <2>1, <2>2, <3>1 DEF Waiting
  <2>3. CASE ~ingest[i].waited
    <3>1. UNCHANGED <<phase, todo, at, listing>>
      BY <1>18, <2>3 DEF Persist
    <3> QED
      BY <1>e, <2>1, <2>3, <3>1 DEF Waiting
  <2> QED
    BY <2>2, <2>3
<1>20. ASSUME NEW i \in Slots, TimesOut(i) PROVE CallInv'
  <2>1. Waiting(i) /\ ingest[i] \in IngestOf
    BY <1>0, <1>20 DEF TimesOut, Waiting, CallOK
  <2>2. /\ ingest'[i] = [ingest[i] EXCEPT !.waited = FALSE]
        /\ \A k \in Slots \ {i} : ingest'[k] = ingest[k]
    BY <1>0, <1>20 DEF TimesOut, CallOK
  <2>3. /\ ~ingest'[i].waited /\ ingest'[i].stage = ingest[i].stage
        /\ ingest'[i].path = ingest[i].path /\ ingest'[i].body = ingest[i].body
    BY <2>1, <2>2 DEF IngestOf
  <2>4. phase' = "loop" /\ todo' = todo \ {at} /\ listing' = listing
    BY <1>20, OutcomeMoves DEF TimesOut
  <2> QED
    BY <1>e, <2>1, <2>2, <2>3, <2>4 DEF Waiting
<1>22. CASE EndRun
  BY <1>22, <1>a DEF EndRun, Return
<1>23. CASE Crash
  BY <1>23 DEF Crash, Return, CallInv, Waiting, InStage
<1> QED
  BY <1>1, <1>2, <1>3, <1>4, <1>5, <1>6, <1>7, <1>8, <1>9, <1>12, <1>15, <1>17, <1>18, <1>20,
     <1>22, <1>23 DEF Next, Run, Document, Call
----------------------------------------------------------------------------
LEMMA VersionStep == ASSUME IInv, Next PROVE VersionInv'
<1> USE Bounds
<1>0. DataOK /\ JobOK /\ CallOK /\ VersionInv
  BY Parts DEF IInv
<1>r. \A p \in Paths : remote[p].ver \in Nat
  BY <1>0 DEF DataOK
<1>g. \A i \in Slots : ingest[i] # NoIngest =>
        ingest[i].path \in Paths /\ ingest[i].etag \in Nat /\ ingest[i].body \in Nat
  BY <1>0 DEF CallOK, IngestOf
<1>l. \A p \in Paths : listing[p] \in Nat
  BY <1>0 DEF JobOK
\* The three conjuncts, each from what the step does to its variable.
<1>d. ASSUME UNCHANGED remote,
             \A p \in Paths : docs'[p] # NoDoc =>
                \/ docs[p] # NoDoc /\ docs'[p].etag = docs[p].etag /\ docs'[p].body = docs[p].body
                \/ docs'[p].etag <= docs'[p].body /\ docs'[p].body <= remote[p].ver
      PROVE  EtagNeverAhead'
  BY <1>0, <1>d DEF VersionInv, EtagNeverAhead
<1>i. ASSUME UNCHANGED remote,
             \A i \in Slots : ingest'[i] # NoIngest =>
                \/ /\ ingest[i] # NoIngest /\ ingest'[i].path = ingest[i].path
                   /\ ingest'[i].etag = ingest[i].etag /\ ingest'[i].body = ingest[i].body
                \/ ingest'[i].etag <= ingest'[i].body /\ ingest'[i].body <= remote[ingest'[i].path].ver
      PROVE  \A i \in Slots : ingest'[i] # NoIngest =>
                ingest'[i].etag <= ingest'[i].body /\ ingest'[i].body <= remote'[ingest'[i].path].ver
  BY <1>0, <1>i DEF VersionInv
<1>j. ASSUME UNCHANGED remote, \A p \in Paths : listing'[p] \in {0, listing[p], remote[p].ver}
      PROVE  \A p \in Paths : listing'[p] <= remote'[p].ver
  BY <1>0, <1>r, <1>j DEF VersionInv
<1>s. ASSUME UNCHANGED <<remote, docs, ingest>>, \A p \in Paths : listing'[p] \in {0, listing[p], remote[p].ver}
      PROVE  VersionInv'
  BY <1>s, <1>d, <1>i, <1>j DEF VersionInv
<1>1. ASSUME NEW p \in Paths, ChangeFile(p) PROVE VersionInv'
  <2>1. remote[p] \in [ver : Versions, here : BOOLEAN]
    BY <1>0 DEF DataOK
  <2>2. \A q \in Paths : remote'[q].ver \in {remote[q].ver, remote[q].ver + 1}
    <3>1. \A q \in Paths \ {p} : remote'[q] = remote[q]
      BY <1>0, <1>1 DEF ChangeFile, DataOK
    <3>2. \/ remote'[p] = [remote[p] EXCEPT !.ver = @ + 1]
          \/ remote'[p] = [remote[p] EXCEPT !.here = ~@]
      BY <1>0, <1>1 DEF ChangeFile, DataOK
    <3>3. remote'[p].ver \in {remote[p].ver, remote[p].ver + 1}
      BY <2>1, <3>2
    <3> QED
      BY <3>1, <3>3
  <2>3. UNCHANGED <<docs, listing, ingest>>
    BY <1>1 DEF ChangeFile
  <2>4. \A q \in Paths, n \in Nat : n <= remote[q].ver => n <= remote'[q].ver
    BY <1>r, <2>2
  <2>5. \A q \in Paths : docs[q] # NoDoc => docs[q].body \in Nat
    BY <1>0 DEF DataOK, DocOf
  <2> QED
    BY <1>0, <1>g, <1>l, <2>3, <2>4, <2>5 DEF VersionInv, EtagNeverAhead
<1>2. CASE CalmDown
  BY <1>2, <1>s DEF CalmDown
<1>3. CASE BeginRun
  BY <1>3, <1>s DEF BeginRun
<1>4. ASSUME NEW p \in Paths, Visit(p) PROVE VersionInv'
  <2>1. \A q \in Paths : listing'[q] \in {0, listing[q], remote[q].ver}
    BY <1>0, <1>4 DEF Visit, JobOK
  <2> QED
    BY <1>4, <1>s, <2>1 DEF Visit
<1>5. CASE Listed
  BY <1>5, <1>s DEF Listed
<1>a. ASSUME ingest' = Abandoned, UNCHANGED remote
      PROVE  \A i \in Slots : ingest'[i] # NoIngest =>
                ingest'[i].etag <= ingest'[i].body /\ ingest'[i].body <= remote'[ingest'[i].path].ver
  <2>1. ASSUME NEW i \in Slots, ingest'[i] # NoIngest
        PROVE  /\ ingest[i] # NoIngest /\ ingest'[i].path = ingest[i].path
               /\ ingest'[i].etag = ingest[i].etag /\ ingest'[i].body = ingest[i].body
    BY <1>0, <1>a, <2>1 DEF Abandoned, CallOK, IngestOf
  <2> QED
    BY <1>a, <1>i, <2>1
<1>6. CASE WalkFails
  <2>1. \A p \in Paths : listing'[p] = 0
    BY <1>6 DEF WalkFails, Return, NoListing
  <2> QED
    BY <1>6, <1>a, <1>d, <1>j, <2>1 DEF WalkFails, VersionInv
<1>7. ASSUME NEW p \in Paths, SkipTooLarge(p) \/ SkipUnchanged(p) \/ SkipRemembered(p)
      PROVE  VersionInv'
  BY <1>7, <1>s, OutcomeMoves DEF SkipTooLarge, SkipUnchanged, SkipRemembered
<1>8. ASSUME NEW p \in Paths, Fetch(p) PROVE VersionInv'
  BY <1>8, <1>s DEF Fetch
<1>f. phase = "fetch" => at \in Paths /\ listing[at] <= remote[at].ver
  BY <1>0 DEF JobOK, VersionInv
<1>9. CASE FetchedSame
  <2>1. at \in Paths /\ listing[at] <= remote[at].ver /\ docs[at] \in DocOf /\ docs[at].body = remote[at].ver
    BY <1>0, <1>9, <1>f DEF FetchedSame, Fetched, SameHash, Body, Live, DataOK
  <2>2. docs'[at].etag = listing[at] /\ docs'[at].body = remote[at].ver
    BY <1>0, <1>9, <2>1 DEF FetchedSame, DataOK, DocOf
  <2>3. \A p \in Paths \ {at} : docs'[p] = docs[p]
    BY <1>0, <1>9 DEF FetchedSame, DataOK
  <2>4. EtagNeverAhead'
    BY <1>9, <1>d, <1>r, <2>1, <2>2, <2>3 DEF FetchedSame
  <2> QED
    BY <1>9, <1>i, <1>j, <2>4, OutcomeMoves DEF FetchedSame, VersionInv
<1>10. CASE FetchedUnsupported
  <2>1. at \in Paths /\ listing[at] <= remote[at].ver
    BY <1>10, <1>f DEF FetchedUnsupported, Fetched
  <2>2. docs'[at].etag = listing[at] /\ docs'[at].body = remote[at].ver
    BY <1>0, <1>10, <2>1 DEF FetchedUnsupported, Body, DataOK
  <2>3. \A p \in Paths \ {at} : docs'[p] = docs[p]
    BY <1>0, <1>10 DEF FetchedUnsupported, DataOK
  <2>4. EtagNeverAhead'
    BY <1>10, <1>d, <1>r, <2>1, <2>2, <2>3 DEF FetchedUnsupported
  <2> QED
    BY <1>10, <1>i, <1>j, <2>4, OutcomeMoves DEF FetchedUnsupported, VersionInv
<1>11. CASE FetchedOversize \/ FetchRejected \/ FetchFails
  BY <1>11, <1>s, OutcomeMoves DEF FetchedOversize, FetchRejected, FetchFails
<1>12. ASSUME NEW i \in Slots, StartIngest(i) PROVE VersionInv'
  <2>1. at \in Paths /\ listing[at] <= remote[at].ver /\ UNCHANGED <<remote, docs, listing>>
    BY <1>12, <1>f DEF StartIngest, Fetched
  <2>2. ingest'[i].path = at /\ ingest'[i].etag = listing[at] /\ ingest'[i].body = remote[at].ver
    BY <1>0, <1>12 DEF StartIngest, Body, CallOK
  <2>3. \A k \in Slots \ {i} : ingest'[k] = ingest[k]
    BY <1>0, <1>12 DEF StartIngest, CallOK
  <2>4. \A k \in Slots : ingest'[k] # NoIngest =>
            ingest'[k].etag <= ingest'[k].body /\ ingest'[k].body <= remote'[ingest'[k].path].ver
    BY <1>i, <1>r, <2>1, <2>2, <2>3
  <2> QED
    BY <1>d, <1>j, <2>1, <2>4 DEF VersionInv
\* A call that ends leaves the others as they were.
<1>e. ASSUME NEW i \in Slots, Ends(i), UNCHANGED remote
      PROVE  \A k \in Slots : ingest'[k] # NoIngest =>
                ingest'[k].etag <= ingest'[k].body /\ ingest'[k].body <= remote'[ingest'[k].path].ver
  <2>1. \A k \in Slots : ingest'[k] = NoIngest \/ ingest'[k] = ingest[k]
    BY <1>0, <1>e DEF Ends, CallOK
  <2> QED
    BY <1>e, <1>i, <2>1
<1>15. ASSUME NEW i \in Slots, ParseRejects(i) \/ CapRefuses(i) \/ IngestFails(i) PROVE VersionInv'
  <2>1. listing' = listing
    BY <1>15, OutcomeMoves DEF ParseRejects, CapRefuses, IngestFails, ToJob
  <2>2. UNCHANGED <<remote, docs>> /\ Ends(i)
    BY <1>15 DEF ParseRejects, CapRefuses, IngestFails
  <2> QED
    BY <1>d, <1>e, <1>j, <2>1, <2>2 DEF VersionInv
<1>17. ASSUME NEW i \in Slots, Embed(i) PROVE VersionInv'
  <2>1. ingest[i] # NoIngest /\ UNCHANGED <<remote, docs, listing>>
    BY <1>17 DEF Embed, InStage
  <2>2. ingest'[i].path = ingest[i].path /\ ingest'[i].etag = ingest[i].etag /\ ingest'[i].body = ingest[i].body
    BY <1>0, <1>17, <2>1 DEF Embed, CallOK, IngestOf
  <2>3. \A k \in Slots \ {i} : ingest'[k] = ingest[k]
    BY <1>0, <1>17 DEF Embed, CallOK
  <2>4. \A k \in Slots : ingest'[k] # NoIngest =>
            ingest'[k].etag <= ingest'[k].body /\ ingest'[k].body <= remote'[ingest'[k].path].ver
    BY <1>i, <2>1, <2>2, <2>3
  <2> QED
    BY <1>d, <1>j, <2>1, <2>4 DEF VersionInv
<1>18. ASSUME NEW i \in Slots, Persist(i) PROVE VersionInv'
  <2>1. ingest[i] # NoIngest /\ Write(i) /\ Ends(i) /\ UNCHANGED <<remote, listing>>
    BY <1>18 DEF Persist, InStage
  <2>2. ingest[i].path \in Paths /\ ingest[i].etag <= ingest[i].body /\ ingest[i].body <= remote[ingest[i].path].ver
    BY <1>0, <1>g, <2>1 DEF VersionInv
  <2>3. docs'[ingest[i].path].etag = ingest[i].etag /\ docs'[ingest[i].path].body = ingest[i].body
    BY <1>0, <2>1, <2>2 DEF Write, DataOK
  <2>4. \A p \in Paths \ {ingest[i].path} : docs'[p] = docs[p]
    BY <1>0, <2>1 DEF Write, DataOK
  <2>5. EtagNeverAhead'
    BY <1>d, <2>1, <2>2, <2>3, <2>4
  <2> QED
    BY <1>e, <1>j, <2>1, <2>5 DEF VersionInv
<1>20. ASSUME NEW i \in Slots, TimesOut(i) PROVE VersionInv'
  <2>1. ingest[i] # NoIngest /\ UNCHANGED <<remote, docs, listing>>
    BY <1>20, OutcomeMoves DEF TimesOut
  <2>2. ingest'[i].path = ingest[i].path /\ ingest'[i].etag = ingest[i].etag /\ ingest'[i].body = ingest[i].body
    BY <1>0, <1>20, <2>1 DEF TimesOut, CallOK, IngestOf
  <2>3. \A k \in Slots \ {i} : ingest'[k] = ingest[k]
    BY <1>0, <1>20 DEF TimesOut, CallOK
  <2>4. \A k \in Slots : ingest'[k] # NoIngest =>
            ingest'[k].etag <= ingest'[k].body /\ ingest'[k].body <= remote'[ingest'[k].path].ver
    BY <1>i, <2>1, <2>2, <2>3
  <2> QED
    BY <1>d, <1>j, <2>1, <2>4 DEF VersionInv
\* Neither a listing nor a new etag: only deletions.
<1>x. ASSUME NEW S, docs' = Deleted(S), \A p \in S : p \in Paths => docs[p] # NoDoc, UNCHANGED remote
      PROVE  EtagNeverAhead'
  <2>1. ASSUME NEW p \in Paths, docs'[p] # NoDoc
        PROVE  docs[p] # NoDoc /\ docs'[p].etag = docs[p].etag /\ docs'[p].body = docs[p].body
    <3>1. p \in S => docs[p] \in DocOf
      BY <1>0, <1>x DEF DataOK
    <3> QED
      BY <1>x, <2>1, <3>1 DEF Deleted, DocOf
  <2> QED
    BY <1>d, <1>x, <2>1
<1>t. \A p \in Gone : docs[p] # NoDoc
  BY DEF Gone, Live
<1>22. CASE EndRun
  <2>1. PICK bad \in SUBSET Gone : docs' = Deleted(Gone \ bad)
    BY <1>22 DEF EndRun
  <2>2. \A p \in Paths : listing'[p] = 0
    BY <1>22 DEF EndRun, Return, NoListing
  <2>3. EtagNeverAhead'
    BY <1>22, <1>t, <1>x, <2>1 DEF EndRun
  <2> QED
    BY <1>22, <1>a, <1>j, <2>2, <2>3 DEF EndRun, VersionInv
<1>23. CASE Crash
  <2>1. PICK done \in SUBSET (IF AtEnd THEN Gone ELSE {}) : docs' = Deleted(done)
    BY <1>23 DEF Crash
  <2>2. \A p \in Paths : listing'[p] = 0
    BY <1>23 DEF Crash, Return, NoListing
  <2>3. \A p \in done : docs[p] # NoDoc
    BY <1>t, <2>1
  <2>4. EtagNeverAhead'
    BY <1>23, <1>x, <2>1, <2>3 DEF Crash
  <2> QED
    BY <1>23, <1>j, <2>2, <2>4 DEF Crash, VersionInv
<1> QED
  BY <1>1, <1>2, <1>3, <1>4, <1>5, <1>6, <1>7, <1>8, <1>9, <1>10, <1>11, <1>12, <1>15, <1>17, <1>18,
     <1>20, <1>22, <1>23 DEF Next, Run, Document, Call
----------------------------------------------------------------------------
\* What the end of a document does to the counters.
LEMMA OutcomeCounts ==
    ASSUME JobOK, NEW outcome \in Counters \ {"processed"},
           count' = [count EXCEPT !["processed"] = @ + 1, ![outcome] = @ + 1]
    PROVE  /\ count'["failures"] = IF outcome = "failures" THEN count["failures"] + 1 ELSE count["failures"]
           /\ ReportAddsUp => ReportAddsUp'
<1>1. count \in [Counters -> Nat]
  BY DEF JobOK
<1>3. outcome \in {"indexed", "unchanged", "rejected", "failures"}
  BY DEF Counters
<1>4. \A c \in Counters : count[c] \in Nat
  BY <1>1
<1> QED
  BY <1>1, <1>3, <1>4 DEF ReportAddsUp, Counters

\* Every way a document ends, as the invariant of the loop needs it.
LEMMA OutcomeLoop ==
    ASSUME JobOK, NEW p, NEW c,
           \/ Rejects(p, c) \/ Fails(p) \/ FailsOnCap(p)
           \/ \E outcome \in {"indexed", "unchanged"} : Succeeds(p, outcome)
    PROVE  /\ ReportAddsUp => ReportAddsUp'
           /\ count'["failures"] = 0 => count["failures"] = 0
           /\ (cut = "breaker" => count["failures"] > 0) => (cut' = "breaker" => count'["failures"] > 0)
           /\ rejected \subseteq rejected'
           /\ Fails(p) \/ FailsOnCap(p) => count'["failures"] # 0
<1>1. count["failures"] \in Nat /\ {"rejected", "failures", "indexed", "unchanged"} \subseteq Counters \ {"processed"}
  BY DEF JobOK, Counters
<1>f. ASSUME Fails(p) \/ FailsOnCap(p) PROVE count'["failures"] = count["failures"] + 1 /\ rejected' = rejected
  BY <1>1, <1>f, OutcomeCounts DEF Fails, FailsOnCap, Processed
<1>2. CASE Fails(p) \/ FailsOnCap(p)
  BY <1>1, <1>2, <1>f, OutcomeCounts DEF Fails, FailsOnCap, Processed
<1>3. CASE Rejects(p, c)
  <2>1. cut' = cut /\ rejected \subseteq rejected'
    BY <1>3 DEF Rejects
  <2>2. count' = [count EXCEPT !["processed"] = @ + 1, !["rejected"] = @ + 1]
    BY <1>3 DEF Rejects, Processed
  <2>3. count'["failures"] = count["failures"] /\ (ReportAddsUp => ReportAddsUp')
    BY <1>1, <2>2, OutcomeCounts
  <2> QED
    BY <1>1, <1>f, <2>1, <2>3
<1>4. ASSUME NEW outcome \in {"indexed", "unchanged"}, Succeeds(p, outcome)
      PROVE  /\ ReportAddsUp => ReportAddsUp'
             /\ count'["failures"] = count["failures"] /\ cut' = cut /\ rejected' = rejected
  BY <1>1, <1>4, OutcomeCounts DEF Succeeds, Processed
<1> QED
  BY <1>1, <1>2, <1>3, <1>4, <1>f

LEMMA LoopStep ==
    ASSUME IInv, Next
    PROVE  LoopInv' /\ (ReportAddsUp => ReportAddsUp' \/ EndRun)
<1> USE Bounds
<1>0. DataOK /\ JobOK /\ CallOK /\ CallInv /\ LoopInv
  BY Parts DEF IInv
<1> DEFINE Good == LoopInv' /\ (ReportAddsUp => ReportAddsUp')
<1>n. \A c \in Counters : count[c] \in Nat
  BY <1>0 DEF JobOK
<1>l. phase = "fetch" => listing[at] \in Versions
  BY <1>0 DEF JobOK
<1>k. \A e, b \in Versions : [etag |-> e, body |-> b, deleted |-> FALSE] \in DocOf
  BY DEF DocOf
<1>z. Zero["failures"] = 0 /\ (count' = Zero => ReportAddsUp')
  BY DEF Zero, ReportAddsUp, Counters
\* A step that ends no document.
<1>s. ASSUME UNCHANGED <<phase, listing, todo, rejected, count, cut>>, \A p \in Paths : Live(p) => Live(p)'
      PROVE  Good
  BY <1>0, <1>s DEF LoopInv, ReportAddsUp
\* A step into the walk or out of the job.
<1>b. ASSUME phase' \in {"idle", "walk"}, cut' = "no" PROVE LoopInv'
  BY <1>b DEF LoopInv
\* A step that ends the document p.
<1>p. ASSUME NEW p \in Paths, NEW c, phase \in {"loop", "fetch", "ingest"},
             \/ Rejects(p, c) \/ Fails(p) \/ FailsOnCap(p)
             \/ /\ \E outcome \in {"indexed", "unchanged"} : Succeeds(p, outcome)
                /\ docs'[p] # NoDoc /\ ~docs'[p].deleted,
             \A q \in Paths : Live(q) => Live(q)'
      PROVE  Good
  <2>1. /\ ReportAddsUp => ReportAddsUp'
        /\ count'["failures"] = 0 => count["failures"] = 0
        /\ cut' = "breaker" => count'["failures"] > 0
        /\ rejected \subseteq rejected'
        /\ Fails(p) \/ FailsOnCap(p) => count'["failures"] # 0
    BY <1>0, <1>p, OutcomeLoop DEF LoopInv
  <2>2. phase' = "loop" /\ todo' = todo \ {p} /\ listing' = listing
    BY <1>p, OutcomeMoves
  <2>3. count'["failures"] = 0 => p \in rejected' \/ Live(p)'
    BY <1>p, <2>1 DEF Rejects, Live
  <2>4. ASSUME count'["failures"] = 0, NEW q \in Paths, listing'[q] # 0, q \notin todo'
        PROVE  Live(q)' \/ q \in rejected'
    BY <1>0, <1>p, <2>1, <2>2, <2>3, <2>4 DEF LoopInv
  <2> QED
    BY <2>1, <2>2, <2>4 DEF LoopInv
<1>1. ASSUME NEW p \in Paths, ChangeFile(p) PROVE Good
  BY <1>1, <1>s DEF ChangeFile, Live
<1>2. CASE CalmDown
  BY <1>2, <1>s DEF CalmDown, Live
<1>3. CASE BeginRun
  <2>1. cut' = "no"
    BY <1>0, <1>3 DEF BeginRun, LoopInv
  <2> QED
    BY <1>3, <1>z, <2>1, <1>b DEF BeginRun
<1>4. ASSUME NEW p \in Paths, Visit(p) PROVE Good
  BY <1>0, <1>4 DEF Visit, LoopInv, ReportAddsUp
<1>5. CASE Listed
  BY <1>0, <1>5 DEF Listed, LoopInv, ReportAddsUp
<1>6. CASE WalkFails
  BY <1>6, <1>b DEF WalkFails, Return, ReportAddsUp
<1>7. ASSUME NEW p \in Paths, SkipTooLarge(p) \/ SkipUnchanged(p) \/ SkipRemembered(p)
      PROVE  Good
  <2>1. phase = "loop" /\ UNCHANGED docs
    BY <1>7 DEF SkipTooLarge, SkipUnchanged, SkipRemembered, InLoop
  <2>2. \A q \in Paths : Live(q)' = Live(q)
    BY <2>1 DEF Live
  <2>3. Rejects(p, 0) \/ Rejects(p, streak) \/ (Succeeds(p, "unchanged") /\ Live(p))
    BY <1>7 DEF SkipTooLarge, SkipUnchanged, SkipRemembered, SameEtag
  <2> QED
    BY <1>p, <2>1, <2>2, <2>3 DEF Live
<1>8. ASSUME NEW p \in Paths, Fetch(p) PROVE Good
  BY <1>0, <1>8 DEF Fetch, InLoop, LoopInv, Live, ReportAddsUp
<1>f. phase \in {"fetch", "ingest"} => at \in Paths
  BY <1>0 DEF JobOK
<1>9. CASE FetchedSame
  <2>1. phase = "fetch" /\ at \in Paths /\ docs[at] \in DocOf /\ ~docs[at].deleted
    BY <1>0, <1>9, <1>f DEF FetchedSame, Fetched, SameHash, Live, DataOK
  <2>2. docs'[at] # NoDoc /\ ~docs'[at].deleted
    BY <1>0, <1>9, <2>1, <1>l, Bounds DEF FetchedSame, DataOK, DocOf
  <2>3. \A q \in Paths \ {at} : docs'[q] = docs[q]
    BY <1>0, <1>9 DEF FetchedSame, DataOK
  <2>4. \A q \in Paths : Live(q) => Live(q)'
    BY <2>2, <2>3 DEF Live
  <2> QED
    BY <1>9, <1>p, <2>1, <2>2, <2>4 DEF FetchedSame
<1>10. CASE FetchedUnsupported
  <2>1. phase = "fetch" /\ at \in Paths
    BY <1>10, <1>f DEF FetchedUnsupported, Fetched
  <2>b. listing[at] \in Versions /\ Body \in Versions
    BY <1>0, <1>10, <1>l, <2>1 DEF FetchedUnsupported, Fetched, Body, DataOK
  <2>e. docs'[at] = [etag |-> listing[at], body |-> Body, deleted |-> FALSE]
    BY <1>0, <1>10, <2>1 DEF FetchedUnsupported, DataOK
  <2>2. ~docs'[at].deleted /\ docs'[at] # NoDoc
    BY <1>k, <2>b, <2>e
  <2>3. \A q \in Paths \ {at} : docs'[q] = docs[q]
    BY <1>0, <1>10 DEF FetchedUnsupported, DataOK
  <2>4. \A q \in Paths : Live(q) => Live(q)'
    BY <2>2, <2>3 DEF Live
  <2> QED
    BY <1>10, <1>p, <2>1, <2>4 DEF FetchedUnsupported
<1>11. CASE FetchedOversize \/ FetchRejected \/ FetchFails
  <2>1. phase = "fetch" /\ at \in Paths /\ UNCHANGED docs
    BY <1>11, <1>f DEF FetchedOversize, FetchRejected, FetchFails, Fetched
  <2>2. Rejects(at, streak) \/ Fails(at)
    BY <1>11 DEF FetchedOversize, FetchRejected, FetchFails
  <2> QED
    BY <1>p, <2>1, <2>2 DEF Live
<1>12. ASSUME NEW i \in Slots, StartIngest(i) PROVE Good
  BY <1>0, <1>12 DEF StartIngest, Fetched, LoopInv, Live, ReportAddsUp
<1>w. ASSUME NEW i \in Slots, ingest[i] # NoIngest, ingest[i].waited PROVE phase = "ingest" /\ at \in Paths
  BY <1>0, <1>f, <1>w DEF CallInv, Waiting
<1>15. ASSUME NEW i \in Slots, ParseRejects(i) \/ CapRefuses(i) \/ IngestFails(i) PROVE Good
  <2>1. ingest[i] # NoIngest /\ UNCHANGED docs
    BY <1>15 DEF ParseRejects, CapRefuses, IngestFails, InStage
  <2>2. CASE ingest[i].waited
    <3>1. Rejects(at, streak) \/ Fails(at) \/ FailsOnCap(at)
      BY <1>15, <2>2 DEF ParseRejects, CapRefuses, IngestFails, ToJob
    <3> QED
      BY <1>p, <1>w, <2>1, <2>2, <3>1 DEF Live
  <2>3. CASE ~ingest[i].waited
    BY <1>15, <1>s, <2>1, <2>3 DEF ParseRejects, CapRefuses, IngestFails, ToJob, Live
  <2> QED
    BY <2>2, <2>3
<1>17. ASSUME NEW i \in Slots, Embed(i) PROVE Good
  BY <1>17, <1>s DEF Embed, Live
<1>18. ASSUME NEW i \in Slots, Persist(i) PROVE Good
  <2>1. ingest[i] # NoIngest /\ ingest[i] \in IngestOf /\ Write(i)
    BY <1>0, <1>18 DEF Persist, InStage, CallOK
  <2>2. ingest[i].path \in Paths
    BY <2>1 DEF IngestOf
  <2>3. docs'[ingest[i].path] # NoDoc /\ ~docs'[ingest[i].path].deleted
    BY <1>0, <1>k, <2>1, <2>2 DEF Write, DataOK, IngestOf
  <2>4. \A q \in Paths \ {ingest[i].path} : docs'[q] = docs[q]
    BY <1>0, <2>1 DEF Write, DataOK
  <2>5. \A q \in Paths : Live(q) => Live(q)'
    BY <2>3, <2>4 DEF Live
  <2>6. CASE ingest[i].waited
    <3>1. ingest[i].path = at /\ phase = "ingest" /\ at \in Paths
      BY <1>0, <1>w, <2>1, <2>6 DEF CallInv, Waiting
    <3>2. docs'[at] # NoDoc /\ ~docs'[at].deleted
      BY <2>3, <3>1
    <3>3. /\ phase' = "loop" /\ todo' = todo \ {at} /\ UNCHANGED <<listing, rejected, cut>>
          /\ count' = [count EXCEPT !["processed"] = @ + 1, !["indexed"] = @ + 1]
      BY <1>18, <2>6 DEF Persist
    <3>4. count'["failures"] = count["failures"] /\ (ReportAddsUp => ReportAddsUp')
      <4>1. "indexed" \in Counters \ {"processed"}
        BY DEF Counters
      <4> QED
        BY <1>0, <3>3, <4>1, OutcomeCounts
    <3>5. \A q \in Paths : q = at => Live(q)'
      BY <3>2 DEF Live
    <3>6. ASSUME count'["failures"] = 0, NEW q \in Paths, listing'[q] # 0, q \notin todo'
          PROVE  Live(q)' \/ q \in rejected'
      BY <1>0, <2>5, <3>1, <3>3, <3>4, <3>5, <3>6 DEF LoopInv
    <3> QED
      BY <1>0, <3>3, <3>4, <3>6 DEF LoopInv
  <2>7. CASE ~ingest[i].waited
    BY <1>18, <1>s, <2>5, <2>7 DEF Persist
  <2> QED
    BY <2>6, <2>7
<1>20. ASSUME NEW i \in Slots, TimesOut(i) PROVE Good
  BY <1>20, <1>p, <1>w DEF TimesOut, Live
<1>22. CASE EndRun
  BY <1>22, <1>b DEF EndRun, Return
<1>23. CASE Crash
  BY <1>23, <1>b DEF Crash, Return, ReportAddsUp
<1> QED
  BY <1>1, <1>2, <1>3, <1>4, <1>5, <1>6, <1>7, <1>8, <1>9, <1>10, <1>11, <1>12, <1>15, <1>17, <1>18,
     <1>20, <1>22, <1>23 DEF Next, Run, Document, Call
----------------------------------------------------------------------------
LEMMA Inductive == IInv /\ [Next]_vars => IInv'
<1>1. ASSUME IInv, Next PROVE IInv'
  BY <1>1, TypeStep, CallStep, VersionStep, LoopStep DEF IInv
<1>2. ASSUME IInv, UNCHANGED vars PROVE IInv'
  <2>1. TypeOK'
    BY <1>2 DEF IInv, TypeOK
  <2>2. CallInv'
    BY <1>2 DEF IInv, CallInv, Waiting, InStage, Kind
  <2>3. VersionInv'
    BY <1>2 DEF IInv, VersionInv, EtagNeverAhead
  <2>4. LoopInv'
    BY <1>2 DEF IInv, LoopInv, Live
  <2> QED
    BY <2>1, <2>2, <2>3, <2>4 DEF IInv
<1> QED
  BY <1>1, <1>2

LEMMA Invariant == Spec => []IInv
  BY InitInv, Inductive, PTL DEF Spec

(***************************************************************************)
(* Every variable keeps its type: in particular the document at hand is    *)
(* always one that was listed and is not processed yet.                    *)
(***************************************************************************)
THEOREM TypeCorrect == Spec => []TypeOK
<1>1. IInv => TypeOK
  BY DEF IInv
<1> QED
  BY <1>1, Invariant, PTL

(***************************************************************************)
(* No interleaving of changes, fetches and late ingestions stores an etag  *)
(* newer than the content stored with it (ingest.ts persists the etag of   *)
(* the listing with the bytes of the fetch).                               *)
(***************************************************************************)
THEOREM EtagsStayBehind == Spec => []EtagNeverAhead
<1>1. IInv => EtagNeverAhead
  BY DEF IInv, VersionInv
<1> QED
  BY <1>1, Invariant, PTL

(***************************************************************************)
(* The counters a client polls add up at every step of a job and in the    *)
(* report of a completed one (rag-index.ts).                               *)
(***************************************************************************)
THEOREM CountersAgree == Spec => []CountersAddUp
<1>1. Init => CountersAddUp
  BY DEF Init, CountersAddUp
<1>2. ASSUME IInv, CountersAddUp, Next PROVE CountersAddUp'
  <2>0. DataOK /\ JobOK /\ CallInv
    BY <1>2, Parts DEF IInv
  <2>1. CASE phase = "idle" /\ row # "completed"
    <3>1. CASE BeginRun
      BY <3>1 DEF BeginRun, Zero, CountersAddUp, ReportAddsUp, Counters
    <3>2. \A i \in Slots : ingest[i] # NoIngest => ~ingest[i].waited
      BY <2>0, <2>1 DEF CallInv, Waiting
    <3>3. CASE ~BeginRun
      <4>1. phase' = "idle" /\ row' = row
        BY <1>2, <2>1, <3>2, <3>3 DEF Next, Run, Document, Call, ChangeFile, CalmDown, Visit, Listed,
           WalkFails, InLoop, SkipTooLarge, SkipUnchanged, SkipRemembered, Fetch, Fetched, FetchedSame,
           FetchedUnsupported, FetchedOversize, StartIngest, FetchRejected, FetchFails, InStage, ToJob,
           ParseRejects, CapRefuses, Embed, Persist, IngestFails, TimesOut, AtEnd, EndRun, Crash, Return
      <4> QED
        BY <2>1, <4>1 DEF CountersAddUp
    <3> QED
      BY <3>1, <3>3
  <2>2. CASE ReportAddsUp /\ ~EndRun
    BY <1>2, <2>2, LoopStep DEF CountersAddUp
  <2>3. CASE ReportAddsUp /\ EndRun
    <3>1. PICK bad \in SUBSET Gone :
            /\ count' = [count EXCEPT !["failures"] = count["failures"] + Cardinality(bad)]
            /\ row' = FinalStatus(count["failures"] + Cardinality(bad))
      BY <2>3 DEF EndRun
    <3>2. Cardinality(bad) \in Nat /\ \A c \in Counters : count[c] \in Nat
      BY <2>0, Bounds, FS_Subset, FS_CardinalityType DEF Gone, JobOK
    <3>3. phase' = "idle" /\ (row' = "completed" => Cardinality(bad) = 0)
      BY <2>3, <3>1, <3>2 DEF EndRun, Return, FinalStatus, Counters
    <3>4. Cardinality(bad) = 0 => \A c \in Counters : count'[c] = count[c]
      BY <2>0, <3>1, <3>2 DEF JobOK, Counters
    <3> QED
      BY <2>3, <3>3, <3>4 DEF CountersAddUp, ReportAddsUp, Counters
  <2> QED
    BY <1>2, <2>1, <2>2, <2>3 DEF CountersAddUp
<1>3. ASSUME CountersAddUp, UNCHANGED vars PROVE CountersAddUp'
  BY <1>3 DEF CountersAddUp, ReportAddsUp
<1>4. IInv /\ CountersAddUp /\ [Next]_vars => CountersAddUp'
  BY <1>2, <1>3
<1> QED
  BY <1>1, <1>4, Invariant, PTL DEF Spec

(***************************************************************************)
(* A searchable document only stops being searchable when the running job  *)
(* did not list it or found its format unsupported: neither a failed, a    *)
(* timed-out nor a late ingestion, nor a crash, takes it away.             *)
(***************************************************************************)
THEOREM LastVersionKept == Spec => SearchableUntilReplaced
<1> DEFINE Kept(p) ==
        Searchable(p) =>
            \/ Searchable(p)'
            \/ phase = "loop" /\ listing[p] = 0
            \/ phase = "fetch" /\ at = p /\ Kind(p, remote[p].ver) = "unsupported"
<1>s. ASSUME UNCHANGED docs PROVE \A p \in Paths : Kept(p)
  BY <1>s DEF Searchable, Live, Kind
<1>d. ASSUME IInv, NEW S \in SUBSET Gone, docs' = Deleted(S), S # {} => phase = "loop"
      PROVE  \A p \in Paths : Kept(p)
  <2>1. ASSUME NEW p \in Paths, p \in S PROVE phase = "loop" /\ listing[p] = 0
    BY <1>d, <2>1 DEF Gone
  <2>2. ASSUME NEW p \in Paths, p \notin S PROVE docs'[p] = docs[p]
    BY <1>d, <2>2 DEF Deleted
  <2> QED
    BY <2>1, <2>2 DEF Searchable, Live, Kind
<1>1. ASSUME IInv, Next PROVE \A p \in Paths : Kept(p)
  <2>0. DataOK /\ JobOK /\ CallOK /\ CallInv
    BY <1>1, Parts DEF IInv
  <2>1. CASE FetchedSame
    <3>1. listing[at] \in Versions
      BY <2>0, <2>1, Bounds DEF FetchedSame, Fetched, JobOK
    <3>2. ASSUME NEW p \in Paths, Live(p) PROVE Live(p)' /\ docs'[p].body = docs[p].body
      <4>1. docs[p] \in DocOf
        BY <2>0, <3>2 DEF DataOK, Live
      <4>2. docs'[p] = docs[p] \/ docs'[p] = [docs[p] EXCEPT !.etag = listing[at]]
        BY <2>0, <2>1 DEF FetchedSame, DataOK
      <4>3. docs'[p].deleted = docs[p].deleted /\ docs'[p].body = docs[p].body
        BY <4>1, <4>2 DEF DocOf
      <4>4. docs'[p] # NoDoc
        <5>1. [docs[p] EXCEPT !.etag = listing[at]] \in DocOf
          BY <3>1, <4>1 DEF DocOf
        <5> QED
          BY <4>1, <4>2, <5>1, Bounds
      <4> QED
        BY <3>2, <4>3, <4>4 DEF Live
    <3> QED
      BY <3>2 DEF Searchable, Kind
  <2>2. CASE FetchedUnsupported
    <3>1. phase = "fetch" /\ Kind(at, remote[at].ver) = "unsupported"
      BY <2>2 DEF FetchedUnsupported, Fetched
    <3>2. \A p \in Paths : p # at => docs'[p] = docs[p]
      BY <2>0, <2>2 DEF FetchedUnsupported, DataOK
    <3> QED
      BY <3>1, <3>2 DEF Searchable, Live, Kind
  <2>3. ASSUME NEW i \in Slots, Persist(i) PROVE \A p \in Paths : Kept(p)
    <3>1. /\ ingest[i] # NoIngest /\ ingest[i] \in IngestOf /\ Write(i)
          /\ Kind(ingest[i].path, ingest[i].body) = "text"
      BY <2>0, <2>3 DEF Persist, InStage, CallOK, CallInv
    <3>2. ingest[i].path \in Paths /\ ingest[i].etag \in Versions /\ ingest[i].body \in Versions
      BY <3>1 DEF IngestOf
    <3>3. docs'[ingest[i].path] = [etag |-> ingest[i].etag, body |-> ingest[i].body, deleted |-> FALSE]
      BY <2>0, <3>1, <3>2 DEF Write, DataOK
    <3>4. docs'[ingest[i].path] # NoDoc
      <4>1. docs'[ingest[i].path] \in DocOf
        BY <3>2, <3>3 DEF DocOf
      <4> QED
        BY <4>1, Bounds
    <3>5. \A p \in Paths : p = ingest[i].path => Searchable(p)'
      BY <3>1, <3>3, <3>4 DEF Searchable, Live, Kind
    <3>6. \A p \in Paths : p # ingest[i].path => docs'[p] = docs[p]
      BY <2>0, <3>1 DEF Write, DataOK
    <3> QED
      BY <3>5, <3>6 DEF Searchable, Live, Kind
  <2>4. CASE EndRun
    <3>1. PICK bad \in SUBSET Gone : docs' = Deleted(Gone \ bad)
      BY <2>4 DEF EndRun
    <3>2. phase = "loop"
      BY <2>4 DEF EndRun, AtEnd
    <3> QED
      BY <1>1, <1>d, <3>1, <3>2
  <2>5. CASE Crash
    <3>1. PICK done \in SUBSET (IF AtEnd THEN Gone ELSE {}) : docs' = Deleted(done)
      BY <2>5 DEF Crash
    <3>2. done \in SUBSET Gone /\ (done # {} => phase = "loop")
      BY <3>1 DEF AtEnd
    <3> QED
      BY <1>1, <1>d, <3>1, <3>2
  <2>6. CASE ~(FetchedSame \/ FetchedUnsupported \/ EndRun \/ Crash \/ \E i \in Slots : Persist(i))
    <3>1. UNCHANGED docs
      BY <1>1, <2>6 DEF Next, Run, Document, Call, ChangeFile, CalmDown, BeginRun, Visit, Listed, WalkFails,
         SkipTooLarge, SkipUnchanged, SkipRemembered, Fetch, FetchedOversize, StartIngest, FetchRejected,
         FetchFails, ParseRejects, CapRefuses, Embed, IngestFails, TimesOut
    <3> QED
      BY <1>s, <3>1
  <2> QED
    BY <2>1, <2>2, <2>3, <2>4, <2>5, <2>6
<1>2. IInv /\ [Next]_vars => [\A p \in Paths : Kept(p)]_vars
  BY <1>1
<1> QED
  BY <1>2, Invariant, PTL DEF Spec, SearchableUntilReplaced

(***************************************************************************)
(* A job that ends `completed` has every listed file indexed or among the  *)
(* rejected ones, and has removed everything else, whatever the breaker,   *)
(* the cap and the GC pass did on the way.                                 *)
(***************************************************************************)
THEOREM CompletedMeansIndexed == Spec => CompletedIsComplete
<1> DEFINE Complete ==
        phase = "loop" /\ phase' = "idle" /\ row' = "completed" =>
            \A p \in Paths :
                /\ listing[p] # 0 => Live(p)' \/ p \in rejected
                /\ listing[p] = 0 => ~Live(p)'
<1>1. ASSUME IInv, Next PROVE Complete
  <2> SUFFICES ASSUME phase = "loop", phase' = "idle", row' = "completed",
                      NEW p \in Paths
               PROVE  /\ listing[p] # 0 => Live(p)' \/ p \in rejected
                      /\ listing[p] = 0 => ~Live(p)'
    OBVIOUS
  <2>0. DataOK /\ JobOK /\ LoopInv
    BY <1>1, Parts DEF IInv
  <2>1. EndRun
    <3>1. ~Crash
      BY DEF Crash
    <3> QED
      BY <1>1, <3>1, OutcomeMoves DEF Next, Run, Document, Call, ChangeFile, CalmDown, BeginRun, Visit, Listed,
         WalkFails, SkipTooLarge, SkipUnchanged, SkipRemembered, Fetch, FetchedSame, FetchedUnsupported,
         FetchedOversize, StartIngest, FetchRejected, FetchFails, ParseRejects, CapRefuses, Embed, Persist,
         IngestFails, TimesOut, ToJob
  <2>2. PICK bad \in SUBSET Gone :
          /\ docs' = Deleted(Gone \ bad)
          /\ row' = FinalStatus(count["failures"] + Cardinality(bad))
    BY <2>1 DEF EndRun
  <2>3. IsFiniteSet(bad) /\ Cardinality(bad) \in Nat /\ count["failures"] \in Nat
    BY <2>0, Bounds, FS_Subset, FS_CardinalityType DEF Gone, JobOK, Counters
  <2>4. count["failures"] = 0 /\ Cardinality(bad) = 0 /\ cut # "cap"
    BY <2>2, <2>3 DEF FinalStatus
  <2>5. bad = {} /\ cut = "no" /\ todo = {}
    BY <2>0, <2>1, <2>3, <2>4, FS_EmptySet DEF JobOK, LoopInv, EndRun, AtEnd
  <2>6. docs' = Deleted({q \in Paths : Live(q) /\ listing[q] = 0})
    BY <2>2, <2>5 DEF Gone
  <2>7. CASE listing[p] # 0
    <3>1. docs'[p] = docs[p]
      BY <2>6, <2>7 DEF Deleted
    <3>2. Live(p) \/ p \in rejected
      BY <2>0, <2>4, <2>5, <2>7 DEF LoopInv
    <3> QED
      BY <2>7, <3>1, <3>2 DEF Live
  <2>8. CASE listing[p] = 0 /\ Live(p)
    <3>1. docs[p] \in DocOf
      BY <2>0, <2>8 DEF DataOK, Live
    <3>2. docs'[p] = [docs[p] EXCEPT !.deleted = TRUE]
      BY <2>6, <2>8 DEF Deleted
    <3> QED
      BY <2>8, <3>1, <3>2 DEF Live, DocOf
  <2>9. CASE listing[p] = 0 /\ ~Live(p)
    <3>1. docs'[p] = docs[p]
      BY <2>6, <2>9 DEF Deleted
    <3> QED
      BY <2>9, <3>1 DEF Live
  <2> QED
    BY <2>7, <2>8, <2>9
<1>2. IInv /\ [Next]_vars => [Complete]_vars
  BY <1>1
<1> QED
  BY <1>2, Invariant, PTL DEF Spec, CompletedIsComplete
----------------------------------------------------------------------------
(* The job and the call it waits for agree on the document, and the job is  *)
(* in `ingest` only while there is one.                                     *)
WaitInv ==
    /\ \A i \in Slots : Waiting(i) => ingest[i].etag = listing[at]
    /\ phase = "ingest" => \E i \in Slots : Waiting(i)

LEMMA WaitStep == ASSUME IInv, WaitInv, Next PROVE WaitInv'
<1>0. DataOK /\ JobOK /\ CallOK /\ CallInv /\ CallInv'
  BY Parts, CallStep DEF IInv
\* The document is over, or none was begun: nobody waits.
<1>q. ASSUME phase' # "ingest" PROVE WaitInv'
  BY <1>0, <1>q DEF WaitInv, CallInv
\* The job is where it was, and so is the call it waits for.
<1>s. ASSUME UNCHANGED <<phase, listing, at>>,
             \A i \in Slots : Waiting(i) <=> Waiting(i)',
             \A i \in Slots : Waiting(i) => ingest'[i].etag = ingest[i].etag
      PROVE  WaitInv'
  BY <1>s DEF WaitInv
<1>n. phase # "ingest" => \A i \in Slots : ~Waiting(i)
  BY <1>0 DEF CallInv
<1>1. ASSUME NEW p \in Paths, ChangeFile(p) PROVE WaitInv'
  BY <1>1, <1>s DEF ChangeFile, Waiting
<1>2. CASE CalmDown
  BY <1>2, <1>s DEF CalmDown, Waiting
<1>3. CASE BeginRun \/ Listed \/ WalkFails \/ EndRun \/ Crash
  BY <1>3, <1>q DEF BeginRun, Listed, WalkFails, EndRun, Crash, Return
<1>4. ASSUME NEW p \in Paths, Visit(p) PROVE WaitInv'
  BY <1>4, <1>q DEF Visit
<1>7. ASSUME NEW p \in Paths, SkipTooLarge(p) \/ SkipUnchanged(p) \/ SkipRemembered(p) \/ Fetch(p)
      PROVE  WaitInv'
  BY <1>7, <1>q, OutcomeMoves DEF SkipTooLarge, SkipUnchanged, SkipRemembered, Fetch
<1>9. CASE FetchedSame \/ FetchedUnsupported \/ FetchedOversize \/ FetchRejected \/ FetchFails
  BY <1>9, <1>q, OutcomeMoves
  DEF FetchedSame, FetchedUnsupported, FetchedOversize, FetchRejected, FetchFails
<1>12. ASSUME NEW i \in Slots, StartIngest(i) PROVE WaitInv'
  <2>1. phase = "fetch" /\ UNCHANGED <<listing, at>> /\ \A k \in Slots \ {i} : ingest'[k] = ingest[k]
    BY <1>0, <1>12 DEF StartIngest, Fetched, CallOK
  <2>2. ingest'[i].etag = listing[at] /\ ingest'[i].waited
    BY <1>0, <1>12 DEF StartIngest, CallOK
  <2>3. ingest'[i] # NoIngest
    <3>1. at \in Paths /\ listing[at] \in Versions /\ Body \in Versions
      BY <1>0, <1>12, Bounds DEF StartIngest, Fetched, JobOK, Body, DataOK
    <3>2. (docs[at] # NoDoc) \in BOOLEAN
      OBVIOUS
    <3>k. ASSUME NEW known \in BOOLEAN
          PROVE  [path |-> at, etag |-> listing[at], body |-> Body, known |-> known,
                  stage |-> "parsing", waited |-> TRUE, charged |-> TRUE] \in IngestOf
      BY <3>1 DEF IngestOf
    <3>3. [path |-> at, etag |-> listing[at], body |-> Body, known |-> docs[at] # NoDoc,
           stage |-> "parsing", waited |-> TRUE, charged |-> TRUE] \in IngestOf
      BY <3>k, <3>2, Zenon
    <3> QED
      BY <1>0, <1>12, <3>3, Bounds DEF StartIngest, CallOK
  <2>4. \A k \in Slots : Waiting(k)' => k = i
    BY <1>n, <2>1 DEF Waiting
  <2> QED
    BY <2>1, <2>2, <2>3, <2>4 DEF WaitInv, Waiting
\* A call nobody waits for.
<1>u. ASSUME NEW i \in Slots, ~Waiting(i), ~Waiting(i)', UNCHANGED <<phase, listing, at>>,
             \A k \in Slots \ {i} : ingest'[k] = ingest[k]
      PROVE  WaitInv'
  <2>1. \A k \in Slots \ {i} : Waiting(k)' <=> Waiting(k)
    BY <1>u DEF Waiting
  <2> QED
    BY <1>s, <1>u, <2>1
<1>15. ASSUME NEW i \in Slots, ParseRejects(i) \/ CapRefuses(i) \/ IngestFails(i) \/ Persist(i)
       PROVE  WaitInv'
  <2>1. ingest'[i] = NoIngest /\ \A k \in Slots \ {i} : ingest'[k] = ingest[k]
    BY <1>0, <1>15 DEF ParseRejects, CapRefuses, IngestFails, Persist, Ends, CallOK
  <2>2. CASE ingest[i].waited
    BY <1>15, <1>q, <2>2, OutcomeMoves DEF ParseRejects, CapRefuses, IngestFails, Persist, ToJob
  <2>3. CASE ~ingest[i].waited
    <3>1. UNCHANGED <<phase, at, listing>>
      BY <1>15, <2>3 DEF ParseRejects, CapRefuses, IngestFails, Persist, ToJob
    <3> QED
      BY <1>u, <2>1, <2>3, <3>1 DEF Waiting
  <2> QED
    BY <2>2, <2>3
<1>17. ASSUME NEW i \in Slots, Embed(i) PROVE WaitInv'
  <2>1. ingest[i] \in IngestOf /\ UNCHANGED <<phase, listing, at>>
    BY <1>0, <1>17 DEF Embed, InStage, CallOK
  <2>2. /\ ingest'[i] = [ingest[i] EXCEPT !.stage = "embedding"]
        /\ \A k \in Slots \ {i} : ingest'[k] = ingest[k]
    BY <1>0, <1>17 DEF Embed, CallOK
  <2>3. /\ ingest'[i] \in IngestOf
        /\ ingest'[i].etag = ingest[i].etag /\ ingest'[i].waited = ingest[i].waited
    BY <2>1, <2>2 DEF IngestOf
  <2>4. \A k \in Slots : Waiting(k) <=> Waiting(k)'
    BY <1>17, <2>2, <2>3, Bounds DEF Waiting, Embed, InStage
  <2> QED
    BY <1>s, <2>1, <2>2, <2>3, <2>4
<1>20. ASSUME NEW i \in Slots, TimesOut(i) PROVE WaitInv'
  BY <1>20, <1>q, OutcomeMoves DEF TimesOut
<1> QED
  BY <1>1, <1>2, <1>3, <1>4, <1>7, <1>9, <1>12, <1>15, <1>17, <1>20 DEF Next, Run, Document, Call

LEMMA WaitInvariant == Spec => [](IInv /\ WaitInv)
<1>1. Init => WaitInv
  BY DEF Init, WaitInv, Waiting
<1>2. IInv /\ WaitInv /\ [Next]_vars => WaitInv'
  <2>1. ASSUME WaitInv, UNCHANGED vars PROVE WaitInv'
    BY <2>1 DEF WaitInv, Waiting
  <2> QED
    BY <2>1, WaitStep
<1> QED
  BY <1>1, <1>2, Invariant, PTL DEF Spec
----------------------------------------------------------------------------
(***************************************************************************)
(* The safety half of EventuallyFresh.  A settled state is one whose job,  *)
(* if any, knows the files as they are: nothing changes any more, every    *)
(* call in flight holds the content its file has now, and what the job has *)
(* listed is what is there.                                                *)
(***************************************************************************)
InFlight == {"loop", "fetch", "ingest"}

Now(p) == IF remote[p].here THEN remote[p].ver ELSE 0

CallsCurrent == \A i \in Slots : ingest[i] # NoIngest => ingest[i].body = Now(ingest[i].path)

ListingCurrent ==
    \A p \in Paths : phase = "idle" \/ (phase = "walk" /\ p \in todo) \/ listing[p] = Now(p)

DoneIsFresh ==
    phase \in InFlight =>
        \A p \in Paths \ todo : listing[p] # 0 => Fresh(p) \/ count["failures"] > 0

Settled == calm /\ CallsCurrent /\ ListingCurrent /\ DoneIsFresh

\* What a step of a settled state does.
Repairs ==
    Settled =>
        /\ Settled'
        /\ \A p \in Paths : Fresh(p) => Fresh(p)'
        /\ phase = "loop" /\ phase' = "idle" /\ row' = "completed" => \A p \in Paths : Fresh(p)'

LEMMA RepairStep == ASSUME IInv, WaitInv, Next, Settled PROVE Repairs
<1> USE Bounds
<1>0. DataOK /\ JobOK /\ CallOK /\ CallInv /\ VersionInv /\ LoopInv
  BY Parts DEF IInv
<1>c. calm /\ CallsCurrent /\ ListingCurrent /\ DoneIsFresh
  BY DEF Settled
<1>r. \A p \in Paths : remote[p].ver \in Nat \ {0} /\ (Now(p) # 0 <=> remote[p].here)
  BY <1>0 DEF DataOK, Now
<1> DEFINE Keeps == Settled' /\ (\A p \in Paths : Fresh(p) => Fresh(p)') /\ phase' # "idle"
<1>k. Keeps => Repairs
  BY DEF Repairs
<1>n. UNCHANGED remote => \A p \in Paths : Now(p)' = Now(p)
  BY DEF Now
\* A call in flight has a path; what it holds is what is there.
<1>g. \A i \in Slots : ingest[i] # NoIngest =>
        /\ ingest[i].path \in Paths
        /\ remote[ingest[i].path].here /\ ingest[i].body = remote[ingest[i].path].ver
  <2>1. ASSUME NEW i \in Slots, ingest[i] # NoIngest
        PROVE  ingest[i].path \in Paths /\ ingest[i].body # 0
    BY <1>0, <2>1 DEF CallOK, IngestOf
  <2> QED
    BY <1>c, <1>r, <2>1 DEF CallsCurrent, Now
\* Calls go on, end, or are given up: none gets other content.
<1>i. ASSUME UNCHANGED remote,
             \A i \in Slots : ingest'[i] # NoIngest =>
                ingest[i] # NoIngest /\ ingest'[i].path = ingest[i].path /\ ingest'[i].body = ingest[i].body
      PROVE  CallsCurrent'
  BY <1>c, <1>g, <1>i, <1>n DEF CallsCurrent
<1>j. \A i \in Slots : Ends(i) => \A k \in Slots : ingest'[k] # NoIngest => ingest'[k] = ingest[k]
  BY <1>0 DEF Ends, CallOK
\* The rows of all files but q, and what is remembered of them, stay.
<1>m. ASSUME UNCHANGED remote, NEW q \in Paths, Fresh(q) => Fresh(q)',
             \A p \in Paths \ {q} : docs'[p] = docs[p] /\ memory'[p] = memory[p]
      PROVE  \A p \in Paths : Fresh(p) => Fresh(p)'
  BY <1>m DEF Fresh, Live, Kind
<1>u. ASSUME UNCHANGED <<remote, docs, memory>> PROVE \A p \in Paths : Fresh(p)' = Fresh(p)
  BY <1>u DEF Fresh, Live, Kind
\* The job is where it was; rows and memory only get fresher.
<1>s. ASSUME UNCHANGED <<remote, calm, phase, listing, todo, count>>, CallsCurrent',
             \A p \in Paths : Fresh(p) => Fresh(p)'
      PROVE  Settled' /\ (\A p \in Paths : Fresh(p) => Fresh(p)')
  <2>1. ListingCurrent'
    BY <1>c, <1>n, <1>s DEF ListingCurrent
  <2>2. DoneIsFresh'
    BY <1>c, <1>s DEF DoneIsFresh
  <2> QED
    BY <1>c, <1>s, <2>1, <2>2 DEF Settled
\* The document p is over.
<1>d. ASSUME NEW p \in Paths, NEW c, phase \in InFlight, UNCHANGED <<remote, calm>>, CallsCurrent',
             \/ Rejects(p, c) \/ Fails(p) \/ FailsOnCap(p)
             \/ \E outcome \in {"indexed", "unchanged"} : Succeeds(p, outcome),
             Fails(p) \/ FailsOnCap(p) \/ Fresh(p)',
             \A q \in Paths : Fresh(q) => Fresh(q)'
      PROVE  Keeps
  <2>1. phase' = "loop" /\ todo' = todo \ {p} /\ listing' = listing
    BY <1>d, OutcomeMoves
  <2>2. ListingCurrent'
    BY <1>c, <1>d, <1>n, <2>1 DEF ListingCurrent, InFlight
  <2>3. /\ count["failures"] \in Nat /\ count'["failures"] \in Nat
        /\ count'["failures"] = 0 => count["failures"] = 0
        /\ Fails(p) \/ FailsOnCap(p) => count'["failures"] # 0
    <3>1. JobOK'
      BY TypeStep, PartsNext
    <3> QED
      BY <1>0, <1>d, <3>1, OutcomeLoop DEF JobOK, Counters
  <2>4. ASSUME NEW q \in Paths \ todo', listing'[q] # 0 PROVE Fresh(q)' \/ count'["failures"] > 0
    BY <1>c, <1>d, <2>1, <2>3, <2>4 DEF DoneIsFresh
  <2>5. DoneIsFresh'
    BY <2>4 DEF DoneIsFresh
  <2> QED
    BY <1>c, <1>d, <2>1, <2>2, <2>5 DEF Settled
<1>3. CASE BeginRun
  <2>1. CallsCurrent' /\ \A p \in Paths : Fresh(p)' = Fresh(p)
    BY <1>3, <1>i, <1>u DEF BeginRun
  <2> QED
    BY <1>3, <1>c, <1>k, <2>1 DEF BeginRun, Settled, ListingCurrent, DoneIsFresh, InFlight
<1>4. ASSUME NEW p \in Paths, Visit(p) PROVE Repairs
  <2>1. CallsCurrent' /\ \A q \in Paths : Fresh(q)' = Fresh(q)
    BY <1>4, <1>i, <1>u DEF Visit
  <2>2. ListingCurrent'
    <3>1. listing'[p] = Now(p) /\ \A q \in Paths \ {p} : listing'[q] = listing[q]
      BY <1>0, <1>4 DEF Visit, Now, JobOK
    <3> QED
      BY <1>4, <1>c, <1>n, <3>1 DEF Visit, ListingCurrent
  <2> QED
    BY <1>4, <1>c, <1>k, <2>1, <2>2 DEF Visit, Settled, DoneIsFresh, InFlight
<1>5. CASE Listed
  <2>1. CallsCurrent' /\ \A p \in Paths : Fresh(p)' = Fresh(p)
    BY <1>5, <1>i, <1>u DEF Listed
  <2>2. ListingCurrent'
    BY <1>5, <1>c, <1>n DEF Listed, ListingCurrent
  <2>3. DoneIsFresh'
    BY <1>5 DEF Listed, DoneIsFresh
  <2> QED
    BY <1>5, <1>c, <1>k, <2>1, <2>2, <2>3 DEF Listed, Settled
\* What the loop has not processed was listed, with the version it has.
<1>t. \A p \in todo : phase \in InFlight => p \in Paths /\ remote[p].here /\ listing[p] = remote[p].ver
  BY <1>0, <1>c, <1>r DEF CallInv, JobOK, ListingCurrent, InFlight, Now
<1>7. ASSUME NEW p \in Paths, SkipTooLarge(p) \/ SkipUnchanged(p) \/ SkipRemembered(p)
      PROVE  Repairs
  <2>1. phase = "loop" /\ p \in todo /\ UNCHANGED <<remote, calm, docs, memory, ingest>>
    BY <1>7 DEF SkipTooLarge, SkipUnchanged, SkipRemembered, InLoop
  <2>2. remote[p].here /\ listing[p] = remote[p].ver
    BY <1>t, <2>1 DEF InFlight
  <2>3. Fresh(p)
    <3>1. CASE SkipTooLarge(p)
      BY <2>2, <3>1 DEF SkipTooLarge, TooLarge, Fresh
    <3>2. CASE SkipRemembered(p)
      BY <2>2, <3>2 DEF SkipRemembered, Remembered, Fresh
    <3>3. CASE SkipUnchanged(p)
      <4>1. Live(p) /\ docs[p].etag = remote[p].ver /\ docs[p] # NoDoc /\ docs[p] \in DocOf
        BY <1>0, <2>2, <3>3 DEF SkipUnchanged, SameEtag, Live, DataOK
      <4>2. docs[p].etag <= docs[p].body /\ docs[p].body <= remote[p].ver /\ docs[p].body \in Nat
        BY <1>0, <4>1 DEF VersionInv, EtagNeverAhead, DocOf
      <4>3. docs[p].body = remote[p].ver
        BY <1>r, <4>1, <4>2
      <4> QED
        BY <2>2, <4>1, <4>3 DEF Fresh
    <3> QED
      BY <1>7, <3>1, <3>2, <3>3
  <2>4. CallsCurrent' /\ \A q \in Paths : Fresh(q)' = Fresh(q)
    BY <1>i, <1>u, <2>1
  <2>5. Rejects(p, 0) \/ Rejects(p, streak) \/ Succeeds(p, "unchanged")
    BY <1>7 DEF SkipTooLarge, SkipUnchanged, SkipRemembered
  <2> QED
    BY <1>d, <1>k, <2>1, <2>3, <2>4, <2>5 DEF InFlight
<1>8. ASSUME NEW p \in Paths, Fetch(p) PROVE Repairs
  <2>1. CallsCurrent' /\ \A q \in Paths : Fresh(q)' = Fresh(q)
    BY <1>8, <1>i, <1>u DEF Fetch
  <2>2. ListingCurrent'
    BY <1>8, <1>c, <1>n DEF Fetch, InLoop, ListingCurrent
  <2>3. DoneIsFresh'
    BY <1>8, <1>c, <2>1 DEF Fetch, InLoop, DoneIsFresh, InFlight
  <2> QED
    BY <1>8, <1>c, <1>k, <2>1, <2>2, <2>3 DEF Fetch, Settled
<1>f. phase = "fetch" => at \in Paths /\ remote[at].here /\ listing[at] = remote[at].ver
  BY <1>0, <1>t DEF JobOK, InFlight
<1>9. CASE FetchedSame
  <2>1. phase = "fetch" /\ at \in Paths /\ remote[at].here /\ UNCHANGED <<remote, calm, ingest>>
    BY <1>9, <1>f DEF FetchedSame, Fetched
  <2>2. \A q \in Paths \ {at} : docs'[q] = docs[q] /\ memory'[q] = memory[q]
    BY <1>0, <1>9 DEF FetchedSame, DataOK
  <2>3. Live(at) /\ docs[at] \in DocOf /\ docs[at].body = remote[at].ver
    BY <1>0, <1>9, <2>1 DEF FetchedSame, SameHash, Body, Live, DataOK
  <2>4. docs'[at] # NoDoc /\ ~docs'[at].deleted /\ docs'[at].body = remote[at].ver
    <3>1. listing[at] \in Versions
      BY <1>0, <2>1 DEF JobOK
    <3>2. docs'[at] = [docs[at] EXCEPT !.etag = listing[at]] /\ docs'[at] \in DocOf
      BY <1>0, <1>9, <2>1, <2>3, <3>1 DEF FetchedSame, DataOK, DocOf
    <3> QED
      BY <2>3, <3>2 DEF Live, DocOf
  <2>5. \A q \in Paths : q = at => Fresh(q)'
    BY <2>1, <2>4 DEF Fresh, Live
  <2>6. CallsCurrent' /\ \A q \in Paths : Fresh(q) => Fresh(q)'
    BY <1>i, <1>m, <2>1, <2>2, <2>5
  <2> QED
    BY <1>9, <1>d, <1>k, <2>1, <2>5, <2>6 DEF FetchedSame, InFlight
<1>10. CASE FetchedUnsupported
  <2>1. /\ phase = "fetch" /\ at \in Paths /\ remote[at].here /\ listing[at] = remote[at].ver
        /\ UNCHANGED <<remote, calm, ingest, memory>>
    BY <1>10, <1>f DEF FetchedUnsupported, Fetched
  <2>2. \A q \in Paths \ {at} : docs'[q] = docs[q]
    BY <1>0, <1>10 DEF FetchedUnsupported, DataOK
  <2>3. docs'[at] = [etag |-> listing[at], body |-> remote[at].ver, deleted |-> FALSE]
    BY <1>0, <1>10, <2>1 DEF FetchedUnsupported, Body, DataOK
  <2>4. docs'[at] # NoDoc
    <3>1. listing[at] \in Versions /\ remote[at].ver \in Versions
      BY <1>0, <2>1 DEF DataOK
    <3>2. \A e, b \in Versions : [etag |-> e, body |-> b, deleted |-> FALSE] \in DocOf
      BY DEF DocOf
    <3> QED
      BY <2>3, <3>1, <3>2
  <2>b. ~docs'[at].deleted /\ docs'[at].body = remote[at].ver
    BY <2>3
  <2>5. \A q \in Paths : q = at => Fresh(q)'
    BY <2>1, <2>4, <2>b DEF Fresh, Live
  <2>6. CallsCurrent' /\ \A q \in Paths : Fresh(q) => Fresh(q)'
    BY <1>i, <1>m, <2>1, <2>2, <2>5
  <2> QED
    BY <1>10, <1>d, <1>k, <2>1, <2>5, <2>6 DEF FetchedUnsupported, InFlight
<1>11. CASE FetchedOversize
  <2>1. /\ phase = "fetch" /\ at \in Paths /\ remote[at].here /\ Kind(at, remote[at].ver) = "oversize"
        /\ UNCHANGED <<remote, calm, ingest, docs>>
    BY <1>11, <1>f DEF FetchedOversize, Fetched
  <2>2. \A q \in Paths : q = at => Fresh(q)'
    BY <2>1 DEF Fresh, Kind
  <2>3. \A q \in Paths \ {at} : memory'[q] = memory[q]
    BY <1>0, <1>11 DEF FetchedOversize, DataOK
  <2>4. CallsCurrent' /\ \A q \in Paths : Fresh(q) => Fresh(q)'
    BY <1>i, <1>m, <2>1, <2>2, <2>3
  <2> QED
    BY <1>11, <1>d, <1>k, <2>1, <2>2, <2>4 DEF FetchedOversize, InFlight
<1>12. ASSUME NEW i \in Slots, StartIngest(i) PROVE Repairs
  <2>1. /\ phase = "fetch" /\ phase' = "ingest" /\ at \in Paths /\ remote[at].here
        /\ UNCHANGED <<remote, calm, docs, memory, listing, todo, count>>
    BY <1>12, <1>f DEF StartIngest, Fetched
  <2>2. ingest'[i].path = at /\ ingest'[i].body = remote[at].ver /\ \A k \in Slots \ {i} : ingest'[k] = ingest[k]
    BY <1>0, <1>12 DEF StartIngest, Body, CallOK
  <2>3. CallsCurrent'
    BY <1>c, <1>g, <1>n, <2>1, <2>2 DEF CallsCurrent, Now
  <2>4. \A q \in Paths : Fresh(q)' = Fresh(q)
    BY <1>u, <2>1
  <2>5. ListingCurrent'
    BY <1>c, <1>n, <2>1 DEF ListingCurrent
  <2>6. DoneIsFresh'
    BY <1>c, <2>1, <2>4 DEF DoneIsFresh, InFlight
  <2> QED
    BY <1>c, <1>k, <2>1, <2>3, <2>4, <2>5, <2>6 DEF Settled
\* A listed file that is there is not reported as gone.
<1>13. ~FetchRejected
  BY <1>c, <1>f DEF FetchRejected
\* What a call in flight writes is what is there.
<1>w. ASSUME NEW i \in Slots, Waiting(i)
      PROVE  /\ phase = "ingest" /\ phase \in InFlight /\ at \in Paths /\ ingest[i].path = at
             /\ remote[at].here /\ ingest[i].etag = remote[at].ver
  <2>1. phase = "ingest" /\ ingest[i].path = at /\ ingest[i].etag = listing[at] /\ at \in todo
    BY <1>0, <1>w DEF CallInv, WaitInv, JobOK
  <2> QED
    BY <1>t, <2>1 DEF InFlight
<1>v. \A i \in Slots : phase = "idle" \/ phase' = "idle" => ~Waiting(i) \/ phase = "ingest"
  BY <1>0 DEF CallInv
<1>15. ASSUME NEW i \in Slots, ParseRejects(i) \/ CapRefuses(i) \/ IngestFails(i) PROVE Repairs
  <2>1. ingest[i] # NoIngest /\ Ends(i) /\ UNCHANGED <<remote, calm, docs>>
    BY <1>15 DEF ParseRejects, CapRefuses, IngestFails, InStage
  <2>2. CallsCurrent'
    BY <1>i, <1>j, <2>1
  <2>3. CASE Waiting(i)
    <3>1. phase \in InFlight /\ at \in Paths /\ remote[at].here /\ ingest[i].etag = remote[at].ver
      BY <1>w, <2>3
    <3>2. CASE ParseRejects(i)
      <4>1. Rejects(at, streak) /\ memory' = [memory EXCEPT ![at] = ingest[i].etag]
        BY <2>3, <3>2 DEF ParseRejects, ToJob, Waiting
      <4>2. memory'[at] = remote[at].ver /\ \A q \in Paths \ {at} : memory'[q] = memory[q]
        BY <1>0, <3>1, <4>1 DEF DataOK
      <4>3. \A q \in Paths : q = at => Fresh(q)'
        BY <2>1, <3>1, <4>2 DEF Fresh
      <4>4. \A q \in Paths : Fresh(q) => Fresh(q)'
        BY <1>m, <2>1, <3>1, <4>2, <4>3
      <4> QED
        BY <1>d, <1>k, <2>1, <2>2, <3>1, <4>1, <4>3, <4>4
    <3>3. CASE CapRefuses(i) \/ IngestFails(i)
      <4>1. (FailsOnCap(at) \/ Fails(at)) /\ UNCHANGED memory
        BY <2>3, <3>3 DEF CapRefuses, IngestFails, ToJob, Waiting
      <4>2. \A q \in Paths : Fresh(q)' = Fresh(q)
        BY <1>u, <2>1, <4>1
      <4> QED
        BY <1>d, <1>k, <2>1, <2>2, <3>1, <4>1, <4>2
    <3> QED
      BY <1>15, <3>2, <3>3
  <2>4. CASE ~Waiting(i)
    <3>1. UNCHANGED <<phase, listing, todo, count, memory>>
      BY <1>15, <2>1, <2>4 DEF ParseRejects, CapRefuses, IngestFails, ToJob, Waiting
    <3>2. \A q \in Paths : Fresh(q)' = Fresh(q)
      BY <1>u, <2>1, <3>1
    <3> QED
      BY <1>s, <2>1, <2>2, <3>1, <3>2 DEF Repairs
  <2> QED
    BY <2>3, <2>4
<1>17. ASSUME NEW i \in Slots, Embed(i) PROVE Repairs
  <2>1. ingest[i] # NoIngest /\ UNCHANGED <<remote, calm, docs, memory, phase, listing, todo, count>>
    BY <1>17 DEF Embed, InStage
  <2>2. ingest'[i].path = ingest[i].path /\ ingest'[i].body = ingest[i].body
        /\ \A k \in Slots \ {i} : ingest'[k] = ingest[k]
    BY <1>0, <1>17, <2>1 DEF Embed, CallOK, IngestOf
  <2>3. CallsCurrent'
    BY <1>i, <2>1, <2>2
  <2>4. \A q \in Paths : Fresh(q)' = Fresh(q)
    BY <1>u, <2>1
  <2> QED
    BY <1>s, <2>1, <2>3, <2>4 DEF Repairs
<1>18. ASSUME NEW i \in Slots, Persist(i) PROVE Repairs
  <2> DEFINE g == ingest[i]
  <2>1. g # NoIngest /\ g \in IngestOf /\ Write(i) /\ Ends(i) /\ UNCHANGED <<remote, calm, listing>>
    BY <1>0, <1>18 DEF Persist, InStage, CallOK
  <2>2. g.path \in Paths /\ remote[g.path].here /\ g.body = remote[g.path].ver
    BY <1>g, <2>1
  <2>3. docs'[g.path] = [etag |-> g.etag, body |-> g.body, deleted |-> FALSE]
        /\ \A q \in Paths \ {g.path} : docs'[q] = docs[q]
    BY <1>0, <2>1, <2>2 DEF Write, DataOK
  <2>4. docs'[g.path] \in DocOf
    BY <2>1, <2>3 DEF DocOf, IngestOf
  <2>5. \A q \in Paths : q = g.path => Fresh(q)'
    BY <2>1, <2>2, <2>3, <2>4 DEF Fresh, Live
  <2>6. CallsCurrent'
    BY <1>i, <1>j, <2>1
  <2>7. CASE Waiting(i)
    <3>1. phase \in InFlight /\ at \in Paths /\ g.path = at
      BY <1>w, <2>7
    <3>2. /\ phase' = "loop" /\ todo' = todo \ {at} /\ memory' = [memory EXCEPT ![at] = 0]
          /\ count' = [count EXCEPT !["processed"] = @ + 1, !["indexed"] = @ + 1]
      BY <1>18, <2>7 DEF Persist, Waiting
    <3>3. \A q \in Paths \ {at} : memory'[q] = memory[q]
      BY <1>0, <3>2 DEF DataOK
    <3>4. \A q \in Paths : Fresh(q) => Fresh(q)'
      BY <1>m, <2>1, <2>3, <2>5, <3>1, <3>3
    <3>5. ListingCurrent'
      BY <1>c, <1>n, <2>1, <3>1, <3>2 DEF ListingCurrent, InFlight
    <3>6. count'["failures"] = count["failures"]
      BY <1>0, <3>2 DEF JobOK, Counters
    <3>7. DoneIsFresh'
      BY <1>c, <2>1, <2>5, <3>1, <3>2, <3>4, <3>6 DEF DoneIsFresh
    <3> QED
      BY <1>c, <1>k, <2>1, <2>6, <3>2, <3>4, <3>5, <3>7 DEF Settled
  <2>8. CASE ~Waiting(i)
    <3>1. UNCHANGED <<phase, todo, count, memory>>
      BY <1>18, <2>1, <2>8 DEF Persist, Waiting
    <3>2. \A q \in Paths : Fresh(q) => Fresh(q)'
      BY <1>m, <2>1, <2>2, <2>3, <2>5, <3>1
    <3> QED
      BY <1>s, <2>1, <2>6, <3>1, <3>2 DEF Repairs
  <2> QED
    BY <2>7, <2>8
<1>22. CASE EndRun
  <2>1. docs' = Deleted(Gone) /\ row' = FinalStatus(count["failures"])
    <3>1. PICK bad \in SUBSET Gone :
            /\ bad # {} => ~calm
            /\ docs' = Deleted(Gone \ bad)
            /\ row' = FinalStatus(count["failures"] + Cardinality(bad))
      BY <1>22 DEF EndRun
    <3>2. bad = {}
      BY <1>c, <3>1
    <3>3. count["failures"] + Cardinality(bad) = count["failures"] /\ Gone \ bad = Gone
      BY <1>0, <3>2, FS_EmptySet DEF JobOK, Counters
    <3> QED
      BY <3>1, <3>3
  <2>2. phase = "loop" /\ phase' = "idle" /\ ingest' = Abandoned /\ UNCHANGED <<remote, calm, memory>>
    BY <1>22 DEF EndRun, AtEnd, Return
  <2>3. \A p \in Paths : listing[p] = Now(p)
    BY <1>c, <2>2 DEF ListingCurrent
  <2>4. \A i \in Slots : ingest'[i] # NoIngest =>
            ingest[i] # NoIngest /\ ingest'[i].path = ingest[i].path /\ ingest'[i].body = ingest[i].body
    BY <1>0, <2>2 DEF Abandoned, CallOK, IngestOf
  <2>5. Settled'
    BY <1>c, <1>i, <2>2, <2>4 DEF Settled, ListingCurrent, DoneIsFresh, InFlight
  <2>6. ASSUME NEW p \in Paths PROVE IF p \in Gone THEN ~Live(p)' ELSE docs'[p] = docs[p]
    <3>1. CASE p \in Gone
      <4>1. docs[p] \in DocOf
        BY <1>0, <3>1 DEF DataOK, Gone, Live
      <4>2. docs'[p] = [docs[p] EXCEPT !.deleted = TRUE]
        BY <2>1, <3>1 DEF Deleted
      <4> QED
        BY <3>1, <4>1, <4>2 DEF Live, DocOf
    <3>2. CASE p \notin Gone
      BY <2>1, <3>2 DEF Deleted
    <3> QED
      BY <3>1, <3>2
  <2>7. ASSUME NEW p \in Paths PROVE IF p \in Gone THEN Fresh(p)' ELSE Fresh(p)' = Fresh(p)
    <3>1. CASE p \in Gone
      <4>1. ~remote'[p].here
        BY <1>r, <2>2, <2>3, <3>1 DEF Gone
      <4> QED
        BY <2>6, <3>1, <4>1 DEF Fresh
    <3>2. CASE p \notin Gone
      BY <2>2, <2>6, <3>2 DEF Fresh, Live, Kind
    <3> QED
      BY <3>1, <3>2
  <2>8. ASSUME row' = "completed", NEW p \in Paths PROVE Fresh(p)'
    <3>1. count["failures"] = 0 /\ cut = "no" /\ todo = {}
      <4>1. count["failures"] = 0 /\ cut # "cap"
        BY <2>1, <2>8 DEF FinalStatus
      <4> QED
        BY <1>0, <1>22, <4>1 DEF JobOK, LoopInv, EndRun, AtEnd
    <3>2. CASE listing[p] # 0
      <4>1. Fresh(p) /\ p \notin Gone
        BY <1>c, <2>2, <3>1, <3>2 DEF DoneIsFresh, InFlight, Gone
      <4> QED
        BY <2>7, <4>1
    <3>3. CASE listing[p] = 0 /\ p \notin Gone
      <4>1. ~remote[p].here /\ ~Live(p)
        BY <1>r, <2>3, <3>1, <3>3 DEF Gone
      <4> QED
        BY <2>7, <3>3, <4>1 DEF Fresh
    <3> QED
      BY <2>7, <3>2, <3>3
  <2> QED
    BY <2>5, <2>7, <2>8 DEF Repairs
<1> QED
  BY <1>c, <1>3, <1>4, <1>5, <1>7, <1>8, <1>9, <1>10, <1>11, <1>12, <1>13, <1>15, <1>17, <1>18, <1>22
  DEF Next, Run, Document, Call, ChangeFile, CalmDown, WalkFails, FetchFails, TimesOut, Crash

(***************************************************************************)
(* Once nothing changes or fails any more and what is in flight is         *)
(* current, it stays so: no step of a job, of a call or of an abandoned    *)
(* call takes a fresh document away, and a job that ends `completed`       *)
(* leaves every document of the source fresh (runSyncJob and               *)
(* ingestDocument, over their etag, hash and rejection fast paths).        *)
(***************************************************************************)
THEOREM SettledRunsRepair == Spec => [][Repairs]_vars
<1>1. IInv /\ WaitInv /\ [Next]_vars => [Repairs]_vars
  <2>1. ASSUME IInv, WaitInv, Next PROVE Repairs
    <3>1. ~Settled => Repairs
      BY DEF Repairs
    <3> QED
      BY <2>1, <3>1, RepairStep
  <2> QED
    BY <2>1
<1> QED
  BY <1>1, WaitInvariant, PTL DEF Spec
----------------------------------------------------------------------------
(* At most so many steps, of the job or of the call it waits for, end it.   *)
Parsing == \E i \in Slots : Waiting(i) /\ InStage(i, "parsing")

Left ==
    CASE phase = "idle"   -> 0
      [] phase = "walk"   -> Cardinality(todo) + 4 * Cardinality(Paths) + 2
      [] phase = "loop"   -> 4 * Cardinality(todo) + 1
      [] phase = "fetch"  -> 4 * Cardinality(todo)
      [] phase = "ingest" -> 4 * Cardinality(todo) - (IF Parsing THEN 1 ELSE 2)

Progress == Run \/ \E i \in Slots : Waiting(i) /\ (Call(i) \/ TimesOut(i))

\* Only the next job starts the count again.
RunEnds ==
    /\ Left \in Nat
    /\ Progress /\ ~BeginRun => Left' < Left
    /\ Left' > Left => BeginRun

LEMMA LeftIsNat == ASSUME IInv PROVE Left \in Nat /\ IsFiniteSet(todo) /\ Cardinality(todo) \in Nat
<1>1. todo \subseteq Paths /\ phase \in {"idle", "walk", "loop", "fetch", "ingest"}
      /\ (phase \in {"fetch", "ingest"} => at \in todo)
  BY Parts DEF IInv, JobOK
<1>2. IsFiniteSet(todo) /\ Cardinality(todo) \in Nat /\ Cardinality(Paths) \in Nat
  BY <1>1, Bounds, FS_Subset, FS_CardinalityType
<1>3. at \in todo => Cardinality(todo) # 0
  BY <1>2, FS_EmptySet
<1> QED
  BY <1>1, <1>2, <1>3 DEF Left

LEMMA LeftNext == ASSUME IInv' PROVE Left' \in Nat
<1>1. todo' \subseteq Paths /\ phase' \in {"idle", "walk", "loop", "fetch", "ingest"}
      /\ (phase' \in {"fetch", "ingest"} => at' \in todo')
  BY PartsNext DEF IInv, JobOK
<1>2. IsFiniteSet(todo') /\ Cardinality(todo') \in Nat /\ Cardinality(Paths) \in Nat
  BY <1>1, Bounds, FS_Subset, FS_CardinalityType
<1>3. at' \in todo' => Cardinality(todo') # 0
  BY <1>2, FS_EmptySet
<1> QED
  BY <1>1, <1>2, <1>3 DEF Left

(* What the job does, and what its call does, brings the end nearer. *)
LEMMA JobStep == ASSUME IInv, WaitInv, Next, Progress PROVE BeginRun \/ Left' < Left
<1>0. JobOK /\ CallOK /\ CallInv /\ IInv'
  <2>1. IInv'
    BY TypeStep, CallStep, VersionStep, LoopStep DEF IInv
  <2> QED
    BY <2>1, Parts DEF IInv
<1>l. Left \in Nat /\ Left' \in Nat
  BY <1>0, LeftIsNat, LeftNext
<1>c. IsFiniteSet(todo) /\ Cardinality(todo) \in Nat /\ Cardinality(Paths) \in Nat
  BY LeftIsNat, Bounds, FS_CardinalityType
<1>r. \A p \in todo : Cardinality(todo \ {p}) = Cardinality(todo) - 1
  BY <1>c, FS_RemoveElement
<1>n. phase # "ingest" => \A i \in Slots : ~Waiting(i)
  BY <1>0 DEF CallInv
\* The document p is over.
<1>p. ASSUME NEW p \in todo, phase \in {"loop", "fetch", "ingest"}, phase' = "loop", todo' = todo \ {p}
      PROVE  Left' < Left
  <2>1. Left' = 4 * Cardinality(todo) - 3
    BY <1>c, <1>p, <1>r DEF Left
  <2>2. Left >= 4 * Cardinality(todo) - 2
    <3>1. CASE phase = "ingest"
      <4>1. Left = 4 * Cardinality(todo) - (IF Parsing THEN 1 ELSE 2)
        BY <3>1 DEF Left
      <4> QED
        BY <1>c, <4>1
    <3>2. CASE phase \in {"loop", "fetch"}
      BY <1>c, <3>2 DEF Left
    <3> QED
      BY <1>p, <3>1, <3>2
  <2> QED
    BY <1>c, <1>l, <2>1, <2>2
\* The job is over.
<1>q. ASSUME phase # "idle", phase' = "idle" PROVE Left' < Left
  <2>1. Left' = 0
    BY <1>q DEF Left
  <2>2. phase \in {"fetch", "ingest"} => Cardinality(todo) # 0
    BY <1>0, <1>c, FS_EmptySet DEF JobOK
  <2>3. Left > 0
    BY <1>0, <1>c, <1>q, <2>2 DEF Left, JobOK
  <2> QED
    BY <2>1, <2>3
<1>f. phase \in {"fetch", "ingest"} => at \in todo
  BY <1>0 DEF JobOK
<1>2. ASSUME NEW p \in Paths, Visit(p) PROVE Left' < Left
  <2>1. phase = "walk" /\ phase' = "walk" /\ p \in todo /\ todo' = todo \ {p}
    BY <1>2 DEF Visit
  <2>2. Left' = Left - 1
    BY <1>c, <1>r, <2>1 DEF Left
  <2> QED
    BY <1>l, <2>2
<1>3. CASE Listed
  <2>1. phase = "walk" /\ phase' = "loop" /\ todo = {} /\ todo' \subseteq Paths
    BY <1>3 DEF Listed
  <2>2. Cardinality(todo') \in Nat /\ Cardinality(todo') <= Cardinality(Paths)
    BY <2>1, Bounds, FS_Subset, FS_CardinalityType
  <2>3. Left = 4 * Cardinality(Paths) + 2
    BY <1>c, <2>1, FS_EmptySet DEF Left
  <2>4. Left' = 4 * Cardinality(todo') + 1
    BY <2>1 DEF Left
  <2> QED
    BY <1>c, <2>2, <2>3, <2>4
<1>4. CASE WalkFails \/ EndRun
  BY <1>4, <1>q DEF WalkFails, EndRun, AtEnd, Return
<1>7. ASSUME NEW p \in Paths, SkipTooLarge(p) \/ SkipUnchanged(p) \/ SkipRemembered(p)
      PROVE  Left' < Left
  <2>1. phase = "loop" /\ p \in todo /\ phase' = "loop" /\ todo' = todo \ {p}
    BY <1>7, OutcomeMoves DEF SkipTooLarge, SkipUnchanged, SkipRemembered, InLoop
  <2> QED
    BY <1>p, <2>1
<1>8. ASSUME NEW p \in Paths, Fetch(p) PROVE Left' < Left
  <2>1. Left' = Left - 1
    BY <1>8, <1>c DEF Fetch, InLoop, Left
  <2> QED
    BY <1>l, <2>1
<1>9. CASE FetchedSame \/ FetchedUnsupported \/ FetchedOversize \/ FetchRejected \/ FetchFails
  <2>1. phase = "fetch" /\ phase' = "loop" /\ todo' = todo \ {at}
    BY <1>9, OutcomeMoves
    DEF FetchedSame, FetchedUnsupported, FetchedOversize, FetchRejected, FetchFails, Fetched
  <2>2. PICK p \in todo : p = at
    BY <1>f, <2>1
  <2> QED
    BY <1>p, <2>1, <2>2
<1>12. ASSUME NEW i \in Slots, StartIngest(i) PROVE Left' < Left
  <2>1. phase = "fetch" /\ phase' = "ingest" /\ todo' = todo
    BY <1>12 DEF StartIngest, Fetched
  <2>2. Left' < Left
    BY <1>c, <2>1 DEF Left
  <2> QED
    BY <2>2
<1>15. ASSUME NEW i \in Slots, Waiting(i),
              ParseRejects(i) \/ CapRefuses(i) \/ IngestFails(i) \/ Persist(i) \/ TimesOut(i)
       PROVE  Left' < Left
  <2>1. phase = "ingest" /\ phase' = "loop" /\ todo' = todo \ {at}
    BY <1>0, <1>15, OutcomeMoves
    DEF ParseRejects, CapRefuses, IngestFails, Persist, TimesOut, ToJob, Waiting, CallInv
  <2>2. PICK p \in todo : p = at
    BY <1>f, <2>1
  <2> QED
    BY <1>p, <2>1, <2>2
<1>17. ASSUME NEW i \in Slots, Waiting(i), Embed(i) PROVE Left' < Left
  <2>1. phase = "ingest" /\ UNCHANGED <<phase, todo>> /\ InStage(i, "parsing")
    BY <1>0, <1>17 DEF Embed, CallInv
  <2>2. ingest[i] \in IngestOf /\ ingest'[i] = [ingest[i] EXCEPT !.stage = "embedding"]
        /\ \A k \in Slots \ {i} : ingest'[k] = ingest[k]
    BY <1>0, <1>17 DEF Embed, InStage, CallOK
  <2>3. ingest'[i].stage = "embedding"
    BY <2>2 DEF IngestOf
  <2>4. \A k \in Slots \ {i} : ~Waiting(k)'
    BY <1>0, <1>17, <2>2 DEF CallInv, Waiting
  <2>5. Parsing /\ ~Parsing'
    BY <1>17, <2>1, <2>3, <2>4 DEF Parsing, InStage
  <2>6. Left = 4 * Cardinality(todo) - 1 /\ Left' = 4 * Cardinality(todo) - 2
    BY <1>c, <2>1, <2>5 DEF Left
  <2> QED
    BY <1>c, <2>6
<1> QED
  BY <1>2, <1>3, <1>4, <1>7, <1>8, <1>9, <1>12, <1>15, <1>17 DEF Progress, Run, Document, Call

(* Nobody else delays it: neither files, nor abandoned calls, nor a crash. *)
LEMMA OtherStep == ASSUME IInv, Next, ~Progress PROVE Left' <= Left
<1>0. CallOK /\ CallInv /\ Left \in Nat
  BY Parts, LeftIsNat DEF IInv
<1>s. ASSUME UNCHANGED <<phase, todo>>, Parsing' <=> Parsing PROVE Left' <= Left
  <2>1. Left' = Left
    BY <1>s DEF Left
  <2> QED
    BY <1>0, <2>1
<1>1. ASSUME NEW p \in Paths, ChangeFile(p) PROVE Left' <= Left
  BY <1>1, <1>s DEF ChangeFile, Parsing, Waiting, InStage
<1>2. CASE CalmDown
  BY <1>2, <1>s DEF CalmDown, Parsing, Waiting, InStage
<1>3. CASE Crash
  <2>1. Left' = 0
    BY <1>3 DEF Crash, Return, Left
  <2> QED
    BY <1>0, <2>1
<1>4. ASSUME NEW i \in Slots, TimesOut(i) PROVE Waiting(i)
  BY <1>4 DEF TimesOut, Waiting
<1>15. ASSUME NEW i \in Slots, ~Waiting(i), Call(i) PROVE Left' <= Left
  <2>1. ingest[i] # NoIngest /\ ~ingest[i].waited
    BY <1>15 DEF Call, ParseRejects, CapRefuses, Embed, IngestFails, Persist, InStage, Waiting
  <2>2. UNCHANGED <<phase, todo>>
    BY <1>15, <2>1 DEF Call, ParseRejects, CapRefuses, Embed, IngestFails, Persist, ToJob
  <2>3. \A k \in Slots \ {i} : ingest'[k] = ingest[k]
    BY <1>0, <1>15 DEF Call, ParseRejects, CapRefuses, Embed, IngestFails, Persist, Ends, CallOK
  <2>4. ~Waiting(i)'
    <3>1. CASE Embed(i)
      BY <1>0, <2>1, <3>1 DEF Embed, Waiting, CallOK, IngestOf
    <3>2. CASE ParseRejects(i) \/ CapRefuses(i) \/ IngestFails(i) \/ Persist(i)
      BY <1>0, <3>2 DEF ParseRejects, CapRefuses, IngestFails, Persist, Ends, Waiting, CallOK
    <3> QED
      BY <1>15, <3>1, <3>2 DEF Call
  <2>5. Parsing' <=> Parsing
    BY <1>15, <2>3, <2>4 DEF Parsing, Waiting, InStage
  <2> QED
    BY <1>s, <2>2, <2>5
<1> QED
  BY <1>1, <1>2, <1>3, <1>4, <1>15 DEF Next, Progress

(***************************************************************************)
(* A job ends.  Every step it takes, and every step of the one call it     *)
(* waits for, brings its end nearer, whatever fails; no other step - a     *)
(* file that changes, the calls of jobs and documents given up before, a   *)
(* crash - delays it, and only the next job starts anew (the walk, the     *)
(* loop over the documents and the GC pass of runSyncJob).  With the       *)
(* fairness of SyncRun this is why a job releases its worker.              *)
(***************************************************************************)
THEOREM RunsEnd == Spec => [][RunEnds]_vars
<1>1. IInv /\ WaitInv /\ [Next]_vars => [RunEnds]_vars
  <2>1. ASSUME IInv, WaitInv, Next PROVE RunEnds
    <3>1. IInv'
      BY <2>1, TypeStep, CallStep, VersionStep, LoopStep DEF IInv
    <3>2. Left \in Nat /\ Left' \in Nat
      BY <2>1, <3>1, LeftIsNat, LeftNext
    <3> QED
      BY <2>1, <3>2, JobStep, OtherStep DEF RunEnds
  <2> QED
    BY <2>1
<1> QED
  BY <1>1, WaitInvariant, PTL DEF Spec
============================================================================
