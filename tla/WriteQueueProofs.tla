-------------------------- MODULE WriteQueueProofs --------------------------
(***************************************************************************)
(* The write queue implements the approval gate for any entries, databases *)
(* and numbers of handlers.  The claim guarantees that an entry has at     *)
(* most one executor call for its whole life (CallInv), also across a      *)
(* crash that leaves its statement on the wire; EffectInv counts commits   *)
(* by that call.  TargetInv follows the meaning of a name: under a waiting *)
(* entry neither map nor table stands for a database other than the one it *)
(* was queued for, until the name is repointed.                            *)
(***************************************************************************)
EXTENDS WriteQueue, TLAPS

Started == {h \in Handlers : call[h] # NoCall}

CallInv ==
    /\ \A h \in Started : status[call[h].entry] = "approved"
    /\ \A h \in Started : call[h].awaited => outcome[call[h].entry] = "none"
    /\ \A h, k \in Started : call[h].entry = call[k].entry => h = k

EffectInv ==
    /\ \A e \in Entries : Len(effects[e]) \in {0, 1}
    /\ \A e \in Entries : status[e] # "approved" => Len(effects[e]) = 0 /\ outcome[e] = "none"
    /\ \A h \in Started : call[h].landed <=> Len(effects[call[h].entry]) = 1

IInv == TypeOK /\ CallInv /\ EffectInv /\ SilentOnlyAfterCrash

TargetInv ==
    /\ \A e \in Entries \ repointed :
          status[e] = "pending" => /\ saved[target[e]] \in {proposedFor[e], NoDb}
                                   /\ conn[target[e]] \in {proposedFor[e], NoDb}
    /\ \A h \in Started : call[h].entry \notin repointed => call[h].db = proposedFor[call[h].entry]
----------------------------------------------------------------------------
(* A started call is a record, with the fields its type says. *)
LEMMA StartedFacts ==
    ASSUME TypeOK, NEW h \in Started
    PROVE  /\ call[h] \in Calls
           /\ call[h].entry \in Entries
           /\ call[h].db \in Databases
           /\ call[h].landed \in BOOLEAN
           /\ call[h].awaited \in BOOLEAN
  BY DEF TypeOK, Started, Calls

LEMMA InitIInv == Init => IInv
  <1>1. ASSUME Init PROVE TypeOK
    BY <1>1 DEF Init, TypeOK
  <1>2. ASSUME Init PROVE Started = {}
    BY <1>2 DEF Init, Started
  <1>3. ASSUME Init PROVE CallInv /\ EffectInv /\ SilentOnlyAfterCrash
    BY <1>2, <1>3 DEF Init, CallInv, EffectInv, SilentOnlyAfterCrash
  <1>4. QED
    BY <1>1, <1>3 DEF IInv

LEMMA ProposeKeeps == ASSUME IInv, NEW e \in Entries, Propose(e) PROVE IInv'
  <1>1. TypeOK'
    BY DEF Propose, IInv, TypeOK, connVars
  <1>2. Started' = Started
    BY DEF Propose, Started
  <1>3. CallInv'
    BY <1>2, StartedFacts DEF Propose, IInv, CallInv, TypeOK
  <1>4. EffectInv'
    BY <1>2, StartedFacts DEF Propose, IInv, EffectInv, TypeOK
  <1>5. SilentOnlyAfterCrash'
    BY DEF Propose, IInv, SilentOnlyAfterCrash, TypeOK
  <1>6. QED
    BY <1>1, <1>3, <1>4, <1>5 DEF IInv

LEMMA RejectKeeps == ASSUME IInv, NEW e \in Entries, Reject(e) PROVE IInv'
  <1>1. TypeOK'
    BY DEF Reject, IInv, TypeOK, connVars, historyVars
  <1>2. Started' = Started
    BY DEF Reject, Started
  <1>3. CallInv'
    BY <1>2, StartedFacts DEF Reject, IInv, CallInv, TypeOK
  <1>4. EffectInv'
    BY <1>2, StartedFacts DEF Reject, IInv, EffectInv, TypeOK, historyVars
  <1>5. SilentOnlyAfterCrash'
    BY DEF Reject, IInv, SilentOnlyAfterCrash, TypeOK, historyVars
  <1>6. QED
    BY <1>1, <1>3, <1>4, <1>5 DEF IInv

(* The claim is the only way to a call: the entry was pending, so no other *)
(* call carries it and nothing was committed for it.                       *)
LEMMA ApproveKeeps ==
    ASSUME IInv, NEW h \in Handlers, NEW e \in Entries, Approve(h, e)
    PROVE  IInv'
  <1> DEFINE new == [entry |-> e, db |-> conn[target[e]], landed |-> FALSE, awaited |-> TRUE]
  <1>d. conn[target[e]] \in Databases /\ call' = [call EXCEPT ![h] = new]
    BY DEF Approve, Resolves
  <1>0. /\ call' = [call EXCEPT ![h] = new]
        /\ status' = [status EXCEPT ![e] = "approved"]
        /\ status[e] = "pending"
        /\ call[h] = NoCall
        /\ UNCHANGED <<conn, saved, reading, target, outcome, effects, proposedFor, interrupted, repointed>>
    BY <1>d DEF Approve, Claim, connVars, historyVars
  <1>1. new \in Calls /\ new # NoCall
    <2>1. new \in Calls
      BY <1>d DEF Calls
    <2>2. QED
      BY <2>1, WriteQueueAssumption DEF Calls
  <1>2. TypeOK'
    BY <1>0, <1>1 DEF IInv, TypeOK
  <1>3. Started' = Started \union {h} /\ h \notin Started
    BY <1>0, <1>1 DEF Started, IInv, TypeOK
  <1>4. \A k \in Started : call'[k] = call[k] /\ call[k].entry # e
    BY <1>0, <1>3 DEF IInv, CallInv, TypeOK, Started
  <1>5. call'[h] = new
    BY <1>0 DEF IInv, TypeOK
  <1>6. CallInv'
    <2>1. \A k \in Started : call[k].entry \in Entries
      BY StartedFacts DEF IInv
    <2>2. outcome[e] = "none"
      BY <1>0 DEF IInv, EffectInv
    <2>3. QED
      BY <1>0, <1>3, <1>4, <1>5, <2>1, <2>2 DEF IInv, CallInv, TypeOK
  <1>7. EffectInv'
    <2>1. Len(effects[e]) = 0
      BY <1>0 DEF IInv, EffectInv
    <2>2. QED
      BY <1>0, <1>3, <1>4, <1>5, <2>1 DEF IInv, EffectInv, TypeOK
  <1>8. SilentOnlyAfterCrash'
    <2> SUFFICES ASSUME NEW x \in Entries,
                        status'[x] = "approved", outcome'[x] = "none", x \notin interrupted'
                 PROVE  \E k \in Handlers : call'[k] # NoCall /\ call'[k].awaited /\ call'[k].entry = x
      BY DEF SilentOnlyAfterCrash
    <2>1. CASE x = e
      BY <2>1, <1>1, <1>5
    <2>2. CASE x # e
      <3>1. PICK k \in Handlers : call[k] # NoCall /\ call[k].awaited /\ call[k].entry = x
        BY <2>2, <1>0 DEF IInv, SilentOnlyAfterCrash, TypeOK
      <3>2. QED
        BY <3>1, <1>4 DEF Started
    <2>3. QED
      BY <2>1, <2>2
  <1>9. QED
    BY <1>2, <1>6, <1>7, <1>8 DEF IInv

(* What a commit does to the history of its entry. *)
LEMMA LandFacts ==
    ASSUME IInv, NEW h \in Handlers, Land(h)
    PROVE  LET e == call[h].entry IN
           /\ h \in Started
           /\ e \in Entries
           /\ status[e] = "approved"
           /\ Len(effects[e]) = 0
           /\ Len(effects'[e]) = 1
           /\ effects' \in [Entries -> Seq(Databases)]
           /\ \A x \in Entries : x # e => effects'[x] = effects[x]
  <1> DEFINE e == call[h].entry
  <1>1. h \in Started /\ ~call[h].landed
    BY DEF Land, Started
  <1>2. e \in Entries /\ call[h].db \in Databases
    BY <1>1, StartedFacts DEF IInv
  <1>3. status[e] = "approved" /\ Len(effects[e]) = 0
    BY <1>1, <1>2 DEF IInv, CallInv, EffectInv
  <1>4. effects' = [effects EXCEPT ![e] = Append(effects[e], call[h].db)] /\ effects[e] \in Seq(Databases)
    BY <1>2 DEF Land, IInv, TypeOK
  <1>5. Append(effects[e], call[h].db) \in Seq(Databases) /\ Len(Append(effects[e], call[h].db)) = 1
    BY <1>2, <1>3, <1>4
  <1>6. QED
    BY <1>1, <1>2, <1>3, <1>4, <1>5 DEF IInv, TypeOK

LEMMA LandKeeps == ASSUME IInv, NEW h \in Handlers, Land(h) PROVE IInv'
  <1> DEFINE e == call[h].entry
  <1> DEFINE new == [call[h] EXCEPT !.landed = TRUE]
  <1>0. /\ call' = [call EXCEPT ![h] = new]
        /\ UNCHANGED <<conn, saved, reading, status, target, outcome, proposedFor, interrupted, repointed>>
    BY DEF Land, connVars, rowVars
  <1>1. /\ new \in Calls /\ new # NoCall
        /\ new.entry = e /\ new.landed /\ new.awaited = call[h].awaited
    BY LandFacts, StartedFacts, WriteQueueAssumption DEF IInv, Calls
  <1>2. TypeOK'
    BY <1>0, <1>1, LandFacts DEF IInv, TypeOK
  <1>3. Started' = Started /\ call'[h] = new /\ h \in Started
    BY <1>0, <1>1, LandFacts DEF Started, IInv, TypeOK
  <1>4. \A k \in Started : k # h => call'[k] = call[k] /\ call[k].entry # e /\ call[k].entry \in Entries
    BY <1>0, <1>3, StartedFacts DEF IInv, CallInv, TypeOK, Started
  <1>5. CallInv'
    BY <1>0, <1>1, <1>3, <1>4 DEF IInv, CallInv
  <1>6. EffectInv'
    <2>1. /\ Len(effects'[e]) = 1
          /\ status[e] = "approved"
          /\ \A x \in Entries : x # e => effects'[x] = effects[x]
      BY LandFacts
    <2>2. /\ \A x \in Entries : Len(effects'[x]) \in {0, 1}
          /\ \A x \in Entries : status'[x] # "approved" => Len(effects'[x]) = 0 /\ outcome'[x] = "none"
      BY <1>0, <2>1 DEF IInv, EffectInv
    <2>3. ASSUME NEW k \in Started'
          PROVE  call'[k].landed <=> Len(effects'[call'[k].entry]) = 1
      <3>1. CASE k = h
        <4>1. call'[k].landed = TRUE /\ call'[k].entry = e
          BY <1>1, <1>3, <3>1
        <4>2. QED
          BY <4>1, <2>1
      <3>2. CASE k # h
        BY <1>3, <1>4, <2>1, <3>2 DEF IInv, EffectInv
      <3>3. QED
        BY <3>1, <3>2
    <2>4. QED
      BY <2>2, <2>3 DEF EffectInv
  <1>7. SilentOnlyAfterCrash'
    BY <1>0, <1>1, <1>3, <1>4 DEF IInv, SilentOnlyAfterCrash, Started
  <1>8. QED
    BY <1>2, <1>5, <1>6, <1>7 DEF IInv

(* What recording an outcome reads and writes. *)
LEMMA SettleFacts ==
    ASSUME IInv, NEW h \in Handlers, Settle(h)
    PROVE  LET e == call[h].entry IN
           /\ h \in Started
           /\ e \in Entries
           /\ status[e] = "approved"
           /\ outcome[e] = "none"
           /\ \E o \in IF Len(effects[e]) = 1 THEN {"result", "error"} ELSE {"error"} :
                outcome' = [outcome EXCEPT ![e] = o]
           /\ call'[h] = NoCall \/ (call'[h] = [call[h] EXCEPT !.awaited = FALSE] /\ ~call[h].landed)
           /\ call' \in [Handlers -> Calls \union {NoCall}]
           /\ \A k \in Handlers : k # h => call'[k] = call[k]
           /\ UNCHANGED <<conn, saved, reading, status, target, effects, proposedFor, interrupted, repointed>>
  <1> DEFINE e == call[h].entry
  <1>1. h \in Started /\ call[h].awaited
    BY DEF Settle, Record, Started
  <1>2. e \in Entries /\ call[h] \in Calls
    BY <1>1, StartedFacts DEF IInv
  <1>3. status[e] = "approved" /\ outcome[e] = "none" /\ (call[h].landed <=> Len(effects[e]) = 1)
    BY <1>1 DEF IInv, CallInv, EffectInv
  <1>4. \E o \in IF Len(effects[e]) = 1 THEN {"result", "error"} ELSE {"error"} :
            outcome' = [outcome EXCEPT ![e] = o]
    BY <1>3 DEF Settle, Record
  <1>5. call \in [Handlers -> Calls \union {NoCall}]
    BY DEF IInv, TypeOK
  <1>6. [call[h] EXCEPT !.awaited = FALSE] \in Calls
    BY <1>2 DEF Calls
  <1>7. call' = [call EXCEPT ![h] = NoCall]
        \/ (~call[h].landed /\ call' = [call EXCEPT ![h] = [call[h] EXCEPT !.awaited = FALSE]])
    BY DEF Settle
  <1>8. QED
    BY <1>1, <1>2, <1>3, <1>4, <1>5, <1>6, <1>7 DEF Settle, connVars, historyVars

LEMMA SettleKeeps == ASSUME IInv, NEW h \in Handlers, Settle(h) PROVE IInv'
  <1> DEFINE e == call[h].entry
  <1>0. /\ e \in Entries /\ h \in Started
        /\ \A k \in Handlers : k # h => call'[k] = call[k]
        /\ \A k \in Started : k # h => call[k].entry # e /\ call[k].entry \in Entries
        /\ UNCHANGED <<conn, saved, reading, status, target, effects, proposedFor, interrupted, repointed>>
    BY SettleFacts, StartedFacts DEF IInv, CallInv
  <1>1. PICK o \in {"result", "error"} : outcome' = [outcome EXCEPT ![e] = o]
    BY SettleFacts
  <1>2. TypeOK'
    BY <1>0, <1>1, SettleFacts DEF IInv, TypeOK
  <1>3. \A k \in Started' : k \in Started /\ (k = h => call'[h] = [call[h] EXCEPT !.awaited = FALSE])
    BY <1>0, SettleFacts DEF Started
  <1>4. \A k \in Started' : /\ call'[k].entry = call[k].entry
                            /\ call'[k].landed = call[k].landed
                            /\ call'[k].awaited => call[k].awaited /\ k # h
    BY <1>0, <1>3, StartedFacts DEF IInv, Calls, Started
  <1>a. \A x \in Entries : x # e => outcome'[x] = outcome[x]
    BY <1>1 DEF IInv, TypeOK
  <1>b. \A k \in Started' : call[k].entry \in Entries
    BY <1>3, StartedFacts DEF IInv
  <1>5. CallInv'
    <2>1. \A k \in Started' : status'[call'[k].entry] = "approved"
      BY <1>0, <1>3, <1>4 DEF IInv, CallInv
    <2>2. \A k \in Started' : call'[k].awaited => outcome'[call'[k].entry] = "none"
      BY <1>0, <1>3, <1>4, <1>a DEF IInv, CallInv
    <2>3. \A k, l \in Started' : call'[k].entry = call'[l].entry => k = l
      BY <1>3, <1>4 DEF IInv, CallInv
    <2>4. QED
      BY <2>1, <2>2, <2>3 DEF CallInv
  <1>6. EffectInv'
    <2>1. status[e] = "approved"
      BY SettleFacts
    <2>2. \A x \in Entries : status'[x] # "approved" => Len(effects'[x]) = 0 /\ outcome'[x] = "none"
      BY <1>0, <1>a, <2>1 DEF IInv, EffectInv
    <2>3. \A k \in Started' : call'[k].landed <=> Len(effects'[call'[k].entry]) = 1
      BY <1>0, <1>3, <1>4 DEF IInv, EffectInv
    <2>4. QED
      BY <1>0, <2>2, <2>3 DEF IInv, EffectInv
  <1>7. SilentOnlyAfterCrash'
    <2> SUFFICES ASSUME NEW x \in Entries,
                        status'[x] = "approved", outcome'[x] = "none", x \notin interrupted'
                 PROVE  \E k \in Handlers : call'[k] # NoCall /\ call'[k].awaited /\ call'[k].entry = x
      BY DEF SilentOnlyAfterCrash
    <2>1. x # e /\ outcome[x] = "none"
      BY <1>0, <1>1 DEF IInv, TypeOK
    <2>2. PICK k \in Handlers : call[k] # NoCall /\ call[k].awaited /\ call[k].entry = x
      BY <1>0, <2>1 DEF IInv, SilentOnlyAfterCrash
    <2>3. QED
      BY <1>0, <2>1, <2>2
  <1>8. QED
    BY <1>2, <1>5, <1>6, <1>7 DEF IInv

LEMMA ForgetKeeps == ASSUME IInv, NEW h \in Handlers, Forget(h) PROVE IInv'
  <1>0. /\ call' = [call EXCEPT ![h] = NoCall]
        /\ ~call[h].awaited
        /\ UNCHANGED <<conn, saved, reading, status, target, outcome, effects, proposedFor, interrupted, repointed>>
    BY DEF Forget, connVars, rowVars, historyVars
  <1>1. TypeOK'
    BY <1>0 DEF IInv, TypeOK
  <1>2. \A k \in Started' : k \in Started /\ call'[k] = call[k]
    BY <1>0 DEF Started, IInv, TypeOK
  <1>3. CallInv' /\ EffectInv'
    BY <1>0, <1>2 DEF IInv, CallInv, EffectInv
  <1>4. SilentOnlyAfterCrash'
    BY <1>0 DEF IInv, SilentOnlyAfterCrash, TypeOK
  <1>5. QED
    BY <1>1, <1>3, <1>4 DEF IInv

LEMMA ConnectionsKeep ==
    ASSUME IInv, conn' \in [Names -> Databases \union {NoDb}],
           saved' \in [Names -> Databases \union {NoDb}],
           reading' \subseteq Names \X Databases, repointed' \subseteq Entries,
           UNCHANGED <<rowVars, call, effects, proposedFor, interrupted>>
    PROVE  IInv'
  <1>1. TypeOK'
    BY DEF IInv, TypeOK, rowVars
  <1>2. Started' = Started
    BY DEF Started
  <1>3. CallInv' /\ EffectInv' /\ SilentOnlyAfterCrash'
    BY <1>2 DEF IInv, CallInv, EffectInv, SilentOnlyAfterCrash, rowVars
  <1>4. QED
    BY <1>1, <1>3 DEF IInv

LEMMA CrashKeeps == ASSUME IInv, Crash PROVE IInv'
  <1> DEFINE cut == {h \in Started : call[h].awaited}
  <1>0. UNCHANGED <<saved, status, target, outcome, effects, proposedFor, repointed>>
    BY DEF Crash, rowVars
  <1>1. interrupted' = interrupted \union {call[h].entry : h \in cut}
    BY DEF Crash, Started
  <1>2. \A h \in Started : [call[h] EXCEPT !.awaited = FALSE] \in Calls
    BY StartedFacts DEF IInv, Calls
  <1>3. \A h \in Handlers : /\ h \notin Started => call'[h] = NoCall
                            /\ h \in Started => call'[h] = [call[h] EXCEPT !.awaited = FALSE]
    BY DEF Crash, Started
  <1>4. call' \in [Handlers -> Calls \union {NoCall}]
    BY <1>2, <1>3 DEF Crash, Started
  <1>5. interrupted' \subseteq Entries
    BY <1>1, StartedFacts DEF IInv, TypeOK
  <1>6. TypeOK'
    BY <1>0, <1>4, <1>5 DEF Crash, IInv, TypeOK
  <1>7. \A h \in Started' : /\ h \in Started
                            /\ call'[h].entry = call[h].entry
                            /\ call'[h].landed = call[h].landed
                            /\ ~call'[h].awaited
    BY <1>3, StartedFacts DEF Started, IInv, Calls
  <1>8. CallInv' /\ EffectInv'
    BY <1>0, <1>7 DEF IInv, CallInv, EffectInv
  <1>9. SilentOnlyAfterCrash'
    BY <1>0, <1>1 DEF IInv, SilentOnlyAfterCrash, Started
  <1>10. QED
    BY <1>6, <1>8, <1>9 DEF IInv

LEMMA StepIInv == IInv /\ [Next]_vars => IInv'
  <1> SUFFICES ASSUME IInv, [Next]_vars PROVE IInv'
    OBVIOUS
  <1>t. conn \in [Names -> Databases \union {NoDb}] /\ saved \in [Names -> Databases \union {NoDb}]
    BY DEF IInv, TypeOK
  <1>1. CASE \E e \in Entries : Propose(e) \/ Reject(e) \/ \E h \in Handlers : Approve(h, e)
    BY <1>1, ProposeKeeps, RejectKeeps, ApproveKeeps
  <1>2. CASE \E h \in Handlers : Land(h) \/ Settle(h) \/ Forget(h)
    BY <1>2, LandKeeps, SettleKeeps, ForgetKeeps
  <1>r. reading \subseteq Names \X Databases /\ repointed \subseteq Entries
    BY DEF IInv, TypeOK
  <1>3. CASE \E n \in Names :
               Disconnect(n) \/ \E d \in Databases : Connect(n, d) \/ ConnectUnsaved(n, d)
    <2>1. PICK n \in Names :
               Disconnect(n) \/ \E d \in Databases : Connect(n, d) \/ ConnectUnsaved(n, d)
      BY <1>3
    <2>2. PICK first \in Names, d \in Databases \union {NoDb} :
            /\ conn' = [conn EXCEPT ![first] = d, ![n] = d]
            /\ saved' = [saved EXCEPT ![n] = d] \/ saved' = saved
            /\ reading' = reading /\ repointed' \subseteq Entries
            /\ UNCHANGED <<rowVars, call, effects, proposedFor, interrupted>>
      <3>1. CASE Disconnect(n)
        <4>1. conn' = [conn EXCEPT ![n] = NoDb, ![n] = NoDb]
          BY <1>t, <3>1 DEF Disconnect
        <4>2. QED
          BY <1>r, <3>1, <4>1 DEF Disconnect, historyVars
      <3>2. ASSUME NEW d \in Databases, Connect(n, d)
            PROVE  /\ conn' = [conn EXCEPT ![n] = d, ![n] = d]
                   /\ saved' = [saved EXCEPT ![n] = d]
                   /\ reading' = reading /\ repointed' \subseteq Entries
                   /\ UNCHANGED <<rowVars, call, effects, proposedFor, interrupted>>
        BY <1>t, <1>r, <3>2 DEF Connect, Redirected
      <3>3. ASSUME NEW d \in Databases, ConnectUnsaved(n, d)
            PROVE  \E first \in Names :
                     /\ conn' = [conn EXCEPT ![first] = d, ![n] = d]
                     /\ saved' = saved
                     /\ reading' = reading /\ repointed' \subseteq Entries
                     /\ UNCHANGED <<rowVars, call, effects, proposedFor, interrupted>>
        BY <1>r, <3>3 DEF ConnectUnsaved, Redirected
      <3>4. QED
        BY <2>1, <3>1, <3>2, <3>3
    <2>3. QED
      BY <1>t, <1>r, <2>2, ConnectionsKeep
  <1>4. CASE StartLoad \/ \E n \in Names, d \in Databases : LoadName(n, d)
    <2>1. CASE StartLoad
      <3>1. reading' \subseteq Names \X Databases
        BY <1>t, <1>r, <2>1 DEF StartLoad
      <3>2. QED
        BY <1>t, <1>r, <2>1, <3>1, ConnectionsKeep DEF StartLoad, historyVars
    <2>2. ASSUME NEW n \in Names, NEW d \in Databases, LoadName(n, d) PROVE IInv'
      <3>1. /\ conn' \in [Names -> Databases \union {NoDb}]
            /\ reading' \subseteq Names \X Databases
            /\ repointed' \subseteq Entries
        BY <1>t, <1>r, <2>2 DEF LoadName, Redirected
      <3>2. QED
        BY <1>t, <2>2, <3>1, ConnectionsKeep DEF LoadName
    <2>3. QED
      BY <1>4, <2>1, <2>2
  <1>5. CASE Crash
    BY <1>5, CrashKeeps
  <1>6. CASE UNCHANGED vars
    BY <1>6, <1>t, <1>r, ConnectionsKeep DEF vars, connVars, historyVars
  <1>7. QED
    BY <1>1, <1>2, <1>3, <1>4, <1>5, <1>6 DEF Next

(***************************************************************************)
(* What happens to a name while an entry waits is either a reload of what  *)
(* the table says, a removal, or counted as repointing it.                 *)
(***************************************************************************)
LEMMA InitTargetInv == Init => TargetInv
  BY DEF Init, TargetInv, Started

LEMMA StepTargetInv == IInv /\ TargetInv /\ [Next]_vars => TargetInv'
  <1> SUFFICES ASSUME IInv, TargetInv, [Next]_vars PROVE TargetInv'
    OBVIOUS
  <1>t. TypeOK
    BY DEF IInv
  <1>k. ASSUME UNCHANGED <<conn, saved, target, proposedFor, repointed>>,
               \A e \in Entries : status'[e] = "pending" => status[e] = "pending",
               \A h \in Started' : h \in Started /\ call'[h].entry = call[h].entry /\ call'[h].db = call[h].db
        PROVE  TargetInv'
    BY <1>k DEF TargetInv
  <1>1. ASSUME NEW e \in Entries, Propose(e) PROVE TargetInv'
    <2>1. /\ UNCHANGED <<conn, saved, target, call>>
          /\ repointed \subseteq repointed'
          /\ conn[target[e]] # saved[target[e]] => e \in repointed'
      BY <1>1 DEF Propose, connVars
    <2>2. /\ status' = [status EXCEPT ![e] = "pending"]
          /\ proposedFor' = [proposedFor EXCEPT ![e] = conn[target[e]]]
          /\ status[e] = "none" /\ conn[target[e]] # NoDb /\ target[e] \in Names
      BY <1>1, <1>t DEF Propose, TypeOK
    <2>3. \A h \in Started : call[h].entry \in Entries /\ call[h].entry # e
      BY <2>2, StartedFacts DEF IInv, CallInv
    <2>4. \A x \in Entries \ repointed' :
              status'[x] = "pending" => /\ saved[target[x]] \in {proposedFor'[x], NoDb}
                                        /\ conn[target[x]] \in {proposedFor'[x], NoDb}
      BY <1>t, <2>1, <2>2 DEF TargetInv, TypeOK
    <2>5. \A h \in Started : call[h].entry \notin repointed' => call[h].db = proposedFor'[call[h].entry]
      BY <1>t, <2>1, <2>2, <2>3 DEF TargetInv, TypeOK
    <2>6. QED
      BY <2>1, <2>4, <2>5 DEF TargetInv, Started
  <1>2. ASSUME NEW e \in Entries, Reject(e) PROVE TargetInv'
    BY <1>2, <1>k, <1>t DEF Reject, connVars, historyVars, TypeOK, Started
  <1>3. ASSUME NEW e \in Entries, NEW h \in Handlers, Approve(h, e) PROVE TargetInv'
    <2> DEFINE new == [entry |-> e, db |-> conn[target[e]], landed |-> FALSE, awaited |-> TRUE]
    <2>1. /\ call' = [call EXCEPT ![h] = new]
          /\ status' = [status EXCEPT ![e] = "approved"]
          /\ status[e] = "pending" /\ conn[target[e]] # NoDb /\ target[e] \in Names
          /\ UNCHANGED <<conn, saved, reading, target, proposedFor, repointed>>
      BY <1>3, <1>t DEF Approve, Resolves, Claim, connVars, historyVars, TypeOK
    <2>2. e \notin repointed => conn[target[e]] = proposedFor[e]
      BY <2>1 DEF TargetInv
    <2>3. \A k \in Handlers : call'[k] = IF k = h THEN new ELSE call[k]
      BY <2>1, <1>t DEF TypeOK
    <2>4. new.entry = e /\ new.db = conn[target[e]]
      OBVIOUS
    <2>5. \A k \in Started' :
              call'[k].entry \notin repointed => call'[k].db = proposedFor[call'[k].entry]
      BY <2>2, <2>3, <2>4 DEF TargetInv, Started
    <2>6. \A x \in Entries : status'[x] = "pending" => status[x] = "pending"
      BY <2>1, <1>t DEF TypeOK
    <2>7. QED
      BY <2>1, <2>5, <2>6 DEF TargetInv
  <1>4. ASSUME NEW h \in Handlers, Land(h) \/ Settle(h) \/ Forget(h) PROVE TargetInv'
    <2>1. UNCHANGED <<conn, saved, reading, status, target, proposedFor, repointed>> /\ h \in Started
      BY <1>4 DEF Land, Settle, Record, Forget, connVars, rowVars, historyVars, Started
    <2>2. /\ \A k \in Handlers : k # h => call'[k] = call[k]
          /\ \/ call'[h] = NoCall
             \/ call'[h] = [call[h] EXCEPT !.landed = TRUE]
             \/ call'[h] = [call[h] EXCEPT !.awaited = FALSE]
      BY <1>4, <1>t DEF Land, Settle, Forget, TypeOK
    <2>3. call[h] \in Calls
      BY <2>1, <1>t, StartedFacts
    <2>4. \A k \in Started' : k \in Started /\ call'[k].entry = call[k].entry /\ call'[k].db = call[k].db
      BY <2>1, <2>2, <2>3 DEF Started, Calls
    <2>5. QED
      BY <1>k, <2>1, <2>4
  <1>5. ASSUME NEW n \in Names, NEW d \in Databases, Connect(n, d) \/ ConnectUnsaved(n, d)
        PROVE  TargetInv'
    <2>1. PICK first \in Names :
            /\ \A m \in Names : conn'[m] = IF m \in {first, n} THEN d ELSE conn[m]
            /\ \A m \in Names : saved'[m] = saved[m] \/ (m = n /\ saved'[m] = d)
            /\ repointed' = repointed \union Redirected(first, d) \union Redirected(n, d)
      BY <1>5, <1>t DEF Connect, ConnectUnsaved, TypeOK
    <2>2. UNCHANGED <<status, target, call, proposedFor>>
      BY <1>5 DEF Connect, ConnectUnsaved, rowVars
    <2>3. \A e \in Entries \ repointed' :
              status[e] = "pending" /\ target[e] \in {first, n} => d = proposedFor[e]
      BY <2>1 DEF Redirected
    <2>4. QED
      BY <1>t, <2>1, <2>2, <2>3, StartedFacts DEF TargetInv, TypeOK, Started
  <1>6. ASSUME NEW n \in Names, Disconnect(n) PROVE TargetInv'
    <2>1. /\ conn' = [conn EXCEPT ![n] = NoDb] /\ saved' = [saved EXCEPT ![n] = NoDb]
          /\ UNCHANGED <<status, target, call, proposedFor, repointed>>
      BY <1>6 DEF Disconnect, rowVars, historyVars
    <2>2. QED
      BY <1>t, <2>1 DEF TargetInv, TypeOK, Started
  <1>7. CASE StartLoad
    BY <1>7, <1>k DEF StartLoad, rowVars, historyVars, Started
  <1>8. ASSUME NEW n \in Names, NEW d \in Databases, LoadName(n, d) PROVE TargetInv'
    <2>1. UNCHANGED <<saved, status, target, call, proposedFor>>
      BY <1>8 DEF LoadName, rowVars
    <2>2. CASE UNCHANGED <<conn, repointed>>
      BY <2>1, <2>2, <1>k DEF Started
    <2>3. CASE /\ conn' = [conn EXCEPT ![n] = d]
               /\ repointed' = IF d = saved[n] THEN repointed ELSE repointed \union Redirected(n, d)
      <3>1. /\ \A m \in Names : conn'[m] = IF m = n THEN d ELSE conn[m]
            /\ repointed \subseteq repointed'
            /\ \A e \in Entries \ repointed' :
                  status[e] = "pending" /\ target[e] = n => d \in {saved[n], proposedFor[e]}
        BY <1>t, <2>3 DEF TypeOK, Redirected
      <3>2. QED
        BY <1>t, <2>1, <3>1, StartedFacts DEF TargetInv, TypeOK, Started
    <2>4. QED
      BY <1>8, <2>2, <2>3 DEF LoadName
  <1>9. CASE Crash
    <2>1. /\ \A n \in Names : conn'[n] = NoDb
          /\ UNCHANGED <<saved, status, target, proposedFor, repointed>>
      BY <1>9 DEF Crash, rowVars
    <2>2. \A k \in Started' : k \in Started /\ call'[k] = [call[k] EXCEPT !.awaited = FALSE]
      BY <1>9 DEF Crash, Started
    <2>3. \A k \in Started' : call'[k].entry = call[k].entry /\ call'[k].db = call[k].db
      BY <2>2, <1>t, StartedFacts DEF Calls
    <2>4. \A e \in Entries : target[e] \in Names
      BY <1>t DEF TypeOK
    <2>5. QED
      BY <2>1, <2>2, <2>3, <2>4 DEF TargetInv
  <1>10. CASE UNCHANGED vars
    BY <1>10, <1>k DEF vars, connVars, rowVars, historyVars, Started
  <1>11. QED
    BY <1>1, <1>2, <1>3, <1>4, <1>5, <1>6, <1>7, <1>8, <1>9, <1>10 DEF Next

(* A commit is of the database its call resolved, so nothing else strays. *)
LEMMA StepStray ==
    IInv /\ TargetInv /\ OnlyRepointedStray /\ [Next]_vars => OnlyRepointedStray'
  <1> SUFFICES ASSUME IInv, TargetInv, OnlyRepointedStray, [Next]_vars PROVE OnlyRepointedStray'
    OBVIOUS
  <1>t. TypeOK
    BY DEF IInv
  <1>1. ASSUME NEW h \in Handlers, Land(h) PROVE OnlyRepointedStray'
    <2> DEFINE e == call[h].entry
    <2>1. UNCHANGED <<proposedFor, repointed>>
      BY <1>1 DEF Land
    <2>2. /\ h \in Started /\ e \in Entries
          /\ Len(effects[e]) = 0
          /\ \A x \in Entries : x # e => effects'[x] = effects[x]
      BY <1>1, LandFacts
    <2>3. effects'[e] = Append(effects[e], call[h].db) /\ effects[e] \in Seq(Databases)
      BY <1>1, <1>t, <2>2 DEF Land, TypeOK
    <2>4. \A i \in DOMAIN effects'[e] : effects'[e][i] = call[h].db
      BY <2>2, <2>3, <1>t, StartedFacts
    <2>5. QED
      BY <2>1, <2>2, <2>4 DEF TargetInv, OnlyRepointedStray
  <1>2. ASSUME NEW e \in Entries, Propose(e) PROVE OnlyRepointedStray'
    <2>1. effects[e] \in Seq(Databases) /\ Len(effects[e]) = 0
      BY <1>2, <1>t DEF Propose, IInv, EffectInv, TypeOK
    <2>2. DOMAIN effects[e] = {}
      BY <2>1
    <2>3. /\ UNCHANGED effects
          /\ repointed \subseteq repointed'
          /\ \A x \in Entries : x # e => proposedFor'[x] = proposedFor[x]
      BY <1>2, <1>t DEF Propose, TypeOK
    <2>4. QED
      BY <2>2, <2>3 DEF OnlyRepointedStray
  <1>3. ASSUME ~\E h \in Handlers : Land(h), ~\E e \in Entries : Propose(e)
        PROVE  UNCHANGED <<effects, proposedFor>> /\ repointed \subseteq repointed'
    BY <1>3
    DEF Next, Reject, Approve, Settle, Forget, Disconnect, Connect, ConnectUnsaved, StartLoad,
        LoadName, Crash, vars, rowVars, historyVars
  <1>4. QED
    BY <1>1, <1>2, <1>3 DEF OnlyRepointedStray
----------------------------------------------------------------------------
(* Every variable keeps its type. *)
THEOREM TypeCorrect == Spec => []TypeOK
  <1>1. IInv => TypeOK
    BY DEF IInv
  <1>2. QED
    BY <1>1, InitIInv, StepIInv, PTL DEF Spec

(* An entry is silent only while it executes or after a crash. *)
THEOREM SilenceExplained == Spec => []SilentOnlyAfterCrash
  <1>1. IInv => SilentOnlyAfterCrash
    BY DEF IInv
  <1>2. QED
    BY <1>1, InitIInv, StepIInv, PTL DEF Spec

(***************************************************************************)
(* A write only ever strays from the database it was queued for when its   *)
(* connection name was given to another one in between.                    *)
(***************************************************************************)
THEOREM WritesReachTheirTarget == Spec => []OnlyRepointedStray
  <1>1. Init => OnlyRepointedStray
    BY DEF Init, OnlyRepointedStray
  <1>2. QED
    BY <1>1, InitIInv, StepIInv, InitTargetInv, StepTargetInv, StepStray, PTL DEF Spec

(* The queue implements the gate: decided once, executed at most once and  *)
(* only when approved, success reported only for a commit.                 *)
THEOREM QueueImplementsGate == Spec => ImplementsGate
  <1> DEFINE Times == [e \in Entries |-> Len(effects[e])]
  <1>1. Init => Gate!Init
    BY DEF Init, Gate!Init
  <1>2. IInv /\ [Next]_vars => [Gate!Next]_<<status, Times, outcome>>
    <2> SUFFICES ASSUME IInv, [Next]_vars
                 PROVE  Gate!Next \/ UNCHANGED <<status, Times, outcome>>
      OBVIOUS
    <2>1. ASSUME NEW e \in Entries, Propose(e) PROVE Gate!Propose(e)
      BY <2>1 DEF Propose, Gate!Propose
    <2>2. ASSUME NEW e \in Entries, Reject(e) PROVE Gate!Decide(e)
      BY <2>2 DEF Reject, Gate!Decide, historyVars
    <2>3. ASSUME NEW e \in Entries, NEW h \in Handlers, Approve(h, e) PROVE Gate!Decide(e)
      BY <2>3 DEF Approve, Claim, Gate!Decide, historyVars
    <2>4. ASSUME NEW h \in Handlers, NEW e \in Entries, e = call[h].entry, Land(h)
          PROVE  Gate!TakeEffect(e)
      <3>1. Times' = [Times EXCEPT ![e] = 1]
        BY <2>4, LandFacts
      <3>2. QED
        BY <2>4, <3>1, LandFacts DEF Land, rowVars, Gate!TakeEffect
    <2>5. ASSUME NEW h \in Handlers, NEW e \in Entries, e = call[h].entry, Settle(h)
          PROVE  Gate!Report(e)
      BY <2>5, SettleFacts DEF Gate!Report
    <2>6. ASSUME NEW h \in Handlers, Land(h) \/ Settle(h) PROVE Gate!Next
      <3>1. call[h].entry \in Entries
        BY <2>6, LandFacts, SettleFacts
      <3>2. QED
        BY <2>4, <2>5, <2>6, <3>1 DEF Gate!Next
    <2>7. ASSUME \/ \E h \in Handlers : Forget(h)
                 \/ \E n \in Names : Disconnect(n)
                 \/ \E n \in Names, d \in Databases :
                      Connect(n, d) \/ ConnectUnsaved(n, d) \/ LoadName(n, d)
                 \/ StartLoad
                 \/ Crash
                 \/ UNCHANGED vars
          PROVE  UNCHANGED <<status, Times, outcome>>
      BY <2>7
      DEF Forget, Disconnect, Connect, ConnectUnsaved, LoadName, StartLoad, Crash, vars, rowVars,
          historyVars
    <2>8. QED
      BY <2>1, <2>2, <2>3, <2>6, <2>7 DEF Next, Gate!Next
  <1>3. QED
    BY <1>1, <1>2, InitIInv, StepIInv, PTL DEF Spec, ImplementsGate, Gate!Spec, Gate!gateVars
============================================================================
