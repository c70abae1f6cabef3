-------------------------- MODULE NoteWriterProofs --------------------------
(* What holds of the write tools for any number of calls, editors, retries and
   notes of any length. *)
EXTENDS NoteWriter, FiniteSetTheorems, TLAPS

AllTexts == Calls \union Outside
CallState == [at: Stages, base: Seq(AllTexts), first: Nat, own: Nat, displaced: Nat, tries: Nat,
              late: SUBSET Outside, kept: BOOLEAN, answer: Answers]

Writes1(c, r) ==
    /\ r \in CallState
    /\ call' = [call EXCEPT ![c] = r]

Unlock(c) == locks' = IF HoldsLock(c) THEN Tail(locks) ELSE locks

(* A record that differs from q in its stage, up to the publication. *)
Keeps(r, q) == /\ r.base = q.base /\ r.late = q.late /\ r.kept = q.kept
               /\ r.answer = q.answer

(* The steps of one call, by what they do to its record, the lock and the
   note; q is the record before, r the one after. *)
Reads(c, q, r) ==
    /\ q.at = "idle" /\ r.at = "draft"
    /\ r.base = file.text /\ r.late = q.late /\ r.answer = q.answer
    /\ UNCHANGED <<file, inodes, locks>>

Queues(c, q, r) ==
    /\ q.at = "idle" /\ r.at = "queued" /\ Keeps(r, q)
    /\ UNCHANGED <<file, inodes, locks>>

Waits(c, q, r) ==
    /\ r.at = "waiting"
    /\ \/ q.at = "draft" /\ Keeps(r, q)
       \/ q.at = "queued" /\ r.base = file.text /\ r.late = {} /\ r.answer = "none"
    /\ locks' = Append(locks, c)
    /\ UNCHANGED <<file, inodes>>

Enters(c, q, r) ==
    /\ q.at = "waiting" /\ HoldsLock(c) /\ Keeps(r, q)
    /\ file.text = q.base /\ r.first = file.ino
    /\ \/ q.base = <<>> /\ r.at = "publishing"
       \/ q.base # <<>> /\ r.at \in {"comparing", "staged"}
    /\ UNCHANGED <<file, inodes, locks>>

Compares(c, q, r) ==
    /\ q.at = "comparing" /\ r.at = "staged" /\ Keeps(r, q)
    /\ file.text = q.base /\ r.first = file.ino
    /\ UNCHANGED <<file, inodes, locks>>

Rechecks(c, q, r) ==
    /\ q.at = "staged" /\ r.at = "publishing" /\ Keeps(r, q) /\ r.first = q.first
    /\ file.text = q.base /\ file.ino = q.first
    /\ UNCHANGED <<file, inodes, locks>>

Publishes(c, q, r) ==
    /\ q.at = "publishing" /\ r.late = q.late /\ r.kept = q.kept
    /\ file' = [ino |-> inodes + 1, text |-> Append(q.base, c)] /\ inodes' = inodes + 1
    /\ q.base = <<>> => ~Exists
    /\ \/ /\ mode # "path" /\ r.at = "published" /\ Keeps(r, q) /\ r.first = q.first
          /\ mode = "helper" /\ q.base # <<>> => Exists /\ r.displaced = file.ino
          /\ locks' = locks
       \/ mode = "path" /\ r.at = "done" /\ r.answer = "saved" /\ r.base = <<>> /\ Unlock(c)

Doubts(c, q, r) ==
    /\ q.at = "published" /\ r.at = "confirming" /\ Keeps(r, q)
    /\ q.base # <<>> /\ q.displaced = 0
    /\ UNCHANGED <<file, inodes, locks>>

Unpublished == {"idle", "draft", "queued", "waiting", "comparing", "staged", "publishing"}

Settles(c, q, r) ==
    /\ q.at \notin {"idle", "done"} /\ r.late = q.late /\ r.kept = q.kept /\ Unlock(c)
    /\ q.at = "waiting" => HoldsLock(c)
    /\ UNCHANGED <<file, inodes>>
    /\ \/ r.at = "queued" /\ q.at \in Unpublished /\ Keeps(r, q)
       \/ /\ r.at = "done" /\ r.base = <<>> /\ r.answer \in Answers \ {"none"}
          /\ q.at \in Unpublished => r.answer # "saved"
          /\ q.at \notin Unpublished => r.answer \notin Refusals
          /\ r.answer = "saved" /\ q.at = "published" =>
               q.displaced = q.first /\ (q.base = <<>> \/ q.displaced # 0)

Shape(c, q, r) ==
    \/ Reads(c, q, r) \/ Queues(c, q, r) \/ Waits(c, q, r) \/ Enters(c, q, r)
    \/ Compares(c, q, r) \/ Rechecks(c, q, r) \/ Publishes(c, q, r) \/ Doubts(c, q, r)
    \/ Settles(c, q, r)

CallStep(c) ==
    \/ c \in Writes /\ (ReadNote(c) \/ CallWrite(c))
    \/ c \in Appends /\ CallAppend(c)
    \/ Serve(c)
----------------------------------------------------------------------------
LEMMA NewCallState == NewCall \in CallState /\ NewCall.answer = "none" /\ NewCall.late = {}
                      /\ NewCall.at = "idle" /\ NewCall.base = <<>>
  BY DEF NewCall, CallState, Stages, Answers, Refusals

LEMMA MoveWrites ==
    ASSUME TypeOK, NEW c \in Calls, NEW stage \in Stages, Move(c, stage)
    PROVE  \E r : /\ Writes1(c, r) /\ r.at = stage /\ Keeps(r, call[c])
                  /\ r.first = call[c].first /\ r.displaced = call[c].displaced
  <1>1. PICK q : q = call[c] /\ q \in CallState
    BY DEF TypeOK, CallState, AllTexts
  <1> DEFINE r == [q EXCEPT !.at = stage]
  <1>2. /\ r \in CallState /\ r.at = stage /\ r.base = q.base /\ r.late = q.late
        /\ r.kept = q.kept
        /\ r.answer = q.answer /\ r.first = q.first /\ r.displaced = q.displaced
    BY <1>1 DEF CallState
  <1>3. call' = [call EXCEPT ![c] = r]
    BY <1>1 DEF Move
  <1> HIDE DEF r
  <1> QED
    BY <1>1, <1>2, <1>3 DEF Writes1, Keeps

LEMMA FinalAnswer ==
    ASSUME NEW c \in Calls, NEW answer \in Answers
    PROVE  /\ Final(c, answer) \in Answers
           /\ \/ Final(c, answer) = answer
              \/ Final(c, answer) = "version_conflict" /\ Retryable(answer)
  BY DEF Final, Retryable, Answers, Refusals

LEMMA SettleWrites ==
    ASSUME TypeOK, NEW c \in Calls, NEW answer \in Answers, Settle(c, answer)
    PROVE  /\ \E r : /\ Writes1(c, r) /\ r.late = call[c].late /\ r.kept = call[c].kept
                     /\ \/ r.at = "queued" /\ Retryable(answer) /\ Keeps(r, call[c])
                        \/ r.at = "done" /\ r.answer = Final(c, answer) /\ r.base = <<>>
           /\ Unlock(c)
           /\ locks' \in Seq(Calls) /\ appendQueue' \in Seq(Appends)
  <1>1. PICK q : q = call[c] /\ q \in CallState
    BY DEF TypeOK, CallState, AllTexts
  <1>2. /\ Unlock(c)
        /\ locks' \in Seq(Calls) /\ appendQueue' \in Seq(Appends)
    <2>1. /\ locks \in Seq(Calls) /\ appendQueue \in Seq(Appends)
          /\ locks' = IF HoldsLock(c) THEN Tail(locks) ELSE locks
          /\ appendQueue' = appendQueue \/ (Serving(c) /\ appendQueue' = Tail(appendQueue))
      BY DEF Settle, TypeOK
    <2>2. (HoldsLock(c) => Tail(locks) \in Seq(Calls)) /\ (Serving(c) => Tail(appendQueue) \in Seq(Appends))
      BY <2>1 DEF HoldsLock, Serving
    <2> QED
      BY <2>1, <2>2 DEF Unlock
  <1>3. CASE c \in Appends /\ Retryable(answer) /\ call[c].tries < MaxAttempts
    <2>1. Move(c, "queued")
      BY <1>3 DEF Settle
    <2>2. "queued" \in Stages
      BY DEF Stages
    <2>3. PICK r : Writes1(c, r) /\ r.at = "queued" /\ Keeps(r, call[c])
      BY <2>1, <2>2, MoveWrites
    <2> QED
      BY <1>2, <1>3, <2>3 DEF Keeps
  <1>4. CASE ~(c \in Appends /\ Retryable(answer) /\ call[c].tries < MaxAttempts)
    <2>1. PICK n : n = NewCall /\ n \in CallState /\ n.base = <<>>
      BY NewCallState
    <2> DEFINE r == [n EXCEPT !.at = "done", !.late = q.late, !.kept = q.kept,
                          !.answer = Final(c, answer)]
    <2>2. /\ r \in CallState /\ r.at = "done" /\ r.answer = Final(c, answer) /\ r.late = q.late
          /\ r.kept = q.kept /\ r.base = <<>>
      BY <1>1, <2>1, FinalAnswer DEF CallState, Stages
    <2>3. call' = [call EXCEPT ![c] = r]
      BY <1>1, <1>4, <2>1 DEF Settle
    <2> HIDE DEF r
    <2> QED
      BY <1>1, <1>2, <2>2, <2>3 DEF Writes1
  <1> QED
    BY <1>3, <1>4
----------------------------------------------------------------------------
Stepped(c) ==
    /\ \E r : Writes1(c, r) /\ Shape(c, call[c], r)
    /\ locks' \in Seq(Calls) /\ appendQueue' \in Seq(Appends)
    /\ file' \in [ino: Nat, text: Seq(AllTexts)] /\ inodes' \in Nat
    /\ UNCHANGED <<mode, saved, erased>>

(* A step that leaves the note alone: the record it writes and the shape are
   what is left to show. *)
LEMMA QuietStep ==
    ASSUME TypeOK, NEW c \in Calls, NEW r, Writes1(c, r), Shape(c, call[c], r),
           UNCHANGED <<mode, file, inodes, saved, erased>>,
           locks' \in Seq(Calls), appendQueue' \in Seq(Appends)
    PROVE  Stepped(c)
  BY DEF Stepped, TypeOK, AllTexts

(* An attempt that ends before the publication, or after it. *)
LEMMA RefusedStep ==
    ASSUME TypeOK, NEW c \in Calls, NEW answer \in Answers, Settle(c, answer),
           UNCHANGED <<mode, file, inodes, saved, erased>>,
           call[c].at \notin {"idle", "done"}, answer # "none",
           call[c].at = "waiting" => HoldsLock(c),
           call[c].at \in Unpublished => answer # "saved",
           call[c].at \notin Unpublished => answer \notin Refusals,
           answer = "saved" /\ call[c].at = "published" =>
             call[c].displaced = call[c].first /\ (call[c].base = <<>> \/ call[c].displaced # 0)
    PROVE  Stepped(c)
  <1>1. /\ Unlock(c) /\ locks' \in Seq(Calls) /\ appendQueue' \in Seq(Appends)
    BY SettleWrites
  <1>2. PICK r : /\ Writes1(c, r) /\ r.late = call[c].late /\ r.kept = call[c].kept
                 /\ \/ r.at = "queued" /\ Retryable(answer) /\ Keeps(r, call[c])
                    \/ r.at = "done" /\ r.answer = Final(c, answer) /\ r.base = <<>>
    BY SettleWrites
  <1>3. Retryable(answer) => answer \in Refusals
    BY DEF Retryable, Refusals
  <1>4. /\ Final(c, answer) \in Answers \ {"none"}
        /\ Final(c, answer) # answer => Final(c, answer) \in Refusals /\ Final(c, answer) # "saved"
        /\ Final(c, answer) \in Refusals => answer \in Refusals
    BY <1>3, FinalAnswer DEF Refusals
  <1>5. Settles(c, call[c], r)
    BY <1>1, <1>2, <1>3, <1>4 DEF Settles
  <1> QED
    BY <1>1, <1>2, <1>5, QuietStep DEF Shape

LEMMA AnswersAre ==
    /\ Refusals \subseteq Answers /\ "none" \notin Refusals /\ "saved" \notin Refusals
    /\ {"already_exists", "not_found", "version_conflict", "too_large",
         "unsupported_filesystem"} \subseteq Refusals
    /\ {"saved", "io_error", "published_unverified"} \subseteq Answers
    /\ "io_error" \notin Refusals /\ "published_unverified" \notin Refusals
    /\ \A c : Final(c, "saved") = "saved"
  BY DEF Refusals, Answers, Final, Retryable

(* One step of one call. *)
LEMMA CallShape ==
    ASSUME NoteWriterAssumption, TypeOK, NEW c \in Calls, CallStep(c)
    PROVE  Stepped(c)
  <1>0. /\ locks \in Seq(Calls) /\ appendQueue \in Seq(Appends) /\ inodes \in Nat
        /\ file \in [ino: Nat, text: Seq(AllTexts)] /\ file.text \in Seq(AllTexts)
    BY DEF TypeOK, AllTexts
  <1>1. PICK q : q = call[c] /\ q \in CallState
    BY DEF TypeOK, CallState, AllTexts
  <1>2. CASE ReadNote(c)
    <2> DEFINE r == [q EXCEPT !.at = "draft", !.base = file.text]
    <2>1. /\ r \in CallState /\ r.at = "draft" /\ r.base = file.text /\ r.late = q.late /\ r.kept = q.kept
          /\ r.answer = q.answer
      BY <1>0, <1>1 DEF CallState, Stages
    <2>2. call' = [call EXCEPT ![c] = r]
      BY <1>1, <1>2 DEF ReadNote
    <2> HIDE DEF r
    <2>3. Reads(c, q, r)
      BY <1>1, <1>2, <2>1 DEF ReadNote, Reads, At
    <2> QED
      BY <1>0, <1>1, <1>2, <2>1, <2>2, <2>3, QuietStep DEF ReadNote, Writes1, Shape
  <1>3. CASE CallWrite(c)
    <2>1. CASE Settle(c, "too_large")
      BY <1>3, <2>1, AnswersAre, RefusedStep DEF CallWrite, At, Unpublished
    <2>2. CASE Move(c, "waiting") /\ locks' = Append(locks, c) /\ UNCHANGED appendQueue
      <3>1. PICK r : Writes1(c, r) /\ r.at = "waiting" /\ Keeps(r, call[c])
        BY <2>2, MoveWrites DEF Stages
      <3>2. Waits(c, call[c], r)
        BY <1>3, <2>2, <3>1 DEF Waits, CallWrite, At
      <3>3. locks' \in Seq(Calls)
        BY <1>0, <2>2
      <3> QED
        BY <1>0, <1>3, <2>2, <3>1, <3>2, <3>3, QuietStep DEF CallWrite, Shape
    <2> QED
      BY <1>3, <2>1, <2>2 DEF CallWrite
  <1>4. CASE c \in Appends /\ CallAppend(c)
    <2>1. PICK r : Writes1(c, r) /\ r.at = "queued" /\ Keeps(r, call[c])
      BY <1>4, MoveWrites DEF CallAppend, Stages
    <2>2. Queues(c, call[c], r)
      BY <1>4, <2>1 DEF Queues, CallAppend, At
    <2>3. locks' \in Seq(Calls) /\ appendQueue' \in Seq(Appends)
      BY <1>0, <1>4 DEF CallAppend
    <2> QED
      BY <1>4, <2>1, <2>2, <2>3, QuietStep DEF CallAppend, Shape
  <1>5. CASE AppendRound(c)
    <2>1. CASE Settle(c, "too_large")
      BY <1>5, <2>1, AnswersAre, RefusedStep DEF AppendRound, At, Unpublished
    <2>2. ASSUME call' = [call EXCEPT ![c] = [NewCall EXCEPT !.at = "waiting", !.base = file.text,
                                                             !.tries = call[c].tries + 1]],
                 locks' = Append(locks, c), UNCHANGED appendQueue
          PROVE  Stepped(c)
      <3>0. PICK text, tries : /\ text = file.text /\ text \in Seq(AllTexts)
                               /\ tries = q.tries + 1 /\ tries \in Nat
        <4>1. q.tries \in Nat
          BY <1>1 DEF CallState
        <4> QED
          BY <1>0, <4>1
      <3>1. PICK n : n = NewCall /\ n \in CallState /\ n.answer = "none" /\ n.late = {}
        BY NewCallState
      <3> DEFINE r == [n EXCEPT !.at = "waiting", !.base = text, !.tries = tries]
      <3>2. /\ r \in CallState /\ r.at = "waiting" /\ r.base = file.text /\ r.late = {}
            /\ r.answer = "none"
        BY <3>1, <3>0 DEF CallState, Stages
      <3>3. call' = [call EXCEPT ![c] = r]
        BY <1>1, <2>2, <3>1, <3>0
      <3> HIDE DEF r
      <3>4. Waits(c, q, r)
        BY <1>1, <1>5, <2>2, <3>2 DEF Waits, AppendRound, At
      <3>5. locks' \in Seq(Calls)
        BY <1>0, <2>2
      <3> QED
        BY <1>0, <1>1, <1>5, <2>2, <3>2, <3>3, <3>4, <3>5, QuietStep DEF AppendRound, Shape, Writes1
    <2> QED
      BY <1>5, <2>1, <2>2 DEF AppendRound
  <1>6. CASE Enter(c)
    <2>1. ASSUME Settle(c, Refusal(c))  PROVE Stepped(c)
      <3>1. Refusal(c) \in Refusals
        BY AnswersAre DEF Refusal
      <3> QED
        BY <1>6, <2>1, <3>1, AnswersAre, RefusedStep DEF Enter, At, Unpublished
    <2>2. ASSUME file.text = q.base,
                 call' = [call EXCEPT ![c].first = file.ino,
                            ![c].at = IF ~Exists THEN "publishing"
                                      ELSE IF mode = "path" THEN "staged" ELSE "comparing"],
                 UNCHANGED <<appendQueue, locks>>
          PROVE  Stepped(c)
      <3>1. PICK at : /\ at = IF ~Exists THEN "publishing"
                              ELSE IF mode = "path" THEN "staged" ELSE "comparing"
                      /\ at \in Stages
        BY DEF Stages
      <3> DEFINE r == [q EXCEPT !.first = file.ino, !.at = at]
      <3>2. /\ r \in CallState /\ r.at = at /\ r.base = q.base /\ r.late = q.late /\ r.kept = q.kept
            /\ r.answer = q.answer /\ r.first = file.ino
        BY <1>0, <1>1, <3>1 DEF CallState
      <3>3. call' = [call EXCEPT ![c] = r]
        BY <1>1, <2>2, <3>1
      <3> HIDE DEF r
      <3>4. Enters(c, q, r)
        BY <1>1, <1>6, <2>2, <3>1, <3>2 DEF Enters, Enter, At, Exists, Keeps
      <3> QED
        BY <1>0, <1>1, <1>6, <2>2, <3>2, <3>3, <3>4, QuietStep DEF Enter, Shape, Writes1
    <2> QED
      BY <1>1, <1>6, <2>1, <2>2 DEF Enter
  <1>7. CASE Compare(c)
    <2>1. ASSUME Settle(c, Refusal(c))  PROVE Stepped(c)
      <3>1. Refusal(c) \in Refusals
        BY AnswersAre DEF Refusal
      <3> QED
        BY <1>7, <2>1, <3>1, AnswersAre, RefusedStep DEF Compare, At, Unpublished
    <2>2. ASSUME file.text = q.base,
                 call' = [call EXCEPT ![c].at = "staged", ![c].first = file.ino],
                 UNCHANGED <<appendQueue, locks>>
          PROVE  Stepped(c)
      <3> DEFINE r == [q EXCEPT !.at = "staged", !.first = file.ino]
      <3>2. /\ r \in CallState /\ r.at = "staged" /\ r.base = q.base /\ r.late = q.late /\ r.kept = q.kept
            /\ r.answer = q.answer /\ r.first = file.ino
        BY <1>0, <1>1 DEF CallState, Stages
      <3>3. call' = [call EXCEPT ![c] = r]
        BY <1>1, <2>2
      <3> HIDE DEF r
      <3>4. Compares(c, q, r)
        BY <1>1, <1>7, <2>2, <3>2 DEF Compares, Compare, At, Keeps
      <3> QED
        BY <1>0, <1>1, <1>7, <2>2, <3>2, <3>3, <3>4, QuietStep DEF Compare, Shape, Writes1
    <2> QED
      BY <1>1, <1>7, <2>1, <2>2 DEF Compare
  <1>8. CASE Recheck(c)
    <2>1. CASE Settle(c, "version_conflict")
      BY <1>8, <2>1, AnswersAre, RefusedStep DEF Recheck, At, Unpublished
    <2>2. ASSUME file = [ino |-> call[c].first, text |-> call[c].base],
                 Move(c, "publishing"), UNCHANGED <<appendQueue, locks>>
          PROVE  Stepped(c)
      <3>1. PICK r : /\ Writes1(c, r) /\ r.at = "publishing" /\ Keeps(r, call[c])
                     /\ r.first = call[c].first
        BY <2>2, MoveWrites DEF Stages
      <3>2. Rechecks(c, call[c], r)
        BY <1>8, <2>2, <3>1 DEF Rechecks, Recheck, At
      <3> QED
        BY <1>0, <1>8, <2>2, <3>1, <3>2, QuietStep DEF Recheck, Shape
    <2> QED
      BY <1>8, <2>1, <2>2 DEF Recheck
  <1>9. ASSUME PutFile(c)
        PROVE  /\ file' = [ino |-> inodes + 1, text |-> Append(q.base, c)] /\ inodes' = inodes + 1
               /\ file' \in [ino: Nat, text: Seq(AllTexts)] /\ inodes' \in Nat
               /\ UNCHANGED <<mode, saved, erased>>
    <2>1. Append(q.base, c) \in Seq(AllTexts)
      BY <1>1 DEF CallState, AllTexts
    <2> QED
      BY <1>0, <1>1, <1>9, <2>1 DEF PutFile, Content
  <1>10. ASSUME q.at = "publishing", PutFile(c), Settle(c, "saved"), mode = "path",
                q.base = <<>> => ~Exists
         PROVE  Stepped(c)
    <2>1. ~Retryable("saved")
      BY DEF Retryable
    <2>2. PICK r : /\ Writes1(c, r) /\ r.late = q.late /\ r.kept = q.kept
                   /\ r.at = "done" /\ r.answer = "saved" /\ r.base = <<>>
      BY <1>1, <1>10, <2>1, AnswersAre, SettleWrites
    <2>3. Unlock(c) /\ locks' \in Seq(Calls) /\ appendQueue' \in Seq(Appends)
      BY <1>10, AnswersAre, SettleWrites
    <2>4. Publishes(c, q, r)
      BY <1>9, <1>10, <2>2, <2>3 DEF Publishes
    <2> QED
      BY <1>1, <1>9, <1>10, <2>2, <2>3, <2>4 DEF Stepped, Shape
  <1>11. ASSUME q.at = "publishing", PutFile(c), mode # "path", q.base = <<>> => ~Exists,
                UNCHANGED <<appendQueue, locks>>,
                NEW d \in Nat, mode = "helper" /\ q.base # <<>> => Exists /\ d = file.ino,
                call' = [call EXCEPT ![c] = [q EXCEPT !.at = "published", !.own = inodes + 1,
                                                      !.displaced = d]]
         PROVE  Stepped(c)
    <2>0. PICK own : own = inodes + 1 /\ own \in Nat
      BY <1>0
    <2> DEFINE r == [q EXCEPT !.at = "published", !.own = own, !.displaced = d]
    <2>1. /\ r \in CallState /\ r.at = "published" /\ r.base = q.base /\ r.late = q.late /\ r.kept = q.kept
          /\ r.answer = q.answer /\ r.first = q.first /\ r.displaced = d
      BY <1>1, <1>11, <2>0 DEF CallState, Stages
    <2>2. call' = [call EXCEPT ![c] = r]
      BY <1>11, <2>0
    <2> HIDE DEF r
    <2>3. Publishes(c, q, r)
      BY <1>9, <1>11, <2>1 DEF Publishes, Keeps
    <2> QED
      BY <1>0, <1>1, <1>9, <1>11, <2>1, <2>2, <2>3 DEF Stepped, Shape, Writes1
  <1>12. CASE PublishNew(c)
    <2>1. q.at = "publishing" /\ q.base = <<>>
      BY <1>1, <1>12 DEF PublishNew, At
    <2>2. CASE Exists
      BY <1>1, <1>12, <2>1, <2>2, AnswersAre, RefusedStep DEF PublishNew, Unpublished
    <2>3. CASE ~Exists /\ mode = "path"
      BY <1>10, <1>12, <2>1, <2>3 DEF PublishNew
    <2>4. CASE ~Exists /\ mode # "path"
      <3>1. /\ PutFile(c) /\ UNCHANGED <<appendQueue, locks>>
            /\ call' = [call EXCEPT ![c].at = "published", ![c].own = inodes + 1]
        BY <1>12, <2>4 DEF PublishNew
      <3>2. PICK d : d = q.displaced /\ d \in Nat
        BY <1>1 DEF CallState
      <3>3. [q EXCEPT !.at = "published", !.own = inodes + 1] =
            [q EXCEPT !.at = "published", !.own = inodes + 1, !.displaced = d]
        BY <1>1, <3>2 DEF CallState
      <3>4. call' = [call EXCEPT ![c] = [q EXCEPT !.at = "published", !.own = inodes + 1,
                                                  !.displaced = d]]
        BY <1>1, <3>1, <3>3
      <3> QED
        BY <1>11, <2>1, <2>4, <3>1, <3>2, <3>4
    <2> QED
      BY <2>2, <2>3, <2>4
  <1>13. CASE RenameOver(c)
    <2>1. q.at = "publishing" /\ q.base # <<>>
      BY <1>1, <1>13 DEF RenameOver, At
    <2> QED
      BY <1>10, <1>13, <2>1 DEF RenameOver
  <1>14. CASE Exchange(c)
    <2>1. q.at = "publishing" /\ q.base # <<>> /\ mode # "path"
      BY <1>1, <1>14 DEF Exchange, At
    <2>2. CASE Exists
      <3>1. PICK d : d = (IF mode = "virtiofs" THEN 0 ELSE file.ino) /\ d \in Nat
        BY <1>0
      <3>2. /\ PutFile(c) /\ UNCHANGED <<appendQueue, locks>>
            /\ call' = [call EXCEPT ![c].at = "published", ![c].own = inodes + 1,
                                    ![c].displaced = d]
        BY <1>14, <2>2, <3>1 DEF Exchange
      <3>3. call' = [call EXCEPT ![c] = [q EXCEPT !.at = "published", !.own = inodes + 1,
                                                  !.displaced = d]]
        BY <1>1, <3>2
      <3> QED
        BY <1>11, <2>1, <2>2, <3>1, <3>2, <3>3
    <2>3. CASE ~Exists
      BY <1>1, <1>14, <2>1, <2>3, AnswersAre, RefusedStep DEF Exchange, Unpublished
    <2> QED
      BY <2>2, <2>3
  <1>15. CASE Verify(c)
    <2>1. q.at = "published"
      BY <1>1, <1>15 DEF Verify, At
    <2>2. CASE file.ino = q.own /\ q.base # <<>> /\ q.displaced = 0
      <3>1. Move(c, "confirming") /\ UNCHANGED <<appendQueue, locks>>
        BY <1>1, <1>15, <2>2 DEF Verify
      <3>2. PICK r : Writes1(c, r) /\ r.at = "confirming" /\ Keeps(r, call[c])
        BY <3>1, MoveWrites DEF Stages
      <3>3. Doubts(c, call[c], r)
        BY <1>1, <1>15, <2>1, <2>2, <3>1, <3>2 DEF Doubts, Verify
      <3> QED
        BY <1>0, <1>15, <3>1, <3>2, <3>3, QuietStep DEF Verify, Shape
    <2>3. CASE ~(file.ino = q.own /\ q.base # <<>> /\ q.displaced = 0)
      <3>1. PICK answer : /\ answer = (IF Verified(c) THEN "saved" ELSE "published_unverified")
                          /\ answer \in Answers /\ answer # "none" /\ answer \notin Refusals
        BY AnswersAre
      <3>2. Settle(c, answer) /\ UNCHANGED <<mode, file, inodes, saved, erased>>
        BY <1>1, <1>15, <2>3, <3>1 DEF Verify
      <3>3. answer = "saved" => q.displaced = q.first /\ (q.base = <<>> \/ q.displaced # 0)
        BY <1>1, <2>3, <3>1 DEF Verified
      <3> QED
        BY <1>1, <2>1, <3>1, <3>2, <3>3, RefusedStep DEF Unpublished
    <2> QED
      BY <2>2, <2>3
  <1>16. CASE Confirm(c)
    <2>1. PICK answer : /\ answer = (IF file.text = Content(c) THEN "saved" ELSE "published_unverified")
                        /\ answer \in Answers /\ answer # "none" /\ answer \notin Refusals
      BY AnswersAre
    <2>2. Settle(c, answer) /\ UNCHANGED <<mode, file, inodes, saved, erased>>
      BY <1>16, <2>1 DEF Confirm
    <2> QED
      BY <1>16, <2>1, <2>2, RefusedStep DEF Confirm, At, Unpublished
  <1>17. CASE Fails(c)
    <2>1. PICK answer : /\ answer = (IF At(c, "confirming") THEN "published_unverified" ELSE "io_error")
                        /\ answer \in Answers /\ answer # "none" /\ answer \notin Refusals
                        /\ answer # "saved"
      BY AnswersAre
    <2>2. Settle(c, answer) /\ UNCHANGED <<mode, file, inodes, saved, erased>>
      BY <1>17, <2>1 DEF Fails
    <2>3. call[c].at \notin {"idle", "done"} /\ (call[c].at = "waiting" => HoldsLock(c))
      BY <1>17 DEF Fails, OnDisk, At
    <2> QED
      BY <2>1, <2>2, <2>3, RefusedStep
  <1>18. CASE Unsupported(c)
    BY <1>18, AnswersAre, RefusedStep DEF Unsupported, At, Unpublished
  <1> QED
    BY <1>2, <1>3, <1>4, <1>5, <1>6, <1>7, <1>8, <1>12, <1>13, <1>14, <1>15, <1>16, <1>17,
     <1>18 DEF CallStep, Serve
----------------------------------------------------------------------------
LEMMA OtherCalls ==
    ASSUME TypeOK, NEW c \in Calls, NEW r, Writes1(c, r)
    PROVE  \A d \in Calls : call'[d] = IF d = c THEN r ELSE call[d]
  BY DEF Writes1, TypeOK

(* What a step from outside does to the calls: only a call that is about to
   publish takes note of it. *)
Notes(c, late) ==
    /\ call'[c] \in CallState
    /\ call'[c].at = call[c].at /\ call'[c].base = call[c].base
    /\ call'[c].first = call[c].first /\ call'[c].displaced = call[c].displaced
    /\ call'[c].answer = call[c].answer
    /\ call[c].at # "publishing" => call'[c].late = call[c].late /\ call'[c].kept = call[c].kept
    /\ At(c, "publishing") => call'[c].late = late

OutsideStep == (\E x \in Outside, ino \in 1..(inodes + 1) : OutsideSave(x, ino)) \/ OutsideDelete

LEMMA SaveShape ==
    ASSUME TypeOK, NEW x \in Outside, NEW ino, OutsideSave(x, ino)
    PROVE  /\ call' \in [Calls -> CallState]
           /\ \A c \in Calls :
                /\ Notes(c, call[c].late \union {x})
                /\ At(c, "publishing") => call'[c].kept = (ino = call[c].first)
  <1>1. call' = [c \in Calls |-> IF At(c, "publishing")
                                 THEN [call[c] EXCEPT !.late = @ \union {x},
                                                      !.kept = (ino = call[c].first)]
                                 ELSE call[c]]
    BY DEF OutsideSave
  <1>2. ASSUME NEW c \in Calls
        PROVE  /\ Notes(c, call[c].late \union {x})
               /\ At(c, "publishing") => call'[c].kept = (ino = call[c].first)
    <2>1. call[c] \in CallState /\ call[c].late \in SUBSET Outside
      BY DEF TypeOK, CallState, AllTexts
    <2>2. CASE At(c, "publishing")
      <3>1. PICK late \in SUBSET Outside : late = call[c].late \union {x}
        BY <2>1
      <3>2. PICK kept \in BOOLEAN : kept = (ino = call[c].first)
        OBVIOUS
      <3>3. call'[c] = [call[c] EXCEPT !.late = late, !.kept = kept]
        BY <1>1, <2>2, <3>1, <3>2
      <3>4. /\ call'[c] \in CallState /\ call'[c].at = call[c].at
            /\ call'[c].base = call[c].base /\ call'[c].first = call[c].first
            /\ call'[c].displaced = call[c].displaced /\ call'[c].answer = call[c].answer
            /\ call'[c].late = late /\ call'[c].kept = kept
        <4>1. PICK q : q = call[c] /\ q \in CallState
          BY <2>1
        <4>2. call'[c] = [q EXCEPT !.late = late, !.kept = kept]
          BY <3>3, <4>1
        <4> QED
          BY <4>1, <4>2 DEF CallState
      <3> QED
        BY <2>2, <3>1, <3>2, <3>4 DEF Notes, At
    <2>3. CASE ~At(c, "publishing")
      BY <1>1, <2>1, <2>3 DEF Notes, At
    <2> QED
      BY <2>2, <2>3
  <1>3. call' \in [Calls -> CallState]
    BY <1>1, <1>2 DEF Notes
  <1> QED
    BY <1>2, <1>3

LEMMA DeleteShape ==
    ASSUME TypeOK, OutsideDelete
    PROVE  call' \in [Calls -> CallState] /\ \A c \in Calls : Notes(c, {})
  <1>1. call' = [c \in Calls |-> IF At(c, "publishing") THEN [call[c] EXCEPT !.late = {}] ELSE call[c]]
    BY DEF OutsideDelete
  <1>2. ASSUME NEW c \in Calls  PROVE Notes(c, {})
    <2>1. PICK q : q = call[c] /\ q \in CallState
      BY DEF TypeOK, CallState, AllTexts
    <2>2. CASE At(c, "publishing")
      <3>1. call'[c] = [q EXCEPT !.late = {}]
        BY <1>1, <2>1, <2>2
      <3> QED
        BY <2>1, <2>2, <3>1 DEF Notes, At, CallState
    <2>3. CASE ~At(c, "publishing")
      BY <1>1, <2>1, <2>3 DEF Notes, At
    <2> QED
      BY <2>2, <2>3
  <1>3. call' \in [Calls -> CallState]
    BY <1>1, <1>2 DEF Notes
  <1> QED
    BY <1>2, <1>3

LEMMA OutsideShape ==
    ASSUME TypeOK, OutsideStep
    PROVE  /\ call' \in [Calls -> CallState]
           /\ \A c \in Calls :
                /\ call'[c].at = call[c].at /\ call'[c].base = call[c].base
                /\ call'[c].first = call[c].first /\ call'[c].displaced = call[c].displaced
                /\ call'[c].answer = call[c].answer
           /\ UNCHANGED <<mode, appendQueue, locks>>
  <1>1. CASE OutsideDelete
    BY <1>1, DeleteShape DEF Notes, OutsideDelete
  <1>2. ASSUME NEW x \in Outside, NEW ino \in 1..(inodes + 1), OutsideSave(x, ino)
        PROVE  /\ call' \in [Calls -> CallState] /\ \A c \in Calls : Notes(c, call[c].late \union {x})
               /\ UNCHANGED <<mode, appendQueue, locks>>
    <2>1. call' \in [Calls -> CallState] /\ \A c \in Calls : Notes(c, call[c].late \union {x})
      BY <1>2, SaveShape
    <2>2. UNCHANGED <<mode, appendQueue, locks>>
      BY <1>2 DEF OutsideSave
    <2> QED
      BY <2>1, <2>2
  <1> QED
    BY <1>1, <1>2 DEF OutsideStep, Notes

LEMMA TypeStep ==
    ASSUME NoteWriterAssumption, TypeOK, [Next]_vars
    PROVE  TypeOK'
  <1>1. ASSUME NEW c \in Calls, CallStep(c)  PROVE TypeOK'
    <2>1. Stepped(c)
      BY <1>1, CallShape
    <2>2. call' \in [Calls -> CallState]
      BY <2>1 DEF Stepped, Writes1, TypeOK, CallState, AllTexts
    <2> QED
      BY <2>1, <2>2 DEF Stepped, TypeOK, CallState, AllTexts
  <1>2. CASE OutsideDelete
    <2>1. call' \in [Calls -> CallState]
      BY <1>2, DeleteShape
    <2>2. file' \in [ino: Nat, text: Seq(AllTexts)]
      BY <1>2 DEF OutsideDelete, NoFile
    <2>3. Texts(file) \subseteq AllTexts
      BY DEF TypeOK, Texts, AllTexts
    <2> QED
      BY <1>2, <2>1, <2>2, <2>3 DEF OutsideDelete, TypeOK, CallState, AllTexts
  <1>3. ASSUME NEW x \in Outside, NEW ino \in 1..(inodes + 1), OutsideSave(x, ino)
        PROVE  TypeOK'
    <2>1. call' \in [Calls -> CallState]
      BY <1>3, SaveShape
    <2>2. Append(file.text, x) \in Seq(AllTexts) /\ ino \in Nat /\ inodes \in Nat
      BY DEF TypeOK, AllTexts
    <2>3. file' \in [ino: Nat, text: Seq(AllTexts)] /\ inodes' \in Nat
      BY <1>3, <2>2 DEF OutsideSave
    <2> QED
      BY <1>3, <2>1, <2>3 DEF OutsideSave, TypeOK, CallState, AllTexts
  <1>4. CASE UNCHANGED vars
    BY <1>4 DEF vars, TypeOK
  <1> QED
    BY <1>1, <1>2, <1>3, <1>4 DEF Next, CallStep, Calls, OutsideStep

(* The types of the model. *)
THEOREM TypeCorrect == Spec => []TypeOK
  <1>1. Init => TypeOK
    <2>1. NewCall \in CallState
      BY NewCallState
    <2>2. ASSUME Init  PROVE file \in [ino: Nat, text: Seq(AllTexts)] /\ Texts(file) \subseteq Outside
      <3>1. CASE file = NoFile
        BY <3>1 DEF NoFile, Texts
      <3>2. ASSUME NEW x \in Outside, file = [ino |-> 1, text |-> <<x>>]
            PROVE  file \in [ino: Nat, text: Seq(AllTexts)] /\ Texts(file) \subseteq Outside
        <4>1. <<x>> \in Seq(AllTexts) /\ DOMAIN <<x>> = 1..1 /\ <<x>>[1] = x
          BY DEF AllTexts
        <4> QED
          BY <3>2, <4>1 DEF Texts
      <3> QED
        BY <2>2, <3>1, <3>2 DEF Init
    <2> QED
      BY <2>1, <2>2 DEF Init, TypeOK, CallState, AllTexts
  <1>2. TypeOK /\ [Next]_vars => TypeOK'
    BY NoteWriterAssumption, TypeStep
  <1> QED
    BY <1>1, <1>2, PTL DEF Spec
----------------------------------------------------------------------------
(* The lock: a call past its wait is at the head of the queue, and only calls
   that wait or work are in it, once. *)
Working == {"comparing", "staged", "publishing", "published", "confirming"}

LockInv ==
    /\ \A c \in Calls : call[c].at \in Working => HoldsLock(c)
    /\ \A i, j \in DOMAIN locks : locks[i] = locks[j] => i = j
    /\ \A i \in DOMAIN locks : call[locks[i]].at \in {"waiting"} \union Working

LEMMA LockStep ==
    ASSUME NoteWriterAssumption, TypeOK, LockInv, [Next]_vars
    PROVE  LockInv'
  <1>0. /\ locks \in Seq(Calls) /\ DOMAIN locks = 1..Len(locks) /\ Len(locks) \in Nat
        /\ \A i \in DOMAIN locks : locks[i] \in Calls
    BY DEF TypeOK
  <1>1. ASSUME NEW c \in Calls, Stepped(c)  PROVE LockInv'
    <2>1. PICK r : Writes1(c, r) /\ Shape(c, call[c], r)
      BY <1>1 DEF Stepped
    <2>2. \A d \in Calls : call'[d] = IF d = c THEN r ELSE call[d]
      BY <2>1, OtherCalls
    <2>3. call[c].at \notin {"waiting"} \union Working => \A i \in DOMAIN locks : locks[i] # c
      BY DEF LockInv
    <2>4. ASSUME locks' = locks, call[c].at \notin {"waiting"} \union Working, r.at \notin Working
          PROVE  LockInv'
      BY <1>0, <2>2, <2>3, <2>4 DEF LockInv, HoldsLock
    <2>5. ASSUME locks' = locks, HoldsLock(c), r.at \in Working
          PROVE  LockInv'
      BY <1>0, <2>2, <2>5 DEF LockInv, HoldsLock
    <2>6. CASE Waits(c, call[c], r)
      <3>1. /\ \A i \in DOMAIN locks : locks[i] # c
            /\ r.at = "waiting" /\ r.at \notin Working /\ locks' = Append(locks, c)
        BY <2>3, <2>6 DEF Waits, Working
      <3>2. /\ DOMAIN locks' = 1..Len(locks) + 1
            /\ \A i \in 1..Len(locks) : locks'[i] = locks[i]
            /\ locks'[Len(locks) + 1] = c
            /\ locks' # <<>> /\ (locks # <<>> => Head(locks') = Head(locks))
        BY <1>0, <3>1
      <3>3. \A d \in Calls : HoldsLock(d) => HoldsLock(d)'
        BY <3>2 DEF HoldsLock
      <3>4. \A i, j \in DOMAIN locks' : locks'[i] = locks'[j] => i = j
        BY <1>0, <3>1, <3>2 DEF LockInv
      <3>5. \A i \in DOMAIN locks' : call'[locks'[i]].at \in {"waiting"} \union Working
        BY <1>0, <2>2, <3>1, <3>2 DEF LockInv
      <3>6. \A d \in Calls : call'[d].at \in Working => HoldsLock(d)'
        BY <2>2, <3>1, <3>3 DEF LockInv
      <3> QED
        BY <3>4, <3>5, <3>6 DEF LockInv
    <2>7. ASSUME Unlock(c), r.at \notin {"waiting"} \union Working,
                 call[c].at \in {"waiting"} \union Working => HoldsLock(c)
          PROVE  LockInv'
      <3>1. CASE ~HoldsLock(c)
        BY <2>4, <2>7, <3>1 DEF Unlock
      <3>2. CASE HoldsLock(c)
        <4>1. /\ locks # <<>> /\ Head(locks) = c /\ locks[1] = c /\ locks' = Tail(locks)
              /\ 1 \in DOMAIN locks
          BY <1>0, <2>7, <3>2 DEF HoldsLock, Unlock
        <4>2. /\ DOMAIN locks' = 1..Len(locks) - 1
              /\ \A i \in 1..Len(locks) - 1 : locks'[i] = locks[i + 1] /\ i + 1 \in DOMAIN locks
          BY <1>0, <4>1
        <4>3. \A i \in DOMAIN locks' : locks[i + 1] # c
          BY <1>0, <4>1, <4>2 DEF LockInv
        <4>4. \A d \in Calls : call'[d].at \notin Working
          BY <2>2, <2>7, <4>1 DEF LockInv, HoldsLock
        <4>5. \A i, j \in DOMAIN locks' : locks'[i] = locks'[j] => i = j
          BY <1>0, <4>2 DEF LockInv
        <4>6. \A i \in DOMAIN locks' : call'[locks'[i]].at \in {"waiting"} \union Working
          BY <1>0, <2>2, <4>2, <4>3 DEF LockInv
        <4> QED
          BY <4>4, <4>5, <4>6 DEF LockInv
      <3> QED
        BY <3>1, <3>2
    <2>8. call[c].at \in Working => HoldsLock(c)
      BY DEF LockInv
    <2>9. CASE Reads(c, call[c], r) \/ Queues(c, call[c], r)
      BY <2>4, <2>9 DEF Reads, Queues, Working
    <2>10. CASE Enters(c, call[c], r) \/ Compares(c, call[c], r) \/ Rechecks(c, call[c], r)
                \/ Doubts(c, call[c], r)
      BY <2>5, <2>8, <2>10 DEF Enters, Compares, Rechecks, Doubts, Working
    <2>11. CASE Publishes(c, call[c], r)
      BY <2>5, <2>7, <2>8, <2>11 DEF Publishes, Working
    <2>12. CASE Settles(c, call[c], r)
      BY <2>7, <2>8, <2>12 DEF Settles, Working
    <2> QED
      BY <2>1, <2>6, <2>9, <2>10, <2>11, <2>12 DEF Shape
  <1>2. ASSUME OutsideStep
        PROVE  LockInv'
    <2>1. locks' = locks /\ \A c \in Calls : call'[c].at = call[c].at
      BY <1>2, OutsideShape
    <2> QED
      BY <1>0, <2>1 DEF LockInv, HoldsLock
  <1>3. CASE UNCHANGED vars
    BY <1>3 DEF vars, LockInv, HoldsLock
  <1>4. \A c \in Calls : CallStep(c) => Stepped(c)
    BY CallShape
  <1> QED
    BY <1>1, <1>2, <1>3, <1>4 DEF Next, CallStep, Calls, OutsideStep
----------------------------------------------------------------------------
In(x, text) == \E i \in DOMAIN text : text[i] = x

LEMMA InAppend ==
    ASSUME NEW s \in Seq(AllTexts), NEW y, NEW x
    PROVE  In(x, Append(s, y)) <=> In(x, s) \/ x = y
  <1>1. /\ DOMAIN s = 1..Len(s) /\ Len(s) \in Nat
        /\ DOMAIN Append(s, y) = 1..Len(s) + 1
        /\ \A i \in 1..Len(s) : Append(s, y)[i] = s[i]
        /\ Append(s, y)[Len(s) + 1] = y
    OBVIOUS
  <1>2. \A i \in 1..Len(s) + 1 : i \in 1..Len(s) \/ i = Len(s) + 1
    BY <1>1
  <1>3. Len(s) + 1 \in 1..Len(s) + 1 /\ \A i \in 1..Len(s) : i \in 1..Len(s) + 1
    BY <1>1
  <1> QED
    BY <1>1, <1>2, <1>3 DEF In

LEMMA TextsAreIn ==
    /\ \A x : x \in Texts(file) <=> In(x, file.text)
    /\ \A x : x \in Texts(file)' <=> In(x, file'.text)
  BY DEF Texts, In

(* What the note holds when a call is about to publish: what the call is based
   on, and what came from outside in the window since it last looked. *)
WindowInv ==
    \A c \in Calls : At(c, "publishing") =>
      \A x \in Texts(file) :
         In(x, call[c].base) \/ x \in call[c].late

LEMMA OnePublishes ==
    ASSUME LockInv, NEW c \in Calls, NEW d \in Calls, At(c, "publishing"), At(d, "publishing")
    PROVE  c = d
  BY DEF LockInv, Working, At, HoldsLock

LEMMA WindowStep ==
    ASSUME NoteWriterAssumption, TypeOK, LockInv, WindowInv, [Next]_vars
    PROVE  WindowInv'
  <1>1. ASSUME NEW c \in Calls, Stepped(c)  PROVE WindowInv'
    <2>1. PICK r : Writes1(c, r) /\ Shape(c, call[c], r)
      BY <1>1 DEF Stepped
    <2>2. \A d \in Calls : call'[d] = IF d = c THEN r ELSE call[d]
      BY <2>1, OtherCalls
    <2>3. r.at = "publishing" =>
             Enters(c, call[c], r) \/ Rechecks(c, call[c], r)
      BY <2>1 DEF Shape, Reads, Queues, Waits, Compares, Publishes, Doubts, Settles
    <2>4. r.at = "publishing" => file' = file /\ file.text = r.base
      BY <2>3 DEF Enters, Rechecks, Keeps
    <2>5. file' = file \/ At(c, "publishing")
      BY <2>1 DEF Shape, Reads, Queues, Waits, Enters, Compares, Rechecks, Publishes, Doubts,
                  Settles, At
    <2>6. ASSUME NEW d \in Calls, At(d, "publishing")'
          PROVE  \A x \in Texts(file)' : In(x, call'[d].base) \/ x \in call'[d].late
      <3>1. CASE d = c
        BY <2>2, <2>4, <2>6, <3>1, TextsAreIn DEF At
      <3>2. CASE d # c
        <4>1. call'[d] = call[d] /\ At(d, "publishing")
          BY <2>2, <2>6, <3>2 DEF At
        <4>2. file' = file
          BY <2>5, <3>2, <4>1, OnePublishes
        <4> QED
          BY <4>1, <4>2 DEF WindowInv, Texts
      <3> QED
        BY <3>1, <3>2
    <2> QED
      BY <2>6 DEF WindowInv
  <1>2. CASE OutsideDelete
    <2>1. \A x : x \notin Texts(file)'
      BY <1>2 DEF OutsideDelete, NoFile, Texts
    <2> QED
      BY <2>1 DEF WindowInv
  <1>3. ASSUME NEW x \in Outside, NEW ino \in 1..(inodes + 1), OutsideSave(x, ino)
        PROVE  WindowInv'
    <2>1. \A c \in Calls : Notes(c, call[c].late \union {x})
      BY <1>3, SaveShape
    <2>2. \A z \in Texts(file)' : z \in Texts(file) \/ z = x
      <3>1. file'.text = Append(file.text, x) /\ file.text \in Seq(AllTexts)
        BY <1>3 DEF OutsideSave, TypeOK, AllTexts
      <3> QED
        BY <3>1, InAppend, TextsAreIn
    <2> QED
      BY <2>1, <2>2 DEF WindowInv, Notes, At
  <1>4. CASE UNCHANGED vars
    BY <1>4 DEF vars, WindowInv, Texts, At
  <1>5. \A c \in Calls : CallStep(c) => Stepped(c)
    BY CallShape
  <1> QED
    BY <1>1, <1>2, <1>3, <1>4, <1>5 DEF Next, CallStep, Calls

LEMMA LossStep ==
    ASSUME NoteWriterAssumption, TypeOK, WindowInv, [Next]_vars
    PROVE  [\A x \in Texts(file) \ Texts(file') :
              \/ file' = NoFile
              \/ \E c \in Calls : At(c, "publishing") /\ x \in call[c].late]_vars
  <1>0. \A x : x \in Texts(file') <=> In(x, file'.text)
    BY DEF Texts, In
  <1>1. ASSUME NEW c \in Calls, Stepped(c), NEW x \in Texts(file) \ Texts(file')
        PROVE  At(c, "publishing") /\ x \in call[c].late
    <2>1. PICK r : Shape(c, call[c], r)
      BY <1>1 DEF Stepped
    <2>2. Publishes(c, call[c], r)
      BY <1>1, <2>1 DEF Shape, Reads, Queues, Waits, Enters, Compares, Rechecks, Doubts, Settles
    <2>3. file'.text = Append(call[c].base, c) /\ At(c, "publishing")
      BY <2>2 DEF Publishes, At
    <2>4. call[c].base \in Seq(AllTexts)
      BY DEF TypeOK, AllTexts
    <2>5. ~In(x, call[c].base)
      BY <1>0, <1>1, <2>3, <2>4, InAppend
    <2> QED
      BY <1>1, <2>3, <2>5 DEF WindowInv
  <1>2. ASSUME NEW y \in Outside, NEW ino, OutsideSave(y, ino)
        PROVE  Texts(file) \ Texts(file') = {}
    <2>1. file'.text = Append(file.text, y) /\ file.text \in Seq(AllTexts)
      BY <1>2 DEF OutsideSave, TypeOK, AllTexts
    <2> QED
      BY <1>0, <2>1, InAppend, TextsAreIn
  <1>3. CASE OutsideDelete
    BY <1>3 DEF OutsideDelete
  <1>4. CASE UNCHANGED vars
    BY <1>4
  <1>5. \A c \in Calls : CallStep(c) => Stepped(c)
    BY CallShape
  <1> QED
    BY <1>1, <1>2, <1>3, <1>4, <1>5 DEF Next, CallStep, Calls

LEMMA WindowInvariant == Spec => [](TypeOK /\ LockInv /\ WindowInv)
  <1>1. Init => LockInv /\ WindowInv
    BY DEF Init, LockInv, WindowInv, NewCall, Working, At
  <1>2. TypeOK /\ LockInv /\ WindowInv /\ [Next]_vars => LockInv' /\ WindowInv'
    BY NoteWriterAssumption, LockStep, WindowStep
  <1> QED
    BY <1>1, <1>2, TypeCorrect, PTL DEF Spec

(* A text leaves the note only by an outside deletion, or in the window between
   the last check of a write and its publication. *)
THEOREM OnlyTheWindowLoses == Spec => NothingElseLost
  <1>1. TypeOK /\ WindowInv /\ [Next]_vars =>
          [\A x \in Texts(file) \ Texts(file') :
              \/ file' = NoFile
              \/ \E c \in Calls : At(c, "publishing") /\ x \in call[c].late]_vars
    BY NoteWriterAssumption, LossStep
  <1> QED
    BY <1>1, WindowInvariant, PTL DEF Spec, NothingElseLost
----------------------------------------------------------------------------
(* What a call has recorded by its stage: nothing is late before the window
   opens; once the note was saved late under another number it no longer bears
   the one that was validated, and what the exchange returns tells. *)
SameNumber(q) == q.late = {} \/ q.kept

LateOK(q) ==
    /\ q.at \in {"idle", "draft", "waiting", "comparing", "staged"} => q.late = {}
    /\ q.at \in {"comparing", "staged"} => q.base # <<>>
    /\ q.at = "staged" => q.first \in 1..inodes
    /\ q.at = "publishing" =>
         \/ q.base = <<>> /\ (Exists \/ q.late = {})
         \/ q.base # <<>> /\ q.first \in 1..inodes /\ (SameNumber(q) \/ file.ino # q.first)
    /\ mode = "helper" /\ q.at = "published" =>
         \/ q.base = <<>> /\ q.late = {}
         \/ q.base # <<>> /\ q.displaced # 0 /\ (SameNumber(q) \/ q.displaced # q.first)
    /\ mode = "helper" => q.at # "confirming"
    /\ q.answer # "none" => q.at = "done"
    /\ mode = "helper" /\ q.answer = "saved" => SameNumber(q)

LateInv ==
    /\ file.ino <= inodes
    /\ Exists => file.ino # 0
    /\ \A c \in Calls : LateOK(call[c])

LEMMA LateStep ==
    ASSUME NoteWriterAssumption, TypeOK, LockInv, LateInv, [Next]_vars
    PROVE  LateInv'
  <1>0. /\ inodes \in Nat /\ file.ino \in Nat /\ file.text \in Seq(AllTexts)
        /\ \A c \in Calls : call[c] \in CallState
    BY DEF TypeOK, CallState, AllTexts
  <1>1. ASSUME NEW c \in Calls, Stepped(c)  PROVE LateInv'
    <2>1. PICK r : Writes1(c, r) /\ Shape(c, call[c], r)
      BY <1>1 DEF Stepped
    <2>2. \A d \in Calls : call'[d] = IF d = c THEN r ELSE call[d]
      BY <2>1, OtherCalls
    <2>3. r \in CallState /\ mode' = mode
      BY <1>1, <2>1 DEF Writes1, Stepped
    <2>4. PICK q : q = call[c] /\ q \in CallState /\ LateOK(q)
      BY <1>0 DEF LateInv
    <2>5. ASSUME file' = file, inodes' = inodes, LateOK(r)  PROVE LateInv'
      BY <2>2, <2>3, <2>5 DEF LateInv, LateOK, Exists, SameNumber
    <2>6. CASE Reads(c, q, r)
      <3>1. LateOK(r)
        BY <2>4, <2>6 DEF Reads, LateOK
      <3> QED
        BY <2>5, <2>6, <3>1 DEF Reads
    <2>7. CASE Queues(c, q, r)
      <3>1. LateOK(r)
        BY <2>4, <2>7 DEF Queues, LateOK, Keeps
      <3> QED
        BY <2>5, <2>7, <3>1 DEF Queues
    <2>8. CASE Waits(c, q, r)
      <3>1. LateOK(r)
        BY <2>4, <2>8 DEF Waits, LateOK, Keeps
      <3> QED
        BY <2>5, <2>8, <3>1 DEF Waits
    <2>9. CASE Enters(c, q, r)
      <3>1. q.base # <<>> => file.ino \in 1..inodes
        BY <1>0, <2>9 DEF Enters, LateInv, Exists
      <3>2. LateOK(r)
        BY <2>4, <2>9, <3>1 DEF Enters, LateOK, Keeps
      <3> QED
        BY <2>5, <2>9, <3>2 DEF Enters
    <2>10. CASE Compares(c, q, r)
      <3>1. file.ino \in 1..inodes
        BY <1>0, <2>4, <2>10 DEF Compares, LateInv, LateOK, Exists
      <3>2. LateOK(r)
        BY <2>4, <2>10, <3>1 DEF Compares, LateOK, Keeps
      <3> QED
        BY <2>5, <2>10, <3>2 DEF Compares
    <2>11. CASE Rechecks(c, q, r)
      <3>1. LateOK(r)
        BY <2>4, <2>11 DEF Rechecks, LateOK, Keeps, SameNumber
      <3> QED
        BY <2>5, <2>11, <3>1 DEF Rechecks
    <2>12. CASE Publishes(c, q, r)
      <3>1. /\ file'.ino = inodes + 1 /\ inodes' = inodes + 1
            /\ file'.text = Append(q.base, c) /\ Append(q.base, c) # <<>>
        <4>1. q.base \in Seq(AllTexts)
          BY <2>4 DEF CallState, AllTexts
        <4>2. Append(q.base, c) # <<>>
          BY <4>1
        <4> QED
          BY <2>12, <4>2 DEF Publishes
      <3>2. file'.ino <= inodes' /\ file'.ino # 0
        BY <1>0, <3>1
      <3>3. LateOK(r)'
        <4>1. CASE q.base = <<>>
          BY <2>3, <2>4, <2>12, <4>1 DEF Publishes, LateOK, Keeps, SameNumber
        <4>2. CASE q.base # <<>> /\ mode = "helper"
          <5>1. /\ r.at = "published" /\ r.base = q.base /\ r.late = q.late /\ r.answer = q.answer
                /\ r.kept = q.kept /\ r.first = q.first /\ Exists /\ r.displaced = file.ino
            BY <2>12, <4>2 DEF Publishes, Keeps
          <5>2. file.ino # 0
            BY <5>1 DEF LateInv
          <5>3. SameNumber(q) \/ file.ino # q.first
            BY <2>4, <2>12, <4>2 DEF Publishes, LateOK
          <5>4. q.answer = "none"
            BY <2>4, <2>12 DEF Publishes, LateOK
          <5> QED
            BY <2>3, <4>2, <5>1, <5>2, <5>3, <5>4 DEF LateOK, SameNumber
        <4>3. CASE mode # "helper"
          <5>1. q.answer = "none"
            BY <2>4, <2>12 DEF Publishes, LateOK
          <5> QED
            BY <2>3, <2>12, <4>3, <5>1 DEF Publishes, LateOK, Keeps
        <4> QED
          BY <4>1, <4>2, <4>3
      <3>4. ASSUME NEW d \in Calls, d # c  PROVE LateOK(call[d])'
        <4>1. call'[d] = call[d] /\ LateOK(call[d])
          BY <2>2, <3>4 DEF LateInv
        <4>2. call[d].at # "publishing"
          BY <2>4, <2>12, <3>4, OnePublishes DEF Publishes, At
        <4>3. call[d].first \in 1..inodes => call[d].first \in 1..inodes'
          BY <1>0, <3>1
        <4> QED
          BY <2>3, <4>1, <4>2, <4>3 DEF LateOK, SameNumber
      <3>5. LateOK(call[c])'
        BY <2>2, <3>3 DEF LateOK, SameNumber
      <3> QED
        BY <3>2, <3>4, <3>5 DEF LateInv
    <2>13. CASE Doubts(c, q, r)
      <3>1. LateOK(r)
        BY <2>4, <2>13 DEF Doubts, LateOK, Keeps
      <3> QED
        BY <2>5, <2>13, <3>1 DEF Doubts
    <2>14. CASE Settles(c, q, r)
      <3>1. q.answer = "none"
        BY <2>4, <2>14 DEF Settles, LateOK
      <3>2. CASE r.at = "queued"
        <4>1. LateOK(r)
          BY <2>14, <3>1, <3>2 DEF Settles, LateOK, Keeps
        <4> QED
          BY <2>5, <2>14, <4>1 DEF Settles
      <3>3. CASE r.at = "done"
        <4>1. r.answer = "saved" => q.at \in {"published", "confirming"}
          BY <2>4, <2>14, <3>3 DEF Settles, Unpublished, CallState, Stages
        <4>2. mode = "helper" /\ r.answer = "saved" => SameNumber(r)
          BY <2>4, <2>14, <3>3, <4>1 DEF Settles, LateOK, SameNumber
        <4>3. LateOK(r)
          BY <3>3, <4>2 DEF LateOK
        <4> QED
          BY <2>5, <2>14, <4>3 DEF Settles
      <3> QED
        BY <2>14, <3>2, <3>3 DEF Settles
    <2> QED
      BY <2>1, <2>4, <2>6, <2>7, <2>8, <2>9, <2>10, <2>11, <2>12, <2>13, <2>14 DEF Shape
  <1>2. CASE OutsideDelete
    <2>1. \A c \in Calls : Notes(c, {})
      BY <1>2, DeleteShape
    <2>2. file'.ino = 0 /\ file'.text = <<>> /\ inodes' = inodes /\ mode' = mode
      BY <1>2 DEF OutsideDelete, NoFile
    <2>3. ASSUME NEW c \in Calls  PROVE LateOK(call[c])'
      <3>1. LateOK(call[c])
        BY DEF LateInv
      <3> QED
        BY <2>1, <2>2, <3>1 DEF LateOK, SameNumber, Exists, Notes, At
    <2> QED
      BY <1>0, <2>2, <2>3 DEF LateInv, Exists
  <1>3. ASSUME NEW x \in Outside, NEW ino \in 1..(inodes + 1), OutsideSave(x, ino)
        PROVE  LateInv'
    <2>1. /\ \A c \in Calls : Notes(c, call[c].late \union {x})
          /\ \A c \in Calls : At(c, "publishing") => call'[c].kept = (ino = call[c].first)
      BY <1>3, SaveShape
    <2>2. /\ mode' = mode /\ inodes <= inodes' /\ inodes' \in Nat
          /\ file'.ino = ino /\ ino <= inodes' /\ ino # 0
      <3>1. ino \in Nat /\ ino # 0
        BY <1>0
      <3>2. mode' = mode /\ file'.ino = ino /\ inodes' = IF ino > inodes THEN ino ELSE inodes
        BY <1>3 DEF OutsideSave
      <3> QED
        BY <1>0, <3>1, <3>2
    <2>3. Exists'
      <3>1. file'.text = Append(file.text, x)
        BY <1>3 DEF OutsideSave
      <3> QED
        BY <1>0, <3>1 DEF Exists
    <2>4. ASSUME NEW c \in Calls  PROVE LateOK(call[c])'
      <3>1. LateOK(call[c]) /\ call[c].first \in Nat
        BY <1>0 DEF LateInv, CallState
      <3>2. call[c].first \in 1..inodes => call[c].first \in 1..inodes'
        BY <1>0, <2>2
      <3>3. CASE call[c].at # "publishing"
        BY <2>1, <2>2, <3>1, <3>2, <3>3 DEF LateOK, SameNumber, Notes
      <3>4. CASE call[c].at = "publishing"
        <4>1. call[c].answer = "none"
          BY <3>1, <3>4 DEF LateOK
        <4>2. SameNumber(call'[c]) \/ file'.ino # call[c].first
          BY <2>1, <2>2, <3>4 DEF SameNumber, At
        <4> QED
          BY <2>1, <2>2, <2>3, <3>1, <3>2, <3>4, <4>1, <4>2 DEF LateOK, SameNumber, Notes
      <3> QED
        BY <3>3, <3>4
    <2> QED
      BY <2>2, <2>4 DEF LateInv
  <1>4. CASE UNCHANGED vars
    BY <1>4 DEF vars, LateInv, LateOK, SameNumber, Exists
  <1>5. \A c \in Calls : CallStep(c) => Stepped(c)
    BY CallShape
  <1> QED
    BY <1>1, <1>2, <1>3, <1>4, <1>5 DEF Next, CallStep, Calls

(* With the helper, a write that dropped what was saved in its window is told
   that all is well only if that was under the number it had validated. *)
THEOREM DropsAreReported == Spec => []DroppedFileIsReported
  <1>1. Init => LateInv
    <2>1. ASSUME Init, NEW c \in Calls  PROVE LateOK(call[c])
      BY <2>1 DEF Init, NewCall, LateOK
    <2>2. Init => file.ino <= inodes /\ (Exists => file.ino # 0)
      <3>1. CASE Init /\ file = NoFile
        BY <3>1 DEF Init, NoFile, Exists
      <3>2. ASSUME NEW x \in Outside, Init, file = [ino |-> 1, text |-> <<x>>]
            PROVE  file.ino <= inodes /\ file.ino # 0
        BY <3>2 DEF Init
      <3> QED
        BY <3>1, <3>2 DEF Init
    <2> QED
      BY <2>1, <2>2 DEF LateInv
  <1>2. TypeOK /\ LockInv /\ LateInv /\ [Next]_vars => LateInv'
    BY NoteWriterAssumption, LateStep
  <1>3. LateInv => DroppedFileIsReported
    BY DEF LateInv, LateOK, SameNumber, DroppedFileIsReported
  <1> QED
    BY <1>1, <1>2, <1>3, WindowInvariant, PTL DEF Spec
----------------------------------------------------------------------------
(* A call that has published nothing, or was refused, is nowhere: neither in
   the note nor in what another call will put back.  A text is never twice in
   one of these.  What was published stays, or was erased from outside. *)
Nowhere(c) == call[c].at \in Unpublished \/ call[c].answer \in Refusals
Once(text) == \A c \in Calls, i, j \in DOMAIN text : text[i] = c /\ text[j] = c => i = j
Published(c) == call[c].at \in {"published", "confirming"} \/ call[c].answer = "saved"

AnswerInv ==
    /\ \A c \in Calls : Nowhere(c) => ~In(c, file.text) /\ \A d \in Calls : ~In(c, call[d].base)
    /\ Once(file.text) /\ \A d \in Calls : Once(call[d].base)
    /\ \A c \in Calls : Published(c) => In(c, file.text) \/ c \in erased

LEMMA OnceAppend ==
    ASSUME NEW s \in Seq(AllTexts), NEW y, Once(s), ~In(y, s) \/ y \notin Calls
    PROVE  Once(Append(s, y))
  <1>1. /\ DOMAIN s = 1..Len(s) /\ Len(s) \in Nat
        /\ DOMAIN Append(s, y) = 1..Len(s) + 1
        /\ \A i \in 1..Len(s) : Append(s, y)[i] = s[i]
        /\ Append(s, y)[Len(s) + 1] = y
    OBVIOUS
  <1>2. \A i \in 1..Len(s) + 1 : i \in 1..Len(s) \/ i = Len(s) + 1
    BY <1>1
  <1>3. ASSUME NEW c \in Calls, NEW i \in 1..Len(s) + 1, NEW j \in 1..Len(s) + 1,
               Append(s, y)[i] = c, Append(s, y)[j] = c
        PROVE  i = j
    <2>1. CASE y = c
      <3>1. \A k \in 1..Len(s) : s[k] # c
        BY <1>1, <2>1 DEF In
      <3> QED
        BY <1>1, <1>2, <1>3, <3>1
    <2>2. CASE y # c
      BY <1>1, <1>2, <1>3, <2>2 DEF Once
    <2> QED
      BY <2>1, <2>2
  <1> QED
    BY <1>1, <1>3 DEF Once

LEMMA EmptyText == Once(<<>>) /\ \A x : ~In(x, <<>>)
  BY DEF Once, In

LEMMA AnswerStep ==
    ASSUME NoteWriterAssumption, TypeOK, WindowInv, LateInv, AnswerInv, [Next]_vars
    PROVE  AnswerInv'
  <1>0. /\ file.text \in Seq(AllTexts)
        /\ \A c \in Calls : call[c] \in CallState /\ call[c].base \in Seq(AllTexts)
    BY DEF TypeOK, CallState, AllTexts
  <1>1. ASSUME NEW c \in Calls, Stepped(c)  PROVE AnswerInv'
    <2>1. PICK r : Writes1(c, r) /\ Shape(c, call[c], r)
      BY <1>1 DEF Stepped
    <2>2. \A d \in Calls : call'[d] = IF d = c THEN r ELSE call[d]
      BY <2>1, OtherCalls
    <2>3. PICK q : q = call[c] /\ q \in CallState /\ (q.answer # "none" => q.at = "done")
      BY <1>0 DEF LateInv, LateOK
    <2>4. erased' = erased
      BY <1>1 DEF Stepped
    \* a step that leaves the note alone
    <2>5. ASSUME file' = file, r.base \in {q.base, file.text, <<>>},
                 r.at \in Unpublished \/ r.answer \in Refusals => Nowhere(c),
                 r.at \in {"published", "confirming"} \/ r.answer = "saved" => Published(c)
          PROVE  AnswerInv'
      <3>1. \A d \in Calls : Nowhere(d)' => Nowhere(d)
        BY <2>2, <2>5 DEF Nowhere
      <3>2. \A d \in Calls : Published(d)' => Published(d)
        BY <2>2, <2>5 DEF Published
      <3>3. \A d \in Calls : \/ call'[d].base = file.text
                             \/ call'[d].base = <<>>
                             \/ call'[d].base = call[d].base
        BY <2>2, <2>3, <2>5
      <3>4. \A d \in Calls : Once(call'[d].base)
        BY <3>3, EmptyText DEF AnswerInv
      <3>5. \A d \in Calls : Nowhere(d)' =>
               ~In(d, file'.text) /\ \A e \in Calls : ~In(d, call'[e].base)
        BY <2>5, <3>1, <3>3, EmptyText DEF AnswerInv
      <3>6. \A d \in Calls : Published(d)' => In(d, file'.text) \/ d \in erased'
        BY <2>4, <2>5, <3>2 DEF AnswerInv
      <3> QED
        BY <2>5, <3>4, <3>5, <3>6 DEF AnswerInv, Once
    <2>6. CASE \/ Reads(c, q, r) \/ Queues(c, q, r) \/ Waits(c, q, r) \/ Enters(c, q, r)
               \/ Compares(c, q, r) \/ Rechecks(c, q, r)
      <3>1. /\ file' = file /\ r.base \in {q.base, file.text, <<>>} /\ q.at \in Unpublished
            /\ r.at \in Unpublished /\ r.answer \in {q.answer, "none"}
        BY <2>6 DEF Reads, Queues, Waits, Enters, Compares, Rechecks, Keeps, Unpublished
      <3>2. Nowhere(c)
        BY <2>3, <3>1 DEF Nowhere
      <3>3. r.at \notin {"published", "confirming"} /\ (r.answer = "saved" => Published(c))
        BY <2>3, <3>1 DEF Published, Unpublished
      <3> QED
        BY <2>5, <3>1, <3>2, <3>3
    <2>7. CASE Doubts(c, q, r)
      <3>1. file' = file /\ r.base = q.base /\ r.answer = q.answer /\ q.at = "published"
            /\ r.at = "confirming"
        BY <2>7 DEF Doubts, Keeps
      <3>2. r.answer = "none" /\ Published(c) /\ r.at \notin Unpublished
        BY <2>3, <3>1 DEF Published, Unpublished
      <3> QED
        BY <2>5, <3>1, <3>2, AnswersAre
    <2>8. CASE Settles(c, q, r)
      <3>1. CASE r.at = "queued"
        <4>1. /\ file' = file /\ r.base = q.base /\ r.answer = q.answer /\ q.at \in Unpublished
          BY <2>8, <3>1 DEF Settles, Keeps
        <4>2. Nowhere(c) /\ r.answer = "none"
          <5>1. q.at # "done"
            BY <4>1 DEF Unpublished
          <5> QED
            BY <2>3, <4>1, <5>1 DEF Nowhere
        <4> QED
          BY <2>5, <3>1, <4>1, <4>2
      <3>2. CASE r.at = "done"
        <4>1. /\ file' = file /\ r.base = <<>>
              /\ q.at \in Unpublished => r.answer # "saved"
              /\ q.at \notin Unpublished => r.answer \notin Refusals
              /\ q.at # "done"
          BY <2>8, <3>2 DEF Settles
        <4>2. q.at \in Unpublished \union {"published", "confirming"}
          BY <2>3, <4>1 DEF CallState, Stages, Unpublished
        <4>3. r.at \in Unpublished \/ r.answer \in Refusals => Nowhere(c)
          BY <2>3, <3>2, <4>1 DEF Nowhere, Unpublished
        <4>4. r.at \in {"published", "confirming"} \/ r.answer = "saved" => Published(c)
          BY <2>3, <3>2, <4>1, <4>2 DEF Published
        <4> QED
          BY <2>5, <4>1, <4>3, <4>4
      <3> QED
        BY <2>8, <3>1, <3>2 DEF Settles
    <2>9. CASE Publishes(c, q, r)
      <3>1. /\ file'.text = Append(q.base, c) /\ q.base \in Seq(AllTexts)
            /\ At(c, "publishing") /\ Nowhere(c)
            /\ r.base \in {q.base, <<>>}
            /\ r.at \notin Unpublished /\ r.answer \notin Refusals
        <4>1. file'.text = Append(q.base, c) /\ q.at = "publishing" /\ r.base \in {q.base, <<>>}
          BY <2>9 DEF Publishes, Keeps
        <4>2. q.base \in Seq(AllTexts) /\ At(c, "publishing") /\ Nowhere(c) /\ q.answer = "none"
          BY <2>3, <4>1 DEF CallState, At, Nowhere, Unpublished
        <4>3. r.at \notin Unpublished /\ r.answer \notin Refusals
          BY <2>9, <4>2, AnswersAre DEF Publishes, Keeps, Unpublished
        <4> QED
          BY <4>1, <4>2, <4>3
      <3>2. ~In(c, q.base) /\ Once(q.base)
        BY <2>3, <3>1 DEF AnswerInv
      <3>3. Once(file'.text)
        BY <3>1, <3>2, OnceAppend
      <3>4. ASSUME NEW d \in Calls, Nowhere(d)'
            PROVE  ~In(d, file'.text) /\ \A e \in Calls : ~In(d, call'[e].base)
        <4>1. d # c /\ Nowhere(d)
          BY <2>2, <3>1, <3>4 DEF Nowhere
        <4>2. ~In(d, q.base) /\ \A e \in Calls : ~In(d, call[e].base)
          BY <2>3, <4>1 DEF AnswerInv
        <4> QED
          BY <2>2, <3>1, <4>1, <4>2, InAppend, EmptyText
      <3>5. \A d \in Calls : Once(call'[d].base)
        BY <2>2, <3>1, <3>2, EmptyText DEF AnswerInv
      <3>6. ASSUME NEW d \in Calls, Published(d)'
            PROVE  In(d, file'.text) \/ d \in erased'
        <4>1. CASE d = c
          BY <3>1, <4>1, InAppend
        <4>2. CASE d # c
          <5>1. In(d, file.text) \/ d \in erased
            BY <2>2, <3>6, <4>2 DEF Published, AnswerInv
          <5>2. ASSUME In(d, file.text)  PROVE In(d, q.base)
            <6>1. In(d, q.base) \/ d \in q.late
              BY <2>3, <3>1, <5>2, TextsAreIn DEF WindowInv
            <6>2. d \notin q.late
              BY <2>3, NoteWriterAssumption DEF CallState, NoteWriterAssumption
            <6> QED
              BY <6>1, <6>2
          <5> QED
            BY <2>4, <3>1, <5>1, <5>2, InAppend
        <4> QED
          BY <4>1, <4>2
      <3> QED
        BY <3>3, <3>4, <3>5, <3>6 DEF AnswerInv, Once
    <2> QED
      BY <2>1, <2>3, <2>6, <2>7, <2>8, <2>9 DEF Shape
  <1>2. ASSUME OutsideStep
        PROVE  AnswerInv'
    <2>1. \A c \in Calls : call'[c].at = call[c].at /\ call'[c].base = call[c].base
                          /\ call'[c].answer = call[c].answer
      BY <1>2, OutsideShape
    <2>2. \A c \in Calls : (Nowhere(c)' <=> Nowhere(c)) /\ (Published(c)' <=> Published(c))
      BY <2>1 DEF Nowhere, Published
    <2>3. CASE OutsideDelete
      <3>1. file'.text = <<>> /\ erased' = erased \union Texts(file)
        BY <2>3 DEF OutsideDelete, NoFile
      <3>2. \A c \in Calls : Nowhere(c)' =>
              ~In(c, file'.text) /\ \A d \in Calls : ~In(c, call'[d].base)
        BY <2>1, <2>2, <3>1, EmptyText DEF AnswerInv
      <3>3. Once(file'.text) /\ \A d \in Calls : Once(call'[d].base)
        BY <2>1, <3>1, EmptyText DEF AnswerInv
      <3>4. \A c \in Calls : Published(c)' => In(c, file'.text) \/ c \in erased'
        BY <2>2, <3>1, TextsAreIn DEF AnswerInv
      <3> QED
        BY <3>2, <3>3, <3>4 DEF AnswerInv, Once
    <2>4. ASSUME NEW x \in Outside, NEW ino \in 1..(inodes + 1), OutsideSave(x, ino)
          PROVE  AnswerInv'
      <3>1. file'.text = Append(file.text, x) /\ erased' = erased /\ x \notin Calls
        BY <2>4 DEF OutsideSave, NoteWriterAssumption
      <3>2. \A c \in Calls : In(c, file'.text) <=> In(c, file.text)
        BY <1>0, <3>1, InAppend
      <3>3. Once(file'.text)
        BY <1>0, <3>1, OnceAppend DEF AnswerInv
      <3>4. \A c \in Calls : Nowhere(c)' =>
              ~In(c, file'.text) /\ \A d \in Calls : ~In(c, call'[d].base)
        BY <2>1, <2>2, <3>2 DEF AnswerInv
      <3>5. \A d \in Calls : Once(call'[d].base)
        BY <2>1 DEF AnswerInv
      <3>6. \A c \in Calls : Published(c)' => In(c, file'.text) \/ c \in erased'
        BY <2>2, <3>1, <3>2 DEF AnswerInv
      <3> QED
        BY <3>3, <3>4, <3>5, <3>6 DEF AnswerInv, Once
    <2> QED
      BY <1>2, <2>3, <2>4 DEF OutsideStep
  <1>3. CASE UNCHANGED vars
    BY <1>3 DEF vars, AnswerInv, Nowhere, Published, Once
  <1>4. \A c \in Calls : CallStep(c) => Stepped(c)
    BY CallShape
  <1> QED
    BY <1>1, <1>2, <1>3, <1>4 DEF Next, CallStep, Calls, OutsideStep

LEMMA OnceIsOneTime ==
    ASSUME TypeOK, Once(file.text), NEW c \in Calls
    PROVE  /\ Times(c) <= 1
           /\ In(c, file.text) => Times(c) = 1
           /\ ~In(c, file.text) => Times(c) = 0
  <1> DEFINE places == {i \in DOMAIN file.text : file.text[i] = c}
  <1>1. CASE In(c, file.text)
    <2>1. PICK i \in DOMAIN file.text : file.text[i] = c
      BY <1>1 DEF In
    <2>2. places = {i}
      BY <2>1 DEF Once
    <2>3. Times(c) = 1
      BY <2>2, FS_Singleton DEF Times
    <2> QED
      BY <1>1, <2>3
  <1>2. CASE ~In(c, file.text)
    <2>1. places = {}
      BY <1>2 DEF In
    <2>2. Times(c) = 0
      BY <2>1, FS_EmptySet DEF Times
    <2> QED
      BY <1>2, <2>2
  <1> QED
    BY <1>1, <1>2

(* What a call is told is what happened to the note. *)
THEOREM AnswersAreTrue == Spec => []AnswerIsTrue
  <1>1. Init => LateInv /\ AnswerInv
    <2>1. ASSUME Init, NEW c \in Calls
          PROVE  LateOK(call[c]) /\ call[c].base = <<>> /\ ~Published(c)
      BY <2>1 DEF Init, NewCall, LateOK, Published
    <2>2. Init => file.ino <= inodes /\ (Exists => file.ino # 0)
      <3>1. CASE Init /\ file = NoFile
        BY <3>1 DEF Init, NoFile, Exists
      <3>2. ASSUME NEW x \in Outside, Init, file = [ino |-> 1, text |-> <<x>>]
            PROVE  file.ino <= inodes /\ file.ino # 0
        BY <3>2 DEF Init
      <3> QED
        BY <3>1, <3>2 DEF Init
    <2>3. Init => Once(file.text) /\ \A c \in Calls : ~In(c, file.text)
      <3>1. CASE file = NoFile
        BY <3>1, EmptyText DEF NoFile
      <3>2. ASSUME NEW x \in Outside, file = [ino |-> 1, text |-> <<x>>]
            PROVE  Once(file.text) /\ \A c \in Calls : ~In(c, file.text)
        <4>1. DOMAIN <<x>> = 1..1 /\ <<x>>[1] = x /\ x \notin Calls
          BY NoteWriterAssumption DEF NoteWriterAssumption
        <4> QED
          BY <3>2, <4>1 DEF Once, In
      <3> QED
        BY <3>1, <3>2 DEF Init
    <2> QED
      BY <2>1, <2>2, <2>3, EmptyText DEF LateInv, AnswerInv
  <1>2. TypeOK /\ LockInv /\ WindowInv /\ LateInv /\ AnswerInv /\ [Next]_vars
          => LateInv' /\ AnswerInv'
    BY NoteWriterAssumption, LateStep, AnswerStep
  <1>3. TypeOK /\ AnswerInv => AnswerIsTrue
    <2>1. ASSUME TypeOK, AnswerInv, NEW c \in Calls
          PROVE  /\ Times(c) <= 1
                 /\ call[c].answer = "saved" => Times(c) = 1 \/ c \in erased
                 /\ call[c].answer \in Refusals => Times(c) = 0
      BY <2>1, OnceIsOneTime DEF AnswerInv, Nowhere, Published
    <2> QED
      BY <2>1 DEF AnswerIsTrue
  <1> QED
    BY <1>1, <1>2, <1>3, WindowInvariant, PTL DEF Spec
----------------------------------------------------------------------------
(* Who waits for whom.  The steps of one call once more, by what they do to its
   stage, its attempts and the two queues. *)
Rank(stage) ==
    CASE stage = "queued" -> 1
      [] stage = "confirming" -> 2
      [] stage = "published" -> 3
      [] stage = "publishing" -> 4
      [] stage = "staged" -> 5
      [] stage = "comparing" -> 6
      [] stage = "waiting" -> 7
      [] OTHER -> 0

SameTries(c) == call'[c].tries = call[c].tries

Drafts(c) ==
    /\ c \in Writes /\ At(c, "idle") /\ call'[c].at = "draft" /\ SameTries(c)
    /\ UNCHANGED <<appendQueue, locks>>

Asks(c) ==
    /\ c \in Appends /\ At(c, "idle") /\ call'[c].at = "queued" /\ SameTries(c)
    /\ appendQueue' = Append(appendQueue, c) /\ locks' = locks

Sends(c) ==
    /\ c \in Writes /\ At(c, "draft") /\ call'[c].at = "waiting" /\ SameTries(c)
    /\ locks' = Append(locks, c) /\ appendQueue' = appendQueue

Attempts(c) ==
    /\ At(c, "queued") /\ Serving(c)
    /\ call'[c].at = "waiting" /\ call'[c].tries = call[c].tries + 1
    /\ locks' = Append(locks, c) /\ appendQueue' = appendQueue

Works(c) ==
    /\ call[c].at \in {"waiting"} \union Working
    /\ At(c, "waiting") => HoldsLock(c)
    /\ call'[c].at \in Working /\ Rank(call'[c].at) < Rank(call[c].at) /\ SameTries(c)
    /\ UNCHANGED <<appendQueue, locks>>

Retries(c) ==
    /\ c \in Appends /\ call'[c].at = "queued"
    /\ SameTries(c) /\ call[c].tries < MaxAttempts /\ appendQueue' = appendQueue

Leaves(c) ==
    /\ call'[c].at = "done" /\ call'[c].tries = 0
    /\ appendQueue' = IF Serving(c) THEN Tail(appendQueue) ELSE appendQueue

Ends(c) ==
    /\ call[c].at \notin {"idle", "done"}
    /\ At(c, "draft") => c \in Writes
    /\ At(c, "queued") => Serving(c)
    /\ At(c, "waiting") => HoldsLock(c)
    /\ Unlock(c)
    /\ At(c, "queued") => Leaves(c)
    /\ Retries(c) \/ Leaves(c)

ClientTurn(c) == Drafts(c) \/ Asks(c) \/ Sends(c) \/ (At(c, "draft") /\ Ends(c))
ServerTurn(c) == Attempts(c) \/ Works(c) \/ (~At(c, "draft") /\ Ends(c))

LEMMA SettleTurn ==
    ASSUME TypeOK, NEW c \in Calls, NEW answer \in Answers, Settle(c, answer)
    PROVE  /\ Unlock(c)
           /\ Leaves(c) \/ (Retries(c) /\ Retryable(answer))
  <1>1. PICK q : q = call[c] /\ q \in CallState
    BY DEF TypeOK, CallState, AllTexts
  <1>2. Unlock(c)
    BY DEF Settle, Unlock
  <1>3. CASE c \in Appends /\ Retryable(answer) /\ call[c].tries < MaxAttempts
    <2>1. call' = [call EXCEPT ![c].at = "queued"] /\ appendQueue' = appendQueue
      BY <1>3 DEF Settle, Move
    <2>2. call'[c] = [q EXCEPT !.at = "queued"]
      BY <1>1, <2>1 DEF TypeOK
    <2>3. call'[c].at = "queued" /\ SameTries(c)
      BY <1>1, <2>2 DEF CallState, SameTries
    <2> QED
      BY <1>2, <1>3, <2>1, <2>3 DEF Retries
  <1>4. CASE ~(c \in Appends /\ Retryable(answer) /\ call[c].tries < MaxAttempts)
    <2>1. PICK n : n = NewCall /\ n \in CallState /\ n.tries = 0
      BY NewCallState DEF NewCall
    <2>2. PICK late, kept, final : /\ late = call[c].late /\ kept = call[c].kept
                                   /\ final = Final(c, answer)
      OBVIOUS
    <2> DEFINE r == [n EXCEPT !.at = "done", !.late = late, !.kept = kept, !.answer = final]
    <2>3. r.at = "done" /\ r.tries = 0
      BY <2>1 DEF CallState
    <2>4. /\ call' = [call EXCEPT ![c] = r]
          /\ appendQueue' = IF Serving(c) THEN Tail(appendQueue) ELSE appendQueue
      BY <1>4, <2>1, <2>2 DEF Settle
    <2> HIDE DEF r
    <2>5. call'[c] = r
      BY <2>4 DEF TypeOK
    <2> QED
      BY <1>2, <2>3, <2>4, <2>5 DEF Leaves
  <1> QED
    BY <1>3, <1>4, <1>2

LEMMA MoveTurn ==
    ASSUME TypeOK, NEW c \in Calls, NEW stage, Move(c, stage)
    PROVE  call'[c].at = stage /\ SameTries(c)
  <1>1. PICK q : q = call[c] /\ q \in CallState
    BY DEF TypeOK, CallState, AllTexts
  <1>2. call'[c] = [q EXCEPT !.at = stage]
    BY <1>1 DEF TypeOK, Move
  <1> QED
    BY <1>1, <1>2 DEF CallState, SameTries

LEMMA ClientTurns ==
    ASSUME NoteWriterAssumption, TypeOK, NEW c \in Calls,
           \/ c \in Writes /\ (ReadNote(c) \/ CallWrite(c))
           \/ c \in Appends /\ CallAppend(c)
    PROVE  ClientTurn(c)
  <1>1. CASE c \in Writes /\ ReadNote(c)
    <2>1. PICK q, text : q = call[c] /\ q \in CallState /\ text = file.text
      BY DEF TypeOK, CallState, AllTexts
    <2>2. call'[c] = [q EXCEPT !.at = "draft", !.base = text]
      BY <1>1, <2>1 DEF TypeOK, ReadNote
    <2>3. call'[c].at = "draft" /\ SameTries(c)
      BY <2>1, <2>2 DEF CallState, SameTries
    <2> QED
      BY <1>1, <2>3 DEF ReadNote, Drafts, ClientTurn
  <1>2. CASE c \in Writes /\ CallWrite(c)
    <2>1. CASE Settle(c, "too_large")
      <3>1. Unlock(c) /\ (Leaves(c) \/ Retries(c))
        BY <2>1, AnswersAre, SettleTurn
      <3> QED
        BY <1>2, <3>1 DEF CallWrite, At, Ends, ClientTurn
    <2>2. CASE Move(c, "waiting") /\ locks' = Append(locks, c) /\ UNCHANGED appendQueue
      BY <1>2, <2>2, MoveTurn DEF CallWrite, Sends, ClientTurn
    <2> QED
      BY <1>2, <2>1, <2>2 DEF CallWrite
  <1>3. CASE c \in Appends /\ CallAppend(c)
    BY <1>3, MoveTurn DEF CallAppend, Asks, ClientTurn
  <1> QED
    BY <1>1, <1>2, <1>3

LEMMA ServerTurns ==
    ASSUME NoteWriterAssumption, TypeOK, NEW c \in Calls, Serve(c)
    PROVE  ServerTurn(c)
  <1>1. PICK q : q = call[c] /\ q \in CallState
    BY DEF TypeOK, CallState, AllTexts
  \* the end of an attempt
  <1>2. ASSUME NEW answer \in Answers, Settle(c, answer),
               call[c].at \notin {"idle", "draft", "done"},
               At(c, "queued") => Serving(c) /\ ~Retryable(answer),
               At(c, "waiting") => HoldsLock(c)
        PROVE  ServerTurn(c)
    BY <1>2, SettleTurn DEF Ends, ServerTurn, At
  \* a step ahead
  <1>3. ASSUME NEW stage \in Working, call'[c].at = stage, SameTries(c),
               call[c].at \in {"waiting"} \union Working, At(c, "waiting") => HoldsLock(c),
               Rank(stage) < Rank(call[c].at), UNCHANGED <<appendQueue, locks>>
        PROVE  ServerTurn(c)
    BY <1>3 DEF Works, ServerTurn
  <1>4. CASE AppendRound(c)
    <2>1. CASE Settle(c, "too_large")
      BY <1>2, <1>4, <2>1, AnswersAre DEF AppendRound, At, Retryable
    <2>2. ASSUME call' = [call EXCEPT ![c] = [NewCall EXCEPT !.at = "waiting", !.base = file.text,
                                                             !.tries = call[c].tries + 1]],
                 locks' = Append(locks, c), UNCHANGED appendQueue
          PROVE  ServerTurn(c)
      <3>1. PICK n, text, tries : /\ n = NewCall /\ n \in CallState
                                  /\ text = file.text /\ tries = call[c].tries + 1
        BY NewCallState
      <3>2. call'[c] = [n EXCEPT !.at = "waiting", !.base = text, !.tries = tries]
        BY <2>2, <3>1 DEF TypeOK
      <3>3. call'[c].at = "waiting" /\ call'[c].tries = call[c].tries + 1
        BY <3>1, <3>2 DEF CallState
      <3> QED
        BY <1>4, <2>2, <3>3 DEF AppendRound, Attempts, ServerTurn
    <2> QED
      BY <1>4, <2>1, <2>2 DEF AppendRound
  <1>5. CASE Enter(c)
    <2>1. CASE Settle(c, Refusal(c))
      <3>1. Refusal(c) \in Answers
        BY AnswersAre DEF Refusal
      <3> QED
        BY <1>2, <1>5, <2>1, <3>1 DEF Enter, At
    <2>2. ASSUME call' = [call EXCEPT
                   ![c].first = file.ino,
                   ![c].at = IF ~Exists THEN "publishing"
                             ELSE IF mode = "path" THEN "staged" ELSE "comparing"],
                 UNCHANGED <<appendQueue, locks>>
          PROVE  ServerTurn(c)
      <3>1. PICK stage, ino : /\ stage \in {"publishing", "staged", "comparing"}
                              /\ ino = file.ino
                              /\ stage = IF ~Exists THEN "publishing"
                                         ELSE IF mode = "path" THEN "staged" ELSE "comparing"
        OBVIOUS
      <3>2. call'[c] = [q EXCEPT !.first = ino, !.at = stage]
        BY <1>1, <2>2, <3>1 DEF TypeOK
      <3>3. call'[c].at = stage /\ SameTries(c)
        BY <1>1, <3>2 DEF CallState, SameTries
      <3> QED
        BY <1>3, <1>5, <2>2, <3>1, <3>3 DEF Enter, At, Working, Rank
    <2> QED
      BY <1>5, <2>1, <2>2 DEF Enter
  <1>6. CASE Compare(c)
    <2>1. CASE Settle(c, Refusal(c))
      <3>1. Refusal(c) \in Answers
        BY AnswersAre DEF Refusal
      <3> QED
        BY <1>2, <1>6, <2>1, <3>1 DEF Compare, At
    <2>2. ASSUME call' = [call EXCEPT ![c].at = "staged", ![c].first = file.ino],
                 UNCHANGED <<appendQueue, locks>>
          PROVE  ServerTurn(c)
      <3>1. PICK ino : ino = file.ino
        OBVIOUS
      <3>2. call'[c] = [q EXCEPT !.at = "staged", !.first = ino]
        BY <1>1, <2>2, <3>1 DEF TypeOK
      <3>3. call'[c].at = "staged" /\ SameTries(c)
        BY <1>1, <3>2 DEF CallState, SameTries
      <3> QED
        BY <1>3, <1>6, <2>2, <3>3 DEF Compare, At, Working, Rank
    <2> QED
      BY <1>6, <2>1, <2>2 DEF Compare
  <1>7. CASE Recheck(c)
    <2>1. CASE Settle(c, "version_conflict")
      BY <1>2, <1>7, <2>1, AnswersAre DEF Recheck, At
    <2>2. CASE Move(c, "publishing") /\ UNCHANGED <<appendQueue, locks>>
      BY <1>3, <1>7, <2>2, MoveTurn DEF Recheck, At, Working, Rank
    <2> QED
      BY <1>7, <2>1, <2>2 DEF Recheck
  <1>8. CASE PublishNew(c)
    <2>1. CASE Settle(c, "already_exists") \/ Settle(c, "saved")
      BY <1>2, <1>8, <2>1, AnswersAre DEF PublishNew, At
    <2>2. ASSUME call' = [call EXCEPT ![c].at = "published", ![c].own = inodes + 1],
                 UNCHANGED <<appendQueue, locks>>
          PROVE  ServerTurn(c)
      <3>1. PICK ino : ino = inodes + 1
        OBVIOUS
      <3>2. call'[c] = [q EXCEPT !.at = "published", !.own = ino]
        BY <1>1, <2>2, <3>1 DEF TypeOK
      <3>3. call'[c].at = "published" /\ SameTries(c)
        BY <1>1, <3>2 DEF CallState, SameTries
      <3> QED
        BY <1>3, <1>8, <2>2, <3>3 DEF PublishNew, At, Working, Rank
    <2> QED
      BY <1>8, <2>1, <2>2 DEF PublishNew
  <1>9. CASE RenameOver(c)
    BY <1>2, <1>9, AnswersAre DEF RenameOver, At
  <1>10. CASE Exchange(c)
    <2>1. CASE Settle(c, "io_error")
      BY <1>2, <1>10, <2>1, AnswersAre DEF Exchange, At
    <2>2. ASSUME call' = [call EXCEPT ![c].at = "published", ![c].own = inodes + 1,
                            ![c].displaced = IF mode = "virtiofs" THEN 0 ELSE file.ino],
                 UNCHANGED <<appendQueue, locks>>
          PROVE  ServerTurn(c)
      <3>1. PICK own, old : /\ own = inodes + 1
                            /\ old = IF mode = "virtiofs" THEN 0 ELSE file.ino
        OBVIOUS
      <3>2. call'[c] = [q EXCEPT !.at = "published", !.own = own, !.displaced = old]
        BY <1>1, <2>2, <3>1 DEF TypeOK
      <3>3. call'[c].at = "published" /\ SameTries(c)
        BY <1>1, <3>2 DEF CallState, SameTries
      <3> QED
        BY <1>3, <1>10, <2>2, <3>3 DEF Exchange, At, Working, Rank
    <2> QED
      BY <1>10, <2>1, <2>2 DEF Exchange
  <1>11. CASE Verify(c)
    <2>1. CASE Move(c, "confirming") /\ UNCHANGED <<appendQueue, locks>>
      BY <1>3, <1>11, <2>1, MoveTurn DEF Verify, At, Working, Rank
    <2>2. CASE Settle(c, "saved") \/ Settle(c, "published_unverified")
      BY <1>2, <1>11, <2>2, AnswersAre DEF Verify, At
    <2> QED
      BY <1>11, <2>1, <2>2 DEF Verify
  <1>12. CASE Confirm(c)
    BY <1>2, <1>12, AnswersAre DEF Confirm, At
  <1>13. CASE Fails(c)
    <2>1. /\ ~Retryable("io_error") /\ ~Retryable("published_unverified")
          /\ {"io_error", "published_unverified"} \subseteq Answers
      BY AnswersAre DEF Retryable
    <2>2. call[c].at \notin {"idle", "draft", "done"}
      BY <1>13 DEF Fails, OnDisk, At
    <2>3. (At(c, "queued") => Serving(c)) /\ (At(c, "waiting") => HoldsLock(c))
      BY <1>13 DEF Fails, OnDisk, At
    <2> QED
      BY <1>2, <1>13, <2>1, <2>2, <2>3 DEF Fails
  <1>14. CASE Unsupported(c)
    BY <1>2, <1>14, AnswersAre DEF Unsupported, At, Retryable
  <1> QED
    BY <1>4, <1>5, <1>6, <1>7, <1>8, <1>9, <1>10, <1>11, <1>12, <1>13, <1>14 DEF Serve

(* A call that was made is in the queues it stands in, once, and only the head
   of the appends has begun. *)
Made == {"queued", "waiting"} \union Working

WaitInv ==
    /\ \A i, j \in DOMAIN appendQueue : appendQueue[i] = appendQueue[j] => i = j
    /\ \A i \in DOMAIN appendQueue :
         /\ call[appendQueue[i]].at \in Made
         /\ i # 1 => call[appendQueue[i]].at = "queued"
    /\ \A c \in Appends :
         call[c].at \in Made => \E i \in DOMAIN appendQueue : appendQueue[i] = c
    /\ \A c \in Calls : call[c].at = "waiting" => \E i \in DOMAIN locks : locks[i] = c
    /\ \A c \in Writes : call[c].at # "queued"
    /\ \A c \in Appends : call[c].at # "draft"

TriesInv == \A c \in Calls :
    /\ call[c].tries <= MaxAttempts
    /\ call[c].at \in {"idle", "queued"} => call[c].tries < MaxAttempts

LEMMA TailFacts ==
    ASSUME NEW S, NEW s \in Seq(S), s # <<>>
    PROVE  /\ s[1] = Head(s) /\ 1 \in DOMAIN s
           /\ \A i \in DOMAIN Tail(s) : i + 1 \in DOMAIN s /\ i + 1 # 1 /\ Tail(s)[i] = s[i + 1]
           /\ \A j \in DOMAIN s : j # 1 => j - 1 \in DOMAIN Tail(s) /\ Tail(s)[j - 1] = s[j]
  OBVIOUS

LEMMA AppendFacts ==
    ASSUME NEW S, NEW s \in Seq(S), NEW x \in S
    PROVE  \A i \in DOMAIN Append(s, x) :
             \/ i \in DOMAIN s /\ Append(s, x)[i] = s[i]
             \/ i = Len(s) + 1 /\ Append(s, x)[i] = x
  OBVIOUS

LEMMA AppendHas ==
    ASSUME NEW S, NEW s \in Seq(S), NEW x \in S
    PROVE  /\ \A i \in DOMAIN s : i \in DOMAIN Append(s, x) /\ Append(s, x)[i] = s[i]
           /\ \E i \in DOMAIN Append(s, x) : Append(s, x)[i] = x
  <1>1. Len(s) + 1 \in DOMAIN Append(s, x) /\ Append(s, x)[Len(s) + 1] = x
    OBVIOUS
  <1> QED
    BY <1>1

LEMMA WaitStep ==
    ASSUME NoteWriterAssumption, TypeOK, LockInv, WaitInv, NEW c \in Calls, CallStep(c)
    PROVE  WaitInv'
  <1>0. /\ locks \in Seq(Calls) /\ appendQueue \in Seq(Appends)
        /\ \A i \in DOMAIN appendQueue : appendQueue[i] \in Appends
        /\ Appends \intersect Writes = {} /\ Calls = Appends \union Writes
    BY DEF TypeOK, NoteWriterAssumption, Calls
  <1>1. \A d \in Calls \ {c} : call'[d] = call[d]
    BY CallShape, OtherCalls DEF Stepped
  <1>2. ClientTurn(c) \/ ServerTurn(c)
    BY ClientTurns, ServerTurns DEF CallStep
  <1>3. c \in Writes => \A i \in DOMAIN appendQueue : appendQueue[i] # c
    BY <1>0
  <1>4. Serving(c) => appendQueue # <<>> /\ appendQueue[1] = c /\ 1 \in DOMAIN appendQueue /\ c \in Appends
    BY <1>0, TailFacts DEF Serving
  \* a call that stays where it is in the queue of appends
  <1>5. ASSUME appendQueue' = appendQueue,
               \A d \in Calls : call'[d].at = "waiting" => \E i \in DOMAIN locks' : locks'[i] = d,
               c \in Writes => call'[c].at # "queued",
               c \in Appends =>
                 /\ call'[c].at # "draft"
                 /\ call[c].at \in Made
                 /\ call'[c].at = "queued" \/ (Serving(c) /\ call'[c].at \in Made)
        PROVE  WaitInv'
    <2>1. ASSUME NEW i \in DOMAIN appendQueue
          PROVE  /\ call'[appendQueue[i]].at \in Made
                 /\ i # 1 => call'[appendQueue[i]].at = "queued"
      <3>1. CASE appendQueue[i] = c
        <4>1. c \in Appends
          BY <1>0, <3>1
        <4>2. call'[c].at \in Made
          BY <1>5, <4>1 DEF Made
        <4>3. i # 1 => call'[c].at = "queued"
          <5>1. Serving(c) => i = 1
            BY <1>4, <3>1 DEF WaitInv
          <5> QED
            BY <1>5, <4>1, <5>1
        <4> QED
          BY <3>1, <4>2, <4>3
      <3>2. CASE appendQueue[i] # c
        BY <1>0, <1>1, <3>2 DEF WaitInv
      <3> QED
        BY <3>1, <3>2
    <2>2. ASSUME NEW d \in Appends, call'[d].at \in Made
          PROVE  \E i \in DOMAIN appendQueue : appendQueue[i] = d
      BY <1>0, <1>1, <1>5, <2>2 DEF WaitInv
    <2>3. \A d \in Writes : call'[d].at # "queued"
      BY <1>0, <1>1, <1>5 DEF WaitInv
    <2>4. \A d \in Appends : call'[d].at # "draft"
      BY <1>0, <1>1, <1>5 DEF WaitInv
    <2> QED
      BY <1>5, <2>1, <2>2, <2>3, <2>4 DEF WaitInv
  <1>6. ASSUME locks' = locks, call'[c].at # "waiting"
        PROVE  \A d \in Calls : call'[d].at = "waiting" => \E i \in DOMAIN locks' : locks'[i] = d
    BY <1>1, <1>6 DEF WaitInv
  <1>7. ASSUME locks' = Append(locks, c)
        PROVE  \A d \in Calls : call'[d].at = "waiting" => \E i \in DOMAIN locks' : locks'[i] = d
    <2>1. /\ \A i \in DOMAIN locks : i \in DOMAIN locks' /\ locks'[i] = locks[i]
          /\ \E i \in DOMAIN locks' : locks'[i] = c
      BY <1>0, <1>7, AppendHas
    <2> QED
      BY <1>1, <2>1 DEF WaitInv
  <1>8. ASSUME Unlock(c), call'[c].at # "waiting"
        PROVE  \A d \in Calls : call'[d].at = "waiting" => \E i \in DOMAIN locks' : locks'[i] = d
    <2>1. CASE ~HoldsLock(c)
      BY <1>6, <1>8, <2>1 DEF Unlock
    <2>2. CASE HoldsLock(c)
      <3>1. locks # <<>> /\ locks' = Tail(locks) /\ locks[1] = c
        BY <1>0, <1>8, <2>2, TailFacts DEF HoldsLock, Unlock
      <3>2. ASSUME NEW d \in Calls, call'[d].at = "waiting"
            PROVE  \E i \in DOMAIN locks' : locks'[i] = d
        <4>1. PICK i \in DOMAIN locks : locks[i] = d /\ d # c
          BY <1>1, <1>8, <3>2 DEF WaitInv
        <4>2. i - 1 \in DOMAIN locks' /\ locks'[i - 1] = d
          BY <1>0, <3>1, <4>1, TailFacts
        <4> QED
          BY <4>2
      <3> QED
        BY <3>2
    <2> QED
      BY <2>1, <2>2
  \* an append that has begun is the head
  <1>9. c \in Appends /\ call[c].at \in {"waiting"} \union Working => Serving(c)
    <2>1. ASSUME c \in Appends, call[c].at \in {"waiting"} \union Working  PROVE Serving(c)
      <3>1. PICK i \in DOMAIN appendQueue : appendQueue[i] = c
        BY <2>1 DEF WaitInv, Made
      <3>2. i = 1
        BY <2>1, <3>1 DEF WaitInv, Working
      <3> QED
        BY <1>0, <3>1, <3>2 DEF Serving
    <2> QED
      BY <2>1
  <1>10. CASE Drafts(c)
    BY <1>0, <1>5, <1>6, <1>10 DEF Drafts
  <1>11. CASE Asks(c)
    <2>1. \A i \in DOMAIN appendQueue : appendQueue[i] # c
      BY <1>11 DEF Asks, At, WaitInv, Made, Working
    <2>2. ASSUME NEW i \in DOMAIN appendQueue'
          PROVE  \/ i \in DOMAIN appendQueue /\ appendQueue'[i] = appendQueue[i]
                 \/ i = Len(appendQueue) + 1 /\ appendQueue'[i] = c
      BY <1>0, <1>11, AppendFacts DEF Asks
    <2>3. \A i, j \in DOMAIN appendQueue' : appendQueue'[i] = appendQueue'[j] => i = j
      BY <2>1, <2>2 DEF WaitInv
    <2>4. \A i \in DOMAIN appendQueue' :
             /\ call'[appendQueue'[i]].at \in Made
             /\ i # 1 => call'[appendQueue'[i]].at = "queued"
      BY <1>0, <1>1, <1>11, <2>1, <2>2 DEF WaitInv, Asks, Made
    <2>5. ASSUME NEW d \in Appends, call'[d].at \in Made
          PROVE  \E i \in DOMAIN appendQueue' : appendQueue'[i] = d
      <3>1. CASE d = c
        BY <1>0, <1>11, <3>1, AppendHas DEF Asks
      <3>2. CASE d # c
        <4>1. PICK i \in DOMAIN appendQueue : appendQueue[i] = d
          BY <1>0, <1>1, <2>5, <3>2 DEF WaitInv
        <4>2. i \in DOMAIN appendQueue' /\ appendQueue'[i] = d
          BY <1>0, <1>11, <4>1, AppendHas DEF Asks
        <4> QED
          BY <4>2
      <3> QED
        BY <3>1, <3>2
    <2>6. \A d \in Calls : call'[d].at = "waiting" => \E i \in DOMAIN locks' : locks'[i] = d
      BY <1>6, <1>11 DEF Asks
    <2>7. c \in Appends /\ c \notin Writes /\ call'[c].at = "queued"
      BY <1>0, <1>11 DEF Asks
    <2>8. \A d \in Writes : call'[d].at # "queued"
      BY <1>0, <1>1, <2>7 DEF WaitInv
    <2>9. \A d \in Appends : call'[d].at # "draft"
      BY <1>0, <1>1, <2>7 DEF WaitInv
    <2> QED
      BY <2>3, <2>4, <2>5, <2>6, <2>8, <2>9 DEF WaitInv
  <1>12. CASE Sends(c)
    BY <1>0, <1>5, <1>7, <1>12 DEF Sends
  <1>13. CASE Attempts(c)
    <2>1. c \in Appends /\ call[c].at \in Made /\ call'[c].at \in Made /\ call'[c].at = "waiting"
      BY <1>4, <1>13 DEF Attempts, At, Made
    <2> QED
      BY <1>0, <1>5, <1>7, <1>13, <2>1 DEF Attempts
  <1>14. CASE Works(c)
    <2>1. /\ call'[c].at \notin {"waiting", "queued", "draft"}
          /\ call[c].at \in Made /\ call'[c].at \in Made
      BY <1>14 DEF Works, Working, Made
    <2> QED
      BY <1>5, <1>6, <1>9, <1>14, <2>1 DEF Works
  <1>15. CASE Ends(c)
    <2>1. c \in Appends => call[c].at \in Made
      <3>1. call[c].at \in Stages
        BY DEF TypeOK
      <3> QED
        BY <1>0, <1>15, <3>1 DEF Ends, Stages, Made, Working, At
    <2>2. CASE Retries(c)
      BY <1>0, <1>5, <1>8, <1>15, <2>1, <2>2 DEF Ends, Retries
    <2>3. CASE Leaves(c) /\ c \in Writes
      <3>1. ~Serving(c)
        BY <1>0, <1>4, <2>3
      <3> QED
        BY <1>0, <1>5, <1>8, <1>15, <2>3, <3>1 DEF Ends, Leaves
    <2>4. CASE Leaves(c) /\ c \in Appends
      <3>1. Serving(c)
        BY <1>9, <1>15, <2>1, <2>4 DEF Ends, At, Made
      <3>2. /\ appendQueue' = Tail(appendQueue) /\ appendQueue # <<>> /\ appendQueue[1] = c
            /\ call'[c].at = "done"
        BY <1>4, <2>4, <3>1 DEF Leaves
      <3>3. /\ \A i \in DOMAIN appendQueue' :
                 /\ i + 1 \in DOMAIN appendQueue /\ i + 1 # 1
                 /\ appendQueue'[i] = appendQueue[i + 1] /\ i \in Nat
            /\ \A j \in DOMAIN appendQueue :
                 j # 1 => j - 1 \in DOMAIN appendQueue' /\ appendQueue'[j - 1] = appendQueue[j]
        BY <1>0, <3>2, TailFacts
      <3>4. \A i \in DOMAIN appendQueue' : appendQueue'[i] # c /\ appendQueue'[i] \in Appends
        BY <1>0, <1>4, <3>1, <3>2, <3>3 DEF WaitInv
      <3>5. \A i, j \in DOMAIN appendQueue' : appendQueue'[i] = appendQueue'[j] => i = j
        BY <3>3 DEF WaitInv
      <3>6. \A i \in DOMAIN appendQueue' : call'[appendQueue'[i]].at = "queued"
        BY <1>0, <1>1, <3>3, <3>4 DEF WaitInv
      <3>7. ASSUME NEW d \in Appends, call'[d].at \in Made
            PROVE  \E i \in DOMAIN appendQueue' : appendQueue'[i] = d
        <4>1. d # c
          BY <3>2, <3>7 DEF Made, Working
        <4>2. PICK j \in DOMAIN appendQueue : appendQueue[j] = d /\ j # 1
          BY <1>0, <1>1, <3>2, <3>7, <4>1 DEF WaitInv
        <4> QED
          BY <3>3, <4>2
      <3>8. \A d \in Calls : call'[d].at = "waiting" => \E i \in DOMAIN locks' : locks'[i] = d
        BY <1>8, <1>15, <3>2 DEF Ends
      <3>9. (\A d \in Writes : call'[d].at # "queued") /\ (\A d \in Appends : call'[d].at # "draft")
        BY <1>0, <1>1, <3>2 DEF WaitInv
      <3> QED
        BY <3>5, <3>6, <3>7, <3>8, <3>9 DEF WaitInv, Made
    <2> QED
      BY <1>0, <1>15, <2>2, <2>3, <2>4 DEF Ends
  <1> QED
    BY <1>2, <1>10, <1>11, <1>12, <1>13, <1>14, <1>15 DEF ClientTurn, ServerTurn

LEMMA TriesStep ==
    ASSUME NoteWriterAssumption, TypeOK, TriesInv, NEW c \in Calls, CallStep(c)
    PROVE  TriesInv'
  <1>1. \A d \in Calls \ {c} : call'[d] = call[d]
    BY CallShape, OtherCalls DEF Stepped
  <1>2. ClientTurn(c) \/ ServerTurn(c)
    BY ClientTurns, ServerTurns DEF CallStep
  <1>3. call[c].tries \in Nat /\ MaxAttempts \in Nat \ {0}
    BY DEF TypeOK, NoteWriterAssumption
  <1>4. /\ call'[c].tries <= MaxAttempts
        /\ call'[c].at \in {"idle", "queued"} => call'[c].tries < MaxAttempts
    <2>1. CASE Asks(c)
      BY <1>3, <2>1 DEF Asks, At, SameTries, TriesInv
    <2>2. CASE Drafts(c) \/ Sends(c) \/ Works(c)
      BY <1>3, <2>2 DEF Drafts, Sends, Works, Working, SameTries, TriesInv
    <2>3. CASE Attempts(c)
      BY <1>3, <2>3 DEF Attempts, At, TriesInv
    <2>4. CASE Ends(c)
      BY <1>3, <2>4 DEF Ends, Retries, Leaves, SameTries, TriesInv
    <2> QED
      BY <1>2, <2>1, <2>2, <2>3, <2>4 DEF ClientTurn, ServerTurn
  <1> QED
    BY <1>1, <1>4 DEF TriesInv

LEMMA OutsideTries ==
    ASSUME TypeOK, OutsideStep
    PROVE  \A c \in Calls : call'[c].tries = call[c].tries
  <1>1. ASSUME NEW c \in Calls  PROVE \E q : q = call[c] /\ q \in CallState
    BY <1>1 DEF TypeOK, CallState, AllTexts
  <1>2. ASSUME NEW x \in Outside, NEW ino \in 1..(inodes + 1), OutsideSave(x, ino), NEW c \in Calls
        PROVE  call'[c].tries = call[c].tries
    <2>1. PICK q : q = call[c] /\ q \in CallState
      BY <1>1
    <2>2. PICK late, kept : late = q.late \union {x} /\ kept = (ino = q.first)
      OBVIOUS
    <2>3. call'[c] = IF At(c, "publishing") THEN [q EXCEPT !.late = late, !.kept = kept] ELSE q
      BY <1>2, <2>1, <2>2 DEF OutsideSave
    <2> QED
      BY <2>1, <2>3 DEF CallState
  <1>3. ASSUME OutsideDelete, NEW c \in Calls  PROVE call'[c].tries = call[c].tries
    <2>1. PICK q : q = call[c] /\ q \in CallState
      BY <1>1
    <2>2. call'[c] = IF At(c, "publishing") THEN [q EXCEPT !.late = {}] ELSE q
      BY <1>3, <2>1 DEF OutsideDelete
    <2> QED
      BY <2>1, <2>2 DEF CallState
  <1> QED
    BY <1>2, <1>3 DEF OutsideStep

LEMMA WaitInvariant == Spec => [](TypeOK /\ LockInv /\ WaitInv /\ TriesInv)
  <1>1. Init => WaitInv /\ TriesInv
    <2>1. NewCall.at = "idle" /\ NewCall.tries = 0
      BY DEF NewCall
    <2> QED
      BY <2>1, NoteWriterAssumption
         DEF Init, WaitInv, TriesInv, Made, Working, NoteWriterAssumption, Calls
  <1>2. TypeOK /\ LockInv /\ WaitInv /\ TriesInv /\ [Next]_vars => WaitInv' /\ TriesInv'
    <2> SUFFICES ASSUME TypeOK, LockInv, WaitInv, TriesInv, [Next]_vars
                 PROVE  WaitInv' /\ TriesInv'
      OBVIOUS
    <2>1. ASSUME NEW c \in Calls, CallStep(c)  PROVE WaitInv' /\ TriesInv'
      BY <2>1, NoteWriterAssumption, WaitStep, TriesStep
    <2>2. ASSUME OutsideStep
          PROVE  WaitInv' /\ TriesInv'
      <3>1. /\ UNCHANGED <<appendQueue, locks>>
            /\ \A c \in Calls : call'[c].at = call[c].at
        BY <2>2, OutsideShape
      <3>2. \A c \in Calls : call'[c].tries = call[c].tries
        BY <2>2, OutsideTries
      <3>3. \A i \in DOMAIN appendQueue : appendQueue[i] \in Calls
        BY DEF TypeOK, Calls
      <3> QED
        BY <3>1, <3>2, <3>3 DEF WaitInv, TriesInv, Calls
    <2>3. CASE UNCHANGED vars
      BY <2>3 DEF vars, WaitInv, TriesInv
    <2> QED
      BY <2>1, <2>2, <2>3 DEF Next, CallStep, Calls, OutsideStep
  <1> QED
    BY <1>1, <1>2, WindowInvariant, PTL DEF Spec

(***************************************************************************)
(* No call waits for a call that will never move, whoever fails, hangs or  *)
(* retries: the head of the appends is at work or waits for the lock, and  *)
(* the head of the lock is at work.  (OnDisk says that the server has a    *)
(* step to take for the call.)                                             *)
(***************************************************************************)
EveryWaitHasAServer ==
    /\ \A c \in Calls : At(c, "queued") =>
         /\ appendQueue # <<>>
         /\ OnDisk(Head(appendQueue)) \/ At(Head(appendQueue), "waiting")
    /\ \A c \in Calls : At(c, "waiting") => locks # <<>> /\ OnDisk(Head(locks))

(* Neither of the two queues can be stuck behind its head. *)
THEOREM NobodyWaitsForNobody == Spec => []EveryWaitHasAServer
  <1>1. TypeOK /\ LockInv /\ WaitInv => EveryWaitHasAServer
    <2> SUFFICES ASSUME TypeOK, LockInv, WaitInv  PROVE EveryWaitHasAServer
      OBVIOUS
    <2>0. locks \in Seq(Calls) /\ appendQueue \in Seq(Appends)
      BY DEF TypeOK
    <2>1. ASSUME NEW c \in Calls, At(c, "queued")
          PROVE  /\ appendQueue # <<>>
                 /\ OnDisk(Head(appendQueue)) \/ At(Head(appendQueue), "waiting")
      <3>1. c \in Appends
        BY <2>1 DEF WaitInv, At, Calls
      <3>2. PICK i \in DOMAIN appendQueue : appendQueue[i] = c
        BY <2>1, <3>1 DEF WaitInv, At, Made
      <3>3. appendQueue # <<>> /\ Head(appendQueue) = appendQueue[1] /\ 1 \in DOMAIN appendQueue
        BY <2>0, <3>2
      <3>4. call[Head(appendQueue)].at \in Made
        BY <3>3 DEF WaitInv
      <3> QED
        BY <3>3, <3>4 DEF OnDisk, At, Serving, Made, Working
    <2>2. ASSUME NEW c \in Calls, At(c, "waiting")
          PROVE  locks # <<>> /\ OnDisk(Head(locks))
      <3>1. PICK i \in DOMAIN locks : locks[i] = c
        BY <2>2 DEF WaitInv, At
      <3>2. locks # <<>> /\ Head(locks) = locks[1] /\ 1 \in DOMAIN locks
        BY <2>0, <3>1
      <3>3. call[Head(locks)].at \in {"waiting"} \union Working
        BY <3>2 DEF LockInv
      <3> QED
        BY <3>2, <3>3 DEF OnDisk, At, HoldsLock, Working
    <2> QED
      BY <2>1, <2>2 DEF EveryWaitHasAServer
  <1> QED
    BY <1>1, WaitInvariant, PTL

(* The steps a call is away from its answer, its attempts included. *)
Effort(c) ==
    IF At(c, "done") THEN 0 ELSE 7 * (MaxAttempts - call[c].tries) + Rank(call[c].at)

(***************************************************************************)
(* Every step the server takes for a call brings it closer to its answer,  *)
(* a retry too, and nothing anybody else does takes it away again.  With   *)
(* EveryWaitHasAServer this is EveryCallIsAnswered, less the fairness.     *)
(***************************************************************************)
CallsAdvance ==
    \A c \in Calls :
      /\ Effort(c) \in Nat
      /\ Serve(c) => Effort(c)' < Effort(c)
      /\ Effort(c)' > Effort(c) => At(c, "idle") \/ At(c, "draft")

(* No call is retried for ever. *)
THEOREM CallsGetCloser == Spec => [][CallsAdvance]_vars
  <1>1. TypeOK /\ TypeOK' /\ TriesInv /\ TriesInv' /\ [Next]_vars => [CallsAdvance]_vars
    <2> SUFFICES ASSUME TypeOK, TypeOK', TriesInv, TriesInv', Next, NEW c \in Calls
                 PROVE  /\ Effort(c) \in Nat
                        /\ Serve(c) => Effort(c)' < Effort(c)
                        /\ Effort(c)' > Effort(c) => At(c, "idle") \/ At(c, "draft")
      BY DEF CallsAdvance
    <2>1. call[c].tries \in Nat /\ MaxAttempts \in Nat /\ call[c].tries <= MaxAttempts
      BY NoteWriterAssumption DEF TypeOK, TriesInv, NoteWriterAssumption
    <2>2. \A stage : Rank(stage) \in 0..7
      BY DEF Rank
    <2>3. Effort(c) \in Nat
      BY <2>1, <2>2 DEF Effort
    <2>10. Effort(c)' \in Nat
      <3>1. call'[c].tries \in Nat /\ call'[c].tries <= MaxAttempts
        BY NoteWriterAssumption DEF TypeOK, TriesInv
      <3> QED
        BY <2>1, <2>2, <3>1 DEF Effort
    <2>4. ASSUME ServerTurn(c)  PROVE Effort(c)' < Effort(c)
      <3>1. CASE Attempts(c)
        BY <2>1, <3>1 DEF Attempts, Effort, At, Rank
      <3>2. CASE Works(c)
        BY <2>1, <2>2, <3>2 DEF Works, SameTries, Working, Effort, At
      <3>3. CASE Ends(c) /\ ~At(c, "draft") /\ Leaves(c)
        <4>1. Rank(call[c].at) >= 1
          BY <3>3 DEF Ends, At, Rank, TypeOK, Stages
        <4> QED
          BY <2>1, <2>2, <3>3, <4>1 DEF Ends, Leaves, Effort, At
      <3>4. CASE Ends(c) /\ ~At(c, "draft") /\ ~Leaves(c)
        <4>1. Rank(call[c].at) >= 2 /\ call[c].at # "done"
          BY <3>4 DEF Ends, At, Rank, TypeOK, Stages
        <4> QED
          BY <2>1, <2>2, <3>4, <4>1 DEF Ends, Retries, SameTries, Effort, At, Rank
      <3> QED
        BY <2>4, <3>1, <3>2, <3>3, <3>4 DEF ServerTurn
    <2>5. Serve(c) => Effort(c)' < Effort(c)
      BY <2>4, NoteWriterAssumption, ServerTurns
    <2>6. ASSUME NEW d \in Calls, CallStep(d), d # c  PROVE Effort(c)' = Effort(c)
      <3>1. call'[c] = call[c]
        BY <2>6, NoteWriterAssumption, CallShape, OtherCalls DEF Stepped
      <3> QED
        BY <3>1 DEF Effort, At
    <2>7. ASSUME OutsideStep
          PROVE  Effort(c)' = Effort(c)
      BY <2>7, OutsideShape, OutsideTries DEF Effort, At
    <2>8. ASSUME CallStep(c), ~Serve(c)  PROVE At(c, "idle") \/ At(c, "draft")
      BY <2>8 DEF CallStep, ReadNote, CallWrite, CallAppend
    <2>9. Effort(c)' > Effort(c) => At(c, "idle") \/ At(c, "draft")
      <3>1. CASE \E d \in Calls : CallStep(d)
        <4>1. CASE CallStep(c) /\ Serve(c)
          <5>1. Effort(c)' \in Nat
            BY <2>10
          <5> QED
            BY <2>3, <2>5, <4>1, <5>1
        <4>2. CASE \E d \in Calls \ {c} : CallStep(d)
          BY <2>3, <2>6, <4>2
        <4> QED
          BY <2>8, <3>1, <4>1, <4>2
      <3> QED
        BY <2>3, <2>7, <3>1 DEF Next, CallStep, Calls, OutsideStep
    <2> QED
      BY <2>3, <2>5, <2>9
  <1> QED
    BY <1>1, WaitInvariant, PTL DEF Spec
=============================================================================
