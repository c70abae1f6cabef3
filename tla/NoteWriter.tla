----------------------------- MODULE NoteWriter -----------------------------
(***************************************************************************)
(* The write tools of a local-folder source (rag-core/src/write-tools.ts)  *)
(* over the file writer (fs-write.ts and its helper native/fsat.c), for    *)
(* one note.  A call is rag_append_note, or rag_read_note followed by      *)
(* rag_write_document with the whole new content.  A text is one value and *)
(* the note is the sequence of the texts it holds, empty when there is no  *)
(* file; its sha256 version is its content.  A client that replaces the    *)
(* note keeps what it read and adds its own text, an editor outside saves  *)
(* the note with one text more; neither has to hurry.                      *)
(*                                                                         *)
(* The steps are the system calls that another process can come between.   *)
(* Any of them may fail.  A helper that is killed has no effect after the  *)
(* kill.  Paths, access checks and the staging directory are left out.     *)
(***************************************************************************)
EXTENDS Naturals, Sequences, FiniteSets

CONSTANTS
    Appends,      \* calls of rag_append_note; a call stands for its text
    Writes,       \* calls of rag_write_document
    Outside,      \* texts that other processes save
    Modes,        \* what the server may run on, see mode
    MaxLength,    \* maxBytes, in texts
    MaxAttempts   \* APPEND_MAX_ATTEMPTS

Calls == Appends \union Writes

ASSUME NoteWriterAssumption ==
    /\ Appends \intersect Writes = {}
    /\ Calls \intersect Outside = {}
    /\ Modes \subseteq {"helper", "virtiofs", "path"}
    /\ MaxLength \in Nat /\ MaxAttempts \in Nat \ {0}

VARIABLES
    mode,         \* the helper; the helper on a mount whose exchange returns
                  \* no old entry; the path mode of Windows
    file,         \* the inode and the content of the note
    inodes,       \* the highest inode number used so far
    call,         \* the state of each call
    appendQueue,  \* calls of rag_append_note, the head is being served
    locks,        \* withLock('document-write'), the head holds it
    saved,        \* outside texts saved so far
    erased        \* history: texts that an outside deletion removed

vars == <<mode, file, inodes, call, appendQueue, locks, saved, erased>>

NoFile == [ino |-> 0, text |-> <<>>]
Exists == file.text # <<>>
Texts(f) == {f.text[i] : i \in DOMAIN f.text}
Times(x) == Cardinality({i \in DOMAIN file.text : file.text[i] = x})

(* base is the content that expectedVersion stands for, empty when it is
   omitted; first the validated inode, own the published one, displaced the
   one that came back; late the outside saves since the last check that are in
   the note, kept that the last of them left it under the number first. *)
NewCall == [at |-> "idle", base |-> <<>>, first |-> 0, own |-> 0, displaced |-> 0,
            tries |-> 0, late |-> {}, kept |-> TRUE, answer |-> "none"]

Stages == {"idle", "draft", "queued", "waiting", "comparing", "staged", "publishing",
           "published", "confirming", "done"}
Refusals == {"already_exists", "not_found", "version_conflict", "too_large",
             "unsupported_filesystem"}
Answers == Refusals \union {"none", "saved", "io_error", "published_unverified"}

Content(c) == Append(call[c].base, c)

Init ==
    /\ mode \in Modes
    /\ file \in {NoFile} \union {[ino |-> 1, text |-> <<x>>] : x \in Outside}
    /\ inodes = 1
    /\ call = [c \in Calls |-> NewCall]
    /\ appendQueue = <<>>
    /\ locks = <<>>
    /\ saved = Texts(file)
    /\ erased = {}
----------------------------------------------------------------------------
At(c, stage) == call[c].at = stage
Move(c, stage) == call' = [call EXCEPT ![c].at = stage]
Serving(c) == appendQueue # <<>> /\ Head(appendQueue) = c
HoldsLock(c) == locks # <<>> /\ Head(locks) = c

(* Mutant: an answer that may come after the publication is retried too. *)
RetriesAnything(answer) == answer # "saved"

(* The refusals of writeTextFile that appendOnce tries again. *)
Retryable(answer) == answer \in {"already_exists", "not_found", "version_conflict"}

(* Mutant: an attempt that fails keeps the lock. *)
KeepsLock(c, answer) ==
    /\ locks' = IF answer = "saved" /\ HoldsLock(c) THEN Tail(locks) ELSE locks
    /\ IF c \in Appends /\ Retryable(answer) /\ call[c].tries < MaxAttempts
       THEN Move(c, "queued") /\ UNCHANGED appendQueue
       ELSE /\ call' = [call EXCEPT ![c].at = "done", ![c].answer = answer]
            /\ appendQueue' = IF Serving(c) THEN Tail(appendQueue) ELSE appendQueue

(* The end of an attempt: the lock goes to the next if it was held, and the
   call is answered unless it is an append that tries again; an append that
   has tried often enough reports a conflict. *)
Final(c, answer) == IF c \in Appends /\ Retryable(answer) THEN "version_conflict" ELSE answer

Settle(c, answer) ==
    /\ locks' = IF HoldsLock(c) THEN Tail(locks) ELSE locks
    /\ IF c \in Appends /\ Retryable(answer) /\ call[c].tries < MaxAttempts
       THEN Move(c, "queued") /\ UNCHANGED appendQueue
       ELSE /\ call' = [call EXCEPT ![c] = [NewCall EXCEPT !.at = "done", !.late = call[c].late,
                                !.kept = call[c].kept, !.answer = Final(c, answer)]]
            /\ appendQueue' = IF Serving(c) THEN Tail(appendQueue) ELSE appendQueue

(* rag_read_note: the client will replace what it reads, or create. *)
ReadNote(c) ==
    /\ At(c, "idle")
    /\ Len(file.text) <= MaxLength
    /\ call' = [call EXCEPT ![c].at = "draft", ![c].base = file.text]
    /\ UNCHANGED <<mode, file, inodes, appendQueue, locks, saved, erased>>

CallWrite(c) ==
    /\ At(c, "draft")
    /\ IF Len(call[c].base) >= MaxLength
       THEN Settle(c, "too_large")
       ELSE Move(c, "waiting") /\ locks' = Append(locks, c) /\ UNCHANGED appendQueue
    /\ UNCHANGED <<mode, file, inodes, saved, erased>>

CallAppend(c) ==
    /\ At(c, "idle")
    /\ Move(c, "queued")
    /\ appendQueue' = Append(appendQueue, c)
    /\ UNCHANGED <<mode, file, inodes, locks, saved, erased>>

(* One round of appendOnce: read, check the size, write on that version. *)
AppendRound(c) ==
    /\ At(c, "queued")
    /\ Serving(c)
    /\ IF Len(file.text) >= MaxLength
       THEN Settle(c, "too_large")
       ELSE /\ call' = [call EXCEPT ![c] = [NewCall EXCEPT !.at = "waiting",
                                            !.base = file.text, !.tries = call[c].tries + 1]]
            /\ locks' = Append(locks, c)
            /\ UNCHANGED appendQueue
    /\ UNCHANGED <<mode, file, inodes, saved, erased>>

(* The first read under the lock: of the server for a replace, of the helper
   (or of the path mode) for a create. *)
Refusal(c) ==
    IF call[c].base = <<>> THEN "already_exists"
    ELSE IF Exists THEN "version_conflict" ELSE "not_found"

Enter(c) ==
    /\ At(c, "waiting")
    /\ HoldsLock(c)
    /\ IF file.text # call[c].base
       THEN Settle(c, Refusal(c))
       ELSE /\ call' = [call EXCEPT
                  ![c].first = file.ino,
                  ![c].at = IF ~Exists THEN "publishing"
                            ELSE IF mode = "path" THEN "staged" ELSE "comparing"]
            /\ UNCHANGED <<appendQueue, locks>>
    /\ UNCHANGED <<mode, file, inodes, saved, erased>>

(* The helper compares the target with what the server read, and notes its
   inode; then it writes the temporary file. *)
Compare(c) ==
    /\ At(c, "comparing")
    /\ IF file.text # call[c].base
       THEN Settle(c, Refusal(c))
       ELSE /\ call' = [call EXCEPT ![c].at = "staged", ![c].first = file.ino]
            /\ UNCHANGED <<appendQueue, locks>>
    /\ UNCHANGED <<mode, file, inodes, saved, erased>>

(* Mutant: the second comparison is left out. *)
NoRecheck(c) ==
    /\ At(c, "staged")
    /\ Move(c, "publishing")
    /\ UNCHANGED <<mode, file, inodes, appendQueue, locks, saved, erased>>

(* The same comparison right before the publication. *)
Recheck(c) ==
    /\ At(c, "staged")
    /\ IF file # [ino |-> call[c].first, text |-> call[c].base]
       THEN Settle(c, "version_conflict")
       ELSE Move(c, "publishing") /\ UNCHANGED <<appendQueue, locks>>
    /\ UNCHANGED <<mode, file, inodes, saved, erased>>

PutFile(c) ==
    /\ file' = [ino |-> inodes + 1, text |-> Content(c)]
    /\ inodes' = inodes + 1
    /\ UNCHANGED <<mode, saved, erased>>

(* renameat2(RENAME_NOREPLACE), or link() in path mode. *)
PublishNew(c) ==
    /\ At(c, "publishing")
    /\ call[c].base = <<>>
    /\ IF Exists
       THEN Settle(c, "already_exists") /\ UNCHANGED <<mode, file, inodes, saved, erased>>
       ELSE /\ PutFile(c)
            /\ IF mode = "path"
               THEN Settle(c, "saved")
               ELSE /\ call' = [call EXCEPT ![c].at = "published", ![c].own = inodes + 1]
                    /\ UNCHANGED <<appendQueue, locks>>

(* rename() over whatever is there. *)
RenameOver(c) ==
    /\ At(c, "publishing")
    /\ call[c].base # <<>>
    /\ mode = "path"
    /\ PutFile(c)
    /\ Settle(c, "saved")

(* renameat2(RENAME_EXCHANGE) fails when the target is gone. *)
Exchange(c) ==
    /\ At(c, "publishing")
    /\ call[c].base # <<>>
    /\ mode # "path"
    /\ IF Exists
       THEN /\ PutFile(c)
            /\ call' = [call EXCEPT ![c].at = "published", ![c].own = inodes + 1,
                          ![c].displaced = IF mode = "virtiofs" THEN 0 ELSE file.ino]
            /\ UNCHANGED <<appendQueue, locks>>
       ELSE Settle(c, "io_error") /\ UNCHANGED <<mode, file, inodes, saved, erased>>

(* Mutant: what came back from the exchange is not looked at. *)
Trusts(c) == file.ino = call[c].own

(* The two sides of the publication are what they should be. *)
Verified(c) ==
    /\ file.ino = call[c].own
    /\ call[c].displaced = call[c].first

(* A create displaces nothing, and first is 0 like displaced. *)
Verify(c) ==
    /\ At(c, "published")
    /\ IF file.ino = call[c].own /\ call[c].base # <<>> /\ call[c].displaced = 0
       THEN Move(c, "confirming") /\ UNCHANGED <<appendQueue, locks>>
       ELSE Settle(c, IF Verified(c) THEN "saved" ELSE "published_unverified")
    /\ UNCHANGED <<mode, file, inodes, saved, erased>>

(* confirmPublished: the target is read again. *)
Confirm(c) ==
    /\ At(c, "confirming")
    /\ Settle(c, IF file.text = Content(c) THEN "saved" ELSE "published_unverified")
    /\ UNCHANGED <<mode, file, inodes, saved, erased>>

(* link and renameat2 may not be there; rename always is. *)
Unsupported(c) ==
    /\ At(c, "publishing")
    /\ mode = "path" => call[c].base = <<>>
    /\ Settle(c, "unsupported_filesystem")
    /\ UNCHANGED <<mode, file, inodes, saved, erased>>

(* A step on the file system fails, or its helper hangs and is killed after
   60 s; the path mode is done once it has published. *)
OnDisk(c) ==
    \/ At(c, "queued") /\ Serving(c)
    \/ At(c, "waiting") /\ HoldsLock(c)
    \/ call[c].at \in {"comparing", "staged", "publishing", "published", "confirming"}

Fails(c) ==
    /\ OnDisk(c)
    /\ Settle(c, IF At(c, "confirming") THEN "published_unverified" ELSE "io_error")
    /\ UNCHANGED <<mode, file, inodes, saved, erased>>

(* An editor saves the note: in place, or as a new file under its name, which
   may bear the number of a file that is gone. *)
OutsideSave(x, ino) ==
    /\ x \notin saved
    /\ saved' = saved \union {x}
    /\ file' = [ino |-> ino, text |-> Append(file.text, x)]
    /\ inodes' = IF ino > inodes THEN ino ELSE inodes
    /\ call' = [c \in Calls |->
         IF At(c, "publishing")
         THEN [call[c] EXCEPT !.late = @ \union {x}, !.kept = (ino = call[c].first)]
         ELSE call[c]]
    /\ UNCHANGED <<mode, appendQueue, locks, erased>>

OutsideDelete ==
    /\ Exists
    /\ file' = NoFile
    /\ erased' = erased \union Texts(file)
    /\ call' = [c \in Calls |->
         IF At(c, "publishing") THEN [call[c] EXCEPT !.late = {}] ELSE call[c]]
    /\ UNCHANGED <<mode, inodes, appendQueue, locks, saved>>

(* What the server does for a call that has been made. *)
Serve(c) ==
    \/ AppendRound(c) \/ Enter(c) \/ Compare(c) \/ Recheck(c)
    \/ PublishNew(c) \/ RenameOver(c) \/ Exchange(c)
    \/ Verify(c) \/ Confirm(c) \/ Unsupported(c) \/ Fails(c)

Next ==
    \/ \E c \in Writes : ReadNote(c) \/ CallWrite(c)
    \/ \E c \in Appends : CallAppend(c)
    \/ \E c \in Calls : Serve(c)
    \/ \E x \in Outside, ino \in 1..(inodes + 1) : OutsideSave(x, ino)
    \/ OutsideDelete

(* A helper that is alive is killed in the end: one of the two happens. *)
Spec == Init /\ [][Next]_vars /\ \A c \in Calls : WF_vars(Serve(c))
----------------------------------------------------------------------------
TypeOK ==
    /\ mode \in Modes
    /\ file \in [ino: Nat, text: Seq(Calls \union Outside)]
    /\ inodes \in Nat
    /\ call \in [Calls -> [at: Stages, base: Seq(Calls \union Outside), first: Nat, own: Nat,
                           displaced: Nat, tries: Nat, late: SUBSET Outside, kept: BOOLEAN,
                           answer: Answers]]
    /\ appendQueue \in Seq(Appends)
    /\ locks \in Seq(Calls)
    /\ saved \subseteq Outside
    /\ erased \subseteq Calls \union Outside

(* What a call is told is what happened to the note, through any retries and
   whoever else writes: a text that was saved is there once unless somebody
   outside deleted the note, a refused one is not there, and a call that was
   told neither (io_error, published_unverified) has not added its text
   twice. *)
AnswerIsTrue == \A c \in Calls :
    /\ Times(c) <= 1
    /\ call[c].answer = "saved" => Times(c) = 1 \/ c \in erased
    /\ call[c].answer \in Refusals => Times(c) = 0

(* A text leaves the note only when somebody outside deletes the file, or
   when it was saved outside between the last check of a write and its
   publication: one call never undoes another, and the window for an editor
   is that one step (fs-write.ts:56-58). *)
NothingElseLost == [][
    \A x \in Texts(file) \ Texts(file') :
      \/ file' = NoFile
      \/ \E c \in Calls : At(c, "publishing") /\ x \in call[c].late]_vars

(* With the helper, a write that dropped what was saved in its window is told
   that all is well only if that was saved into the file it had validated, or
   into one that got the number of that file (fs-write.ts:51-52). *)
DroppedFileIsReported == \A c \in Calls :
    (mode = "helper" /\ call[c].answer = "saved" /\ call[c].late # {}) => call[c].kept

(* Every call is answered, although helpers hang, calls queue behind calls
   that fail, and retries collide with other writers. *)
EveryCallIsAnswered == \A c \in Calls :
    call[c].at \in {"queued", "waiting"} ~> At(c, "done")
=============================================================================
