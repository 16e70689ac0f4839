----------------------------- MODULE FileTools -----------------------------
(* The file tools of turns that share a workspace, on one file: write_file,
   edit and undo_edit, which take the write lock of the path, delete_file, which
   does not, and outsiders (another process, a shell command), who know of no
   lock.

   The lock is a chain of promises: a call waits for the one that was last in
   the chain when it came, and the last of the chain removes the path from the
   map.  A call counts from the moment its path is resolved; its actions run
   from one await of the handler to the next.  What the file holds is a version,
   <<who made it, a number>>: what write_file, edit or an outsider stores is a
   new one, what an undo stores is an older one. *)
EXTENDS Naturals, Sequences

CONSTANTS
    Thread,         \* chat threads, each with an undo stack for the path
    MaxCalls,       \* bound: calls in flight
    MaxVersions,    \* bound: versions of the file
    MaxUndo,        \* MAX_EDIT_UNDO_DEPTH
    None            \* no file, no call, nothing read, not one of the threads

VARIABLES
    file,     \* the version on disk, or None
    call,     \* the calls in flight, None for a number that is free
    last,     \* pathWriteLocks: the last call of the chain, or None
    undo,     \* editUndoStacks, the newest entry at the end
    made      \* versions made so far

fvars == <<file, call, last, undo, made>>

Call == 1..MaxCalls
Version == (Thread \cup {None}) \X (1..MaxVersions)
Op == [kind : {"write", "edit", "undo"}, thread : Thread, prev : Call \cup {None},
       phase : {"waiting", "checking", "writing"},
       read : Version \cup {None}, out : Version \cup {None},
       \* history: somebody without the lock changed the file since it was read
       disturbed : BOOLEAN]
Entry == [previousContent : Version, writtenContent : Version]

TypeOK ==
    /\ file \in Version \cup {None}
    /\ call \in [Call -> Op \cup {None}]
    /\ last \in Call \cup {None}
    /\ DOMAIN undo = Thread
    /\ \A t \in Thread : undo[t] \in Seq(Entry) /\ Len(undo[t]) <= MaxUndo
    /\ made \in 1..MaxVersions

Init ==
    /\ file = <<None, 1>>
    /\ call = [k \in Call |-> None]
    /\ last = None
    /\ undo = [t \in Thread |-> <<>>]
    /\ made = 1

-----------------------------------------------------------------------------
(* Mutated forms of definitions below, each a plausible bug.               *)

RemovedByAnyone(k) == None

-----------------------------------------------------------------------------
(* The lock.                                                               *)

At(k, phase) == call[k] # None /\ call[k].phase = phase

\* withPathWriteLock
Enter(k, t, kind) ==
    /\ call[k] = None
    /\ \A j \in 1..(k - 1) : call[j] # None
    /\ call' = [call EXCEPT ![k] =
                  [kind |-> kind, thread |-> t, prev |-> last, phase |-> "waiting",
                   read |-> None, out |-> None, disturbed |-> FALSE]]
    /\ last' = k
    /\ UNCHANGED <<file, undo, made>>

Granted(k) == call[k].prev = None

\* The path is forgotten by the last of its chain.
Released(k) == IF last = k THEN None ELSE last

\* The call is over, whether it succeeded or failed, and who waits for it goes on.
End(k) ==
    /\ call' = [j \in Call |->
                  IF j = k \/ call[j] = None THEN None
                  ELSE [call[j] EXCEPT !.prev = IF @ = k THEN None ELSE @]]
    /\ last' = Released(k)

-----------------------------------------------------------------------------
(* The handlers, under the lock.                                           *)

Top(k) == undo[call[k].thread][Len(undo[call[k].thread])]

\* The newest entry is what the file holds.
Unchanged(k) == file = Top(k).writtenContent

\* The lock is granted and the file is read, for write_file the directory made.
\* An edit finds its text; an undo has an entry and the file is as it left it.
Begin(k) ==
    /\ At(k, "waiting")
    /\ Granted(k)
    /\ call[k].kind = "edit" => file # None
    /\ call[k].kind = "undo" =>
          file # None /\ undo[call[k].thread] # <<>> /\ Unchanged(k)
    /\ call' = [call EXCEPT ![k].phase = "checking",
                            ![k].read = IF call[k].kind = "write" THEN None ELSE file]
    /\ UNCHANGED <<file, last, undo, made>>

\* No file, no entry, no match, no change, newer work than the entry's, a
\* cancelled call or an I/O error.
Refused(k) ==
    /\ At(k, "waiting")
    /\ Granted(k)
    /\ End(k)
    /\ UNCHANGED <<file, undo, made>>

\* The syntax check of an edit and the last look at the abort signal pass; the
\* temporary file is written.
StartWriting(k) ==
    /\ At(k, "checking")
    /\ IF call[k].kind = "undo"
       THEN /\ call' = [call EXCEPT ![k].phase = "writing", ![k].out = Top(k).previousContent]
            /\ UNCHANGED made
       ELSE /\ made < MaxVersions
            /\ made' = made + 1
            /\ call' = [call EXCEPT ![k].phase = "writing",
                                    ![k].out = <<call[k].thread, made + 1>>]
    /\ UNCHANGED <<file, last, undo>>

\* They do not, or the temporary file cannot be written.
NotWritten(k) ==
    /\ At(k, "checking")
    /\ End(k)
    /\ UNCHANGED <<file, undo, made>>

Pushed(stack, entry) ==
    LET s == Append(stack, entry)
    IN IF Len(s) > MaxUndo THEN Tail(s) ELSE s

Popped(stack) == SubSeq(stack, 1, Len(stack) - 1)

\* The rename takes effect, the undo stack follows, the lock is released.
Rename(k) ==
    /\ At(k, "writing")
    /\ file' = call[k].out
    /\ undo' = [undo EXCEPT ![call[k].thread] =
                  CASE call[k].kind = "edit" ->
                         Pushed(@, [previousContent |-> call[k].read,
                                    writtenContent |-> call[k].out])
                    [] call[k].kind = "undo" -> Popped(@)
                    [] call[k].kind = "write" -> @]
    /\ End(k)
    /\ UNCHANGED made

RenameFails(k) ==
    /\ At(k, "writing")
    /\ End(k)
    /\ UNCHANGED <<file, undo, made>>

-----------------------------------------------------------------------------
(* Without the lock.                                                       *)

Disturbed ==
    [k \in Call |-> IF At(k, "checking") \/ At(k, "writing")
                    THEN [call[k] EXCEPT !.disturbed = TRUE] ELSE call[k]]

\* delete_file
Delete ==
    /\ file # None
    /\ file' = None
    /\ call' = Disturbed
    /\ UNCHANGED <<last, undo, made>>

OutsideWrite ==
    /\ made < MaxVersions
    /\ made' = made + 1
    /\ file' = <<None, made + 1>>
    /\ call' = Disturbed
    /\ UNCHANGED <<last, undo>>

Handler(k) ==
    \/ Begin(k) \/ Refused(k)
    \/ StartWriting(k) \/ NotWritten(k)
    \/ Rename(k) \/ RenameFails(k)

Next ==
    \/ \E k \in Call : Handler(k)
    \/ \E k \in Call, t \in Thread, kind \in {"write", "edit", "undo"} : Enter(k, t, kind)
    \/ Delete \/ OutsideWrite

Spec == Init /\ [][Next]_fvars

-----------------------------------------------------------------------------
(* Properties.                                                             *)

Renaming(k) == At(k, "writing") /\ file' = call[k].out /\ call'[k] = None

\* No edit is based on a content that another locked call has replaced since,
\* in whatever order calls come and fail.
EditsOnLatest(k) == call[k].kind = "edit" => file = call[k].read

\* An undo takes back an edit of its own thread and nobody else's work.
UndoesOwnWork(k) ==
    call[k].kind = "undo" => file # None /\ file[1] = call[k].thread

\* What somebody wrote is replaced only by a call that has read it.  Only those
\* who write without the lock, delete_file among them, can be overrun.
NoWorkLost ==
    [][\A k \in Call :
         Renaming(k) /\ ~call[k].disturbed => EditsOnLatest(k) /\ UndoesOwnWork(k)]_fvars
=============================================================================
