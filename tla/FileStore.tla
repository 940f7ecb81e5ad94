----------------------------- MODULE FileStore -----------------------------
(***************************************************************************)
(* pkg/store/backends/fs: one file for each key.  An RWMutex orders the     *)
(* calls of one process; nothing orders those of two processes that share   *)
(* the directory, but that a file is created or found atomically.           *)
(*                                                                         *)
(* pkg/store/backends/s3: one object for each key, with no atomic create or *)
(* update.  Create and Update look first and put afterwards.                *)
(***************************************************************************)
EXTENDS Backend

VARIABLES
    linked,    \* clients whose open file is still the one of its key
    crashed,   \* a process has ended in the middle of a write
    torn       \* (history) keys whose file a write that failed has left without a value

fileVars == <<linked, crashed, torn>>

IsFs == kind \in {"fs", "fsShared"}

FileInit == linked = {} /\ crashed = FALSE /\ torn = {}

\* Mutant: the lock is given up once the file is open.
LockedBriefly == kind = "fs" /\ \E d \in Clients : pc[d] = "create"

\* In one process, a client that writes holds the lock; the clients of kind
\* fsShared have a process each.
Locked == kind = "fs" /\ \E d \in Clients : pc[d] \in {"write", "create"}

OpenForWrite(c) ==
    /\ map' = [map EXCEPT ![Key(c)] = Hole]
    /\ linked' = linked \cup {c}
    /\ Goto(c, "write")

\* Mutant: without O_EXCL.
OpenNewAnyway(c) == OpenForWrite(c)

\* O_CREATE | O_EXCL; it can fail although there is no file.
OpenNew(c) ==
    \/ map[Key(c)] = Absent /\ OpenForWrite(c)
    \/ Fails(c) /\ UNCHANGED <<map, linked>>

\* O_TRUNC, without O_CREATE; it can fail although the file is there.
OpenExisting(c) ==
    \/ map[Key(c)] # Absent /\ OpenForWrite(c)
    \/ /\ IF req[c].op = "Apply" THEN Goto(c, "create") ELSE Fails(c)
       /\ UNCHANGED <<map, linked>>

\* Create, Update and Apply under the lock, up to the first open.
FsOpen(c) ==
    /\ IsFs /\ pc[c] = "called" /\ req[c].op \in {"Create", "Update", "Apply"} /\ ~IsDry(c)
    /\ ~Locked
    /\ IF req[c].op = "Create" THEN OpenNew(c) ELSE OpenExisting(c)
    /\ UNCHANGED <<kind, old, calls, opts, crashed, torn>>

\* Apply could open no file: it creates one, unless there is one.
FsApplyCreate(c) ==
    /\ pc[c] = "create" /\ IsFs
    /\ OpenNew(c)
    /\ UNCHANGED <<kind, old, calls, opts, crashed, torn>>

\* WriteJSON and Close.  A value that cannot be encoded, or a disk that is
\* full, is an error, and cuts the file off; but the disk can also fail once the
\* whole value is there.  A file that was removed in the meantime stays removed.
FsWrite(c) ==
    /\ pc[c] = "write"
    /\ \E failed, cut \in BOOLEAN :
        /\ cut => failed
        /\ IF failed THEN Fails(c) ELSE Done(c)
        /\ IF c \in linked
           THEN /\ map' = [map EXCEPT ![Key(c)] = IF cut THEN Hole ELSE req[c].val]
                /\ old' = [old EXCEPT ![Key(c)] = req[c].val]
                /\ torn' = IF cut THEN torn \cup {Key(c)} ELSE torn \ {Key(c)}
           ELSE UNCHANGED <<map, old, torn>>
    /\ linked' = linked \ {c}
    /\ UNCHANGED <<kind, calls, opts, crashed>>

\* The process of c ends before its write.
FsCrash(c) ==
    /\ kind = "fsShared" /\ pc[c] = "write"
    /\ crashed' = TRUE
    /\ linked' = linked \ {c}
    /\ Fails(c)
    /\ UNCHANGED <<kind, map, old, calls, opts, torn>>

\* os.Remove, which can fail.
FsRemove(c) ==
    /\ IsFs /\ pc[c] = "called" /\ req[c].op = "Delete" /\ ~IsDry(c)
    /\ ~Locked
    /\ \/ /\ map[Key(c)] # Absent /\ Put(Key(c), Absent) /\ Done(c)
          /\ linked' = {d \in linked : Key(d) # Key(c)}
          /\ torn' = torn \ {Key(c)}
       \/ Fails(c) /\ UNCHANGED <<map, old, linked, torn>>
    /\ UNCHANGED <<kind, calls, opts, crashed>>

\* A dry run reads, under the read lock; that of Apply does not even read.  If
\* the file cannot be opened, Read says not found: Create takes it for absent.
FsDryRun(c) ==
    /\ IsFs /\ pc[c] = "called" /\ req[c].op \in Writes /\ IsDry(c)
    /\ \/ req[c].op = "Apply" /\ Done(c)
       \/ /\ req[c].op # "Apply" /\ ~Locked
          /\ \/ IF map[Key(c)] = Hole \/ Refused(map, req[c]) THEN Fails(c) ELSE Done(c)
             \/ IF req[c].op = "Create" THEN Done(c) ELSE Fails(c)
    /\ UNCHANGED <<kind, map, old, calls, opts, fileVars>>

\* Read and List; an option they do not know is an error, and what they cannot
\* open.
FsRead(c) ==
    /\ IsFs /\ pc[c] = "called" /\ req[c].op \in {"Read", "List"}
    /\ IF opts[c] # <<>> THEN FailsFor(c, "option")
       ELSE ~Locked /\ (Reads(c, map) \/ FailsFor(c, "unopened"))
    /\ UNCHANGED <<kind, map, old, calls, opts, fileVars>>

-----------------------------------------------------------------------------
(* Objects.                                                                 *)

VARIABLES
    blind,   \* clients whose look at the object failed, which Create takes for absent
    raced    \* (history) clients whose object was written after they had looked

objectVars == <<blind, raced>>

ObjectInit == blind = {} /\ raced = {}

S3Call(c, ops) == kind = "s3" /\ pc[c] = "called" /\ req[c].op \in ops

\* Others that are between their look and their put.
Overtaken(c) == {d \in Clients \ {c} : pc[d] = "put" /\ Key(d) = Key(c)}

\* No write of this backend takes an option, Read neither.
S3Unsupported(c) ==
    /\ S3Call(c, Writes \cup {"Read"}) /\ opts[c] # <<>>
    /\ FailsFor(c, "option")
    /\ UNCHANGED <<kind, map, old, calls, opts, fileVars, objectVars>>

\* Mutant: no look.
S3Unseen(c) ==
    /\ S3Call(c, {"Create", "Update"}) /\ opts[c] = <<>>
    /\ Goto(c, "put")
    /\ blind' = blind \ {c}
    /\ raced' = raced \ {c}
    /\ UNCHANGED <<kind, map, old, calls, opts, fileVars>>

\* Create goes on when the object could not be read, whatever the reason;
\* Update when it could.
S3Look(c) ==
    /\ S3Call(c, {"Create", "Update"}) /\ opts[c] = <<>>
    /\ \E failed \in BOOLEAN :
        /\ IF (map[Key(c)] # Absent /\ ~failed) <=> req[c].op = "Update"
           THEN Goto(c, "put") ELSE Fails(c)
        /\ blind' = IF failed THEN blind \cup {c} ELSE blind \ {c}
    /\ raced' = raced \ {c}
    /\ UNCHANGED <<kind, map, old, calls, opts, fileVars>>

\* A request that changes the object: it may fail, and its answer may be lost.
S3Changes(c, v) ==
    \/ /\ Put(Key(c), v) /\ (Done(c) \/ Fails(c))
       /\ raced' = raced \cup Overtaken(c)
    \/ Fails(c) /\ UNCHANGED <<map, old, raced>>

\* PutObject
S3Put(c) ==
    /\ pc[c] = "put" \/ (S3Call(c, {"Apply"}) /\ opts[c] = <<>>)
    /\ S3Changes(c, req[c].val)
    /\ UNCHANGED <<kind, calls, opts, fileVars, blind>>

\* DeleteObject succeeds whether or not there is an object.
S3Delete(c) ==
    /\ S3Call(c, {"Delete"}) /\ opts[c] = <<>>
    /\ S3Changes(c, Absent)
    /\ UNCHANGED <<kind, calls, opts, fileVars, blind>>

\* Read; and List, which skips the objects it cannot read.
S3Read(c) ==
    /\ \/ S3Call(c, {"Read"}) /\ opts[c] = <<>> /\ (Reads(c, map) \/ FailsFor(c, "fault"))
       \/ S3Call(c, {"List"}) /\ ~Has(opts[c], "noCache") /\ FailsFor(c, "fault")
       \/ /\ S3Call(c, {"List"})
          /\ IF Has(opts[c], "noCache") THEN FailsFor(c, "option")
             ELSE \E missed \in SUBSET Keys :
                    Reads(c, [k \in Keys |-> IF k \in missed THEN Absent ELSE map[k]])
    /\ UNCHANGED <<kind, map, old, calls, opts, fileVars, objectVars>>
=============================================================================
