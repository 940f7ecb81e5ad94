------------------------------ MODULE Reloader ------------------------------
(***************************************************************************)
(* pkg/reloader over pkg/fsnotify: every pod of a deployment watches the   *)
(* files it has loaded and, when the hash of one changes, writes the       *)
(* hashes it knows into the pod template, so that all pods are replaced    *)
(* and load the files anew.                                                *)
(*                                                                         *)
(* A content is its own hash, and a file may come back to an earlier one.  *)
(* The deployment is written by several pods and by others; as the API     *)
(* does, an Update of a version that is no longer current is refused, and  *)
(* one that changes nothing makes no new version and no new pods.          *)
(***************************************************************************)
EXTENDS Naturals, Sequences

CONSTANTS
  Pods,        \* the replicas
  Files,       \* the files, in the order of the configuration
  Rooted,      \* the positions of those whose name starts with a slash
  Contents,    \* what a file may hold
  MaxTrouble,  \* bound: calls that fail and writes of others
  MaxEvents    \* bound: those and the changes of files

FileIndex == DOMAIN Files
ASSUME ReloaderAssumption ==
  Rooted \subseteq FileIndex /\ Contents \subseteq Nat \ {0} /\ {MaxTrouble, MaxEvents} \subseteq Nat

VARIABLES
  content,  \* what each file holds, 0 while it is being replaced
  changes,  \* the number of changes so far
  template, \* the hashes in the pod template of the deployment
  pod,      \* each pod
  lost,     \* whether an API call has failed, or a write of others refused one
  trouble

reloaderVars == <<content, changes, template, pod, lost, trouble>>

Unknown == [f \in FileIndex |-> 0]

\* A pod: what it is at, whether the template has changed since it was made,
\* what it has loaded and hashed, the file a tick is at, who wrote the deployment
\* since it got it; blind: the first hash was not of what it loaded; idle: the
\* template it was made from held the changed hashes already.
NewPod(old) ==
  [pc |-> "down", old |-> old, loaded |-> Unknown, hashes |-> Unknown, file |-> 1,
   since |-> "nobody", blind |-> FALSE, idle |-> FALSE]

ReloaderInit ==
  /\ content \in [FileIndex -> Contents] /\ changes = 0
  /\ template = Unknown
  /\ pod = [p \in Pods |-> NewPod(FALSE)]
  /\ lost = FALSE /\ trouble = 0

At(p, pc) == pod[p].pc = pc

\* A file gets another content, at once or after it was missing for a while.
FileChanges(f) ==
  /\ changes + trouble < MaxEvents /\ content[f] # 0
  /\ changes' = changes + 1
  /\ content' \in {[content EXCEPT ![f] = c] : c \in ({0} \union Contents) \ {content[f]}}
  /\ UNCHANGED <<template, pod, lost, trouble>>
FileReturns(f) ==
  /\ content[f] = 0
  /\ content' \in {[content EXCEPT ![f] = c] : c \in Contents}
  /\ UNCHANGED <<changes, template, pod, lost, trouble>>

\* The program starts in its pod and loads its files.
Load(p) ==
  /\ At(p, "down") /\ \A f \in FileIndex : content[f] # 0
  /\ pod' = [pod EXCEPT ![p] = [NewPod(@.old) EXCEPT !.pc = "validates", !.loaded = content]]
  /\ UNCHANGED <<content, changes, template, lost, trouble>>

\* An error of the reloader ends the server, and the container is restarted.
Exit(p) == pod' = [pod EXCEPT ![p] = NewPod(@.old)]

Fails ==
  /\ trouble < MaxTrouble /\ changes + trouble < MaxEvents
  /\ trouble' = trouble + 1

\* DeploymentReloader.Validate: the files have one root; the deployment may be
\* read and, as a dry run, updated.
Validate(p) ==
  /\ At(p, "validates")
  /\ IF Rooted \in {{}, FileIndex} THEN pod' = [pod EXCEPT ![p].pc = "watches"] ELSE Exit(p)
  /\ UNCHANGED <<content, changes, template, lost, trouble>>
ValidateFails(p) ==
  /\ At(p, "validates") /\ Fails /\ Exit(p)
  /\ UNCHANGED <<content, changes, template, lost>>

\* A tick goes through the files; between ticks, file is 1.
NextFile(r) == [r EXCEPT !.file = IF @ = Len(Files) THEN 1 ELSE @ + 1]

\* Slip: the answer is that of the last file.
HashFileLast(p) ==
  LET r == pod[p]
      new == content[r.file]
      noted == [r EXCEPT !.hashes[r.file] = new, !.blind = @ \/ (r.hashes[r.file] = 0 /\ new # r.loaded[r.file])]
  IN  /\ At(p, "watches")
      /\ IF new = 0 THEN Exit(p)
         ELSE pod' = [pod EXCEPT ![p] = IF r.hashes[r.file] \in {0, new} \/ r.file < Len(Files)
                                        THEN NextFile(noted) ELSE [noted EXCEPT !.pc = "gets", !.file = 1]]
      /\ UNCHANGED <<content, changes, template, lost, trouble>>

\* fileHashChanged: a hash seen for the first time is only kept; the first one
\* that changed ends the tick.  A file that cannot be read ends Watch.
HashFile(p) ==
  LET r == pod[p]
      new == content[r.file]
      noted == [r EXCEPT !.hashes[r.file] = new, !.blind = @ \/ (r.hashes[r.file] = 0 /\ new # r.loaded[r.file])]
  IN  /\ At(p, "watches")
      /\ IF new = 0 THEN Exit(p)
         ELSE pod' = [pod EXCEPT ![p] = IF r.hashes[r.file] \in {0, new}
                                        THEN NextFile(noted) ELSE [noted EXCEPT !.pc = "gets", !.file = 1]]
      /\ UNCHANGED <<content, changes, template, lost, trouble>>

\* The callback has ended, whatever came of it: errors are only logged.
Back(p) == [pod EXCEPT ![p].pc = "watches", ![p].since = "nobody"]

\* The hashes of all files this pod has seen go into the template, so that all
\* pods are of an old one, and what others have got of the deployment is outdated.
Rolls(p) ==
  /\ template' = pod[p].hashes
  /\ pod' = [q \in Pods |-> [Back(p)[q] EXCEPT !.old = TRUE,
               !.since = IF Back(p)[q].pc = "updates" /\ @ = "nobody" THEN "a pod" ELSE @]]

GetDeployment(p) ==
  /\ At(p, "gets")
  /\ pod' = [pod EXCEPT ![p].pc = "updates"]
  /\ UNCHANGED <<content, changes, template, lost, trouble>>

\* An Update that fails may have changed the deployment, its answer lost.
CallFails(p) ==
  /\ pod[p].pc \in {"gets", "updates"} /\ Fails /\ lost' = TRUE
  /\ \/ pod' = Back(p) /\ UNCHANGED template
     \/ At(p, "updates") /\ pod[p].since = "nobody" /\ template # pod[p].hashes /\ Rolls(p)
  /\ UNCHANGED <<content, changes>>

UpdateDeployment(p) ==
  /\ At(p, "updates")
  /\ \/ pod[p].since = "nobody" /\ template # pod[p].hashes /\ Rolls(p) /\ UNCHANGED lost
     \/ /\ pod[p].since = "nobody" /\ template = pod[p].hashes
        /\ pod' = [Back(p) EXCEPT ![p].idle = @ \/ ~pod[p].old] /\ UNCHANGED <<template, lost>>
     \/ /\ pod[p].since # "nobody" /\ lost' = (lost \/ pod[p].since = "others")
        /\ pod' = Back(p) /\ UNCHANGED template
  /\ UNCHANGED <<content, changes, trouble>>

\* Somebody else writes the deployment, but not its template.
OthersWrite ==
  /\ Fails
  /\ pod' = [p \in Pods |-> IF At(p, "updates") THEN [pod[p] EXCEPT !.since = "others"] ELSE pod[p]]
  /\ UNCHANGED <<content, changes, template, lost>>

\* A pod of an older template is replaced.
Replace(p) ==
  /\ pod[p].old
  /\ pod' = [pod EXCEPT ![p] = NewPod(FALSE)]
  /\ UNCHANGED <<content, changes, template, lost, trouble>>

PodStep(p) ==
  Load(p) \/ Validate(p) \/ HashFile(p) \/ GetDeployment(p) \/ UpdateDeployment(p)

(* Correctness. *)

Fresh(p) == pod[p].loaded = content

\* After the files have changed, every pod comes to run with what they hold:
\* though a tick stops at the first file that changed, pods overwrite each
\* other's hashes and refuse each other's updates, and are replaced meanwhile.
\* The exceptions: the first hash comes one interval after the files were
\* loaded and a change in between goes unseen; a call that failed, or was
\* refused for a write of somebody else's, is not repeated; and a pod that has
\* loaded older files than its template names, for a file came back to what it
\* had been, starts nothing when they change to what the template names
\* (fsnotify/watcher.go:78, reloader.go:219, 254).
FreshAtLast ==
  \A p \in Pods :
    []<>(Fresh(p) \/ pod[p].blind \/ pod[p].idle \/ lost \/ \E f \in FileIndex : content[f] = 0)
=============================================================================
