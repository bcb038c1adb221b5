------------------------------- MODULE Compose -------------------------------
(***************************************************************************)
(* The pure transforms of rendered compose documents.  A merge group is    *)
(* the sequence of documents one `docker stack deploy` is given, the base  *)
(* file first, its overrides after it; a document is                       *)
(*                                                                         *)
(*   [path        : where its file is in the repository,                   *)
(*    files       : the `file:` values of its configs and secrets,         *)
(*    hasServices : whether it has a services map,                         *)
(*    services    : the declarations by short service name]                *)
(*                                                                         *)
(* and a declaration                                                       *)
(*                                                                         *)
(*   [labels, deployLabels : sequences of [key, value], in list order,     *)
(*    mode, deployMode     : "" if omitted,                                *)
(*    replicas, deployReplicas : Unset if omitted, negative or no number]  *)
(*                                                                         *)
(* the top-level keys beside those under `deploy`.  A file path is the     *)
(* sequence of its components, the first one "/" if it is absolute.        *)
(***************************************************************************)
EXTENDS Integers, Sequences, FiniteSets, FiniteSetsExt, SequencesExt, Overlay

Unset == -1

(* What strconv.ParseUint makes of the label values that are numbers. *)
Uint == [v \in {"0", "1", "2"} |-> CASE v = "0" -> 0 [] v = "1" -> 1 [] v = "2" -> 2]

-------------------------------------------------------------------------------
(* Labels and mode of one declaration.                                     *)

(* A label section as a map: the last entry of a key counts, and a list item *)
(* without "=" (value "") means "true".                                     *)
Flat(section) ==
  [k \in {section[i].key : i \in DOMAIN section} |->
     LET last == Max({i \in DOMAIN section : section[i].key = k})
     IN  IF section[last].value = "" THEN "true" ELSE section[last].value]

(* Mutant: a top-level label beats the one Swarm stores. *)
ServiceLabelsTopFirst(decl) == Over(Flat(decl.labels), Flat(decl.deployLabels))

(* The deployer's reading: deploy.labels beat the top-level ones. *)
ServiceLabels(decl) == Over(Flat(decl.deployLabels), Flat(decl.labels))

(* The loop's own reading of them, for the drift snapshot. *)
FlatServiceLabels(decl) == Flat(decl.labels \o decl.deployLabels)

(* The declared mode, "" if none. *)
ExplicitMode(decl) == IF decl.deployMode # "" THEN decl.deployMode ELSE decl.mode
ExplicitServiceMode(decl) == IF decl.deployMode # "" THEN decl.deployMode ELSE decl.mode

ParseUintLabel(labels, key) ==
  IF key \in DOMAIN labels /\ labels[key] \in DOMAIN Uint THEN Uint[labels[key]] ELSE 0

ReplicasOf(decl) == IF decl.deployReplicas # Unset THEN decl.deployReplicas ELSE decl.replicas

OptedIn(labels) == "enabled" \in DOMAIN labels /\ labels["enabled"] = "true"

-------------------------------------------------------------------------------
(* The merged view of a group, document by document.                       *)

HasServices(docs) == \E i \in DOMAIN docs : docs[i].hasServices

NoLabels == [k \in {} |-> ""]
NewService == [labels |-> NoLabels, global |-> FALSE, replicas |-> Unset]
NoServices == [n \in {} |-> NewService]
Entry(merged, n) == IF n \in DOMAIN merged THEN merged[n] ELSE NewService

(* carryforward.go: later labels and an explicit later mode win. *)
MergeService(merged, doc) ==
  [n \in DOMAIN merged \cup DOMAIN doc.services |->
     LET ms == Entry(merged, n) IN
     IF n \notin DOMAIN doc.services THEN ms
     ELSE LET svc == doc.services[n] IN
          [ms EXCEPT !.labels = Over(ServiceLabels(svc), @),
                     !.global = IF ExplicitMode(svc) = "" THEN @ ELSE ExplicitMode(svc) = "global"]]
MergeServices(docs) ==
  LET view[i \in 0 .. Len(docs)] == IF i = 0 THEN NoServices ELSE MergeService(view[i - 1], docs[i])
  IN  view[Len(docs)]

(* loop.go: the same, and a later replica count wins. *)
MergeGroupService(merged, doc) ==
  [n \in DOMAIN merged \cup DOMAIN doc.services |->
     LET ms == Entry(merged, n) IN
     IF n \notin DOMAIN doc.services THEN ms
     ELSE LET svc == doc.services[n] IN
          [labels |-> Over(FlatServiceLabels(svc), ms.labels),
           global |-> IF ExplicitServiceMode(svc) = "" THEN ms.global ELSE ExplicitServiceMode(svc) = "global",
           replicas |-> IF ReplicasOf(svc) = Unset THEN ms.replicas ELSE ReplicasOf(svc)]]
MergeGroupServices(docs) ==
  LET view[i \in 0 .. Len(docs)] == IF i = 0 THEN NoServices ELSE MergeGroupService(view[i - 1], docs[i])
  IN  view[Len(docs)]

-------------------------------------------------------------------------------
(* Carry-forward and the drift snapshot.  live gives the services of the   *)
(* stack by short name: [replicated, replicas].                            *)

(* The autoscaled services whose live count is kept. *)
Carried(docs, live) ==
  LET merged == MergeServices(docs) IN
  {n \in DOMAIN merged : /\ ~merged[n].global /\ OptedIn(merged[n].labels)
                         /\ n \in DOMAIN live /\ live[n].replicated}

Within(labels, count) ==
  LET minV == ParseUintLabel(labels, "min")
      maxV == ParseUintLabel(labels, "max")
      low  == IF maxV > 0 /\ count > maxV THEN maxV ELSE count
  IN  IF minV > 0 /\ low < minV THEN minV ELSE low

SetReplicas(decl, count) == [decl EXCEPT !.deployReplicas = count]

(* Mutant: only the base document is rewritten. *)
ApplyCarryForwardBase(docs, live) ==
  LET merged == MergeServices(docs) IN
  [i \in DOMAIN docs |->
     [docs[i] EXCEPT !.services =
        [n \in DOMAIN @ |-> IF n \in Carried(docs, live) /\ i = 1
                            THEN SetReplicas(@[n], Within(merged[n].labels, live[n].replicas)) ELSE @[n]]]]

(* Every document that declares the service is rewritten. *)
ApplyCarryForwardGroup(docs, live) ==
  LET merged == MergeServices(docs) IN
  [i \in DOMAIN docs |->
     [docs[i] EXCEPT !.services =
        [n \in DOMAIN @ |-> IF n \in Carried(docs, live)
                            THEN SetReplicas(@[n], Within(merged[n].labels, live[n].replicas)) ELSE @[n]]]]

(* Mutant: the opt-in is looked for in the base document only. *)
DesiredReplicasOfBase(docs) ==
  LET merged == MergeGroupServices(docs)
      base == MergeGroupServices(SubSeq(docs, 1, 1))
  IN  [n \in {m \in DOMAIN merged : /\ ~merged[m].global /\ merged[m].replicas # Unset
                                    /\ ~(m \in DOMAIN base /\ OptedIn(base[m].labels))}
         |-> merged[n].replicas]

(* Mutant: a service without a count is taken along. *)
DesiredReplicasUnset(docs) ==
  LET merged == MergeGroupServices(docs) IN
  [n \in {m \in DOMAIN merged : ~merged[m].global /\ ~OptedIn(merged[m].labels)} |-> merged[n].replicas]

(* Neither global nor the autoscaler's, and its count is known. *)
DesiredReplicasGroup(docs) ==
  LET merged == MergeGroupServices(docs) IN
  [n \in {m \in DOMAIN merged : /\ ~merged[m].global /\ ~OptedIn(merged[m].labels)
                                /\ merged[m].replicas # Unset} |-> merged[n].replicas]

(* The services of desired whose live count or mode is another. *)
Drift(desired, live) ==
  {n \in DOMAIN desired : \/ n \notin DOMAIN live
                          \/ ~live[n].replicated
                          \/ live[n].replicas # desired[n]}

-------------------------------------------------------------------------------
(* File paths.                                                             *)

(* filepath.Clean, and Join of a directory and a path under it. *)
CleanStep(done, name) ==
  CASE name \in {"", "."} -> done
    [] name = ".." /\ done # <<>> /\ Last(done) \notin {"..", "/"} -> Front(done)
    [] name = ".." /\ done # <<>> /\ Last(done) = "/" -> done
    [] OTHER -> IF name = "/" /\ done # <<>> THEN done ELSE Append(done, name)
Clean(path) ==
  LET done[i \in 0 .. Len(path)] == IF i = 0 THEN <<>> ELSE CleanStep(done[i - 1], path[i])
  IN  done[Len(path)]
Join(dir, path) == Clean(dir \o path)
IsAbs(path) == path # <<>> /\ path[1] = "/"

(* filepath.Rel of two cleaned paths; undefined if the base climbs out of what *)
(* the two share.                                                           *)
Shared(base, target) ==
  Max({n \in 0 .. Min({Len(base), Len(target)}) : SubSeq(base, 1, n) = SubSeq(target, 1, n)})
RelDefined(base, target) ==
  /\ IsAbs(base) = IsAbs(target)
  /\ \A i \in Shared(base, target) + 1 .. Len(base) : base[i] # ".."
Rel(base, target) ==
  LET n == Shared(base, target) IN
  [i \in 1 .. Len(base) - n |-> ".."] \o SubSeq(target, n + 1, Len(target))

(* Mutant: the path is made relative to the document's own directory. *)
RebaseFileToOwn(docDir, baseDir, file) ==
  IF file = <<>> \/ IsAbs(file) THEN file ELSE Rel(docDir, Join(docDir, file))

(* rebaseFileObjects, of one `file:`.  Every document of a sync has a directory, *)
(* <<>> is "." here and not "".                                             *)
RebaseFile(docDir, baseDir, file) ==
  IF file = <<>> \/ IsAbs(file) THEN file
  ELSE IF RelDefined(baseDir, Join(docDir, file)) THEN Rel(baseDir, Join(docDir, file)) ELSE file

(* The directory a document's temporary file is written to, below the worktree. *)
DocDir(worktree, path) == Join(worktree, Front(path))

(* docker/cli opens a relative path from the directory of the first -c file. *)
OpenedByDocker(baseDir, file) == IF IsAbs(file) THEN Clean(file) ELSE Join(baseDir, file)

(* The worktree-relative path of a `file:` for decryption and rotation, and  *)
(* the file that is.                                                        *)
DiscoverSecretFile(path, file) == Join(Front(path), file)
RotationRel(path, file) == Join(Front(path), file)
ReadFile(worktree, rel) == Join(worktree, rel)
===============================================================================
