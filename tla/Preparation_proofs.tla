------------------------- MODULE Preparation_proofs -------------------------
(***************************************************************************)
(* One preparation task through any number of runs: what is published was  *)
(* asked for, and what a run takes for prepared is there.                  *)
(***************************************************************************)
EXTENDS Preparation, SequenceTheorems, TLAPS

Saving == {"open", "write", "rename", "unlink"}
Steps == {"none", "look", "stage", "publish", "examine", "done", "failed"} \cup Saving
Children == [pc : Steps, file : {"none", "target", "receipt"},
             payload : Contents \cup {"none", "unsigned"}, handle : Files \cup {"none", "gone"}]

\* Kinds whose target comes from elsewhere, and those whose target, once it is
\* there, the program never touches again.
Fetched == {"git", "https", "archive", "copied"}
Stable == Repositories \cup {"archive", "workspace", "existing"}

Types ==
    /\ TypeOK /\ child \in [Runs -> Children] /\ (kind = "existing" => ~pinned)
    /\ disturbed \in BOOLEAN /\ touched \in BOOLEAN /\ alters \in 0..MaxAlters

\* A run that was not started has nothing, and one that holds its task for
\* successful has seen the end of its child.
Begun ==
    \A r \in Runs : IF run[r] = "none" THEN task[r] = "none" /\ child[r].pc = "none" /\ graph[r] = 0
                                       ELSE graph[r] \in 1..materialized /\ (task[r] = "success" => child[r].pc = "done")

\* What a child at each step has in hand.
Holds(r) ==
    /\ child[r].pc \in {"stage", "publish"} => kind \in Fetched
    /\ child[r].pc = "publish" => /\ \E m \in graph[r]..materialized : child[r].payload = Wanted[m]
                                  /\ kind # "copied" => child[r].payload = Wants(r)
    /\ child[r].pc \in Saving => child[r].file \in {"target", "receipt"} /\ child[r].payload # "none"
    /\ child[r].pc \notin Saving => child[r].file = "none"
    /\ child[r].file = "target" => kind = "rendered" /\ child[r].payload = Wants(r)
    /\ child[r].pc # "write" => child[r].handle = "none"
    /\ child[r].handle \in {"target", "target.tmp"} => child[r].file = "target"
    /\ child[r].handle \in {"receipt", "receipt.tmp"} => child[r].file = "receipt"

\* The request says what a target like this one has to be.
Compared == pinned /\ (kind = "checkout" => file["target"] \notin Unversioned)

\* A child that has seen a target, and one that got through its examination, or
\* whose archive or copy of the workspace was found to be right.
Approved(r) ==
    \/ child[r].pc \in Saving \cup {"done"}
    \/ child[r].pc = "examine" /\ kind \notin Repositories
Found(r) == child[r].pc = "examine" \/ Approved(r)

\* What nobody alters stays there, and stays what every run that compared it wanted.
TargetStays ==
    kind \in Stable /\ alters = 0 =>
        /\ file["target"] \in Versions \cup {"none"}
        /\ kind = "git" => file["target"] \notin Unversioned
        /\ \A r \in Runs : Found(r) => file["target"] # "none"
        /\ Compared => \A r \in Runs : Approved(r) => file["target"] = Wants(r)

Busy(r) == run[r] = "live" \/ Active(r)

\* As long as nothing disturbs them, runs follow one another; one whose graph
\* is no longer the last has no company of the last one's.
Orderly ==
    /\ \A r, s \in Runs : Busy(r) /\ Busy(s) => r = s
    /\ \A r \in Runs : run[r] = "live" => graph[r] = materialized
    /\ \A r, s \in Runs : Active(r) /\ graph[r] # materialized => graph[s] # materialized

\* What a receipt says of the target that is there.
Sign == IF kind \in Repositories THEN "unsigned" ELSE file["target"]

\* A child that is alone finds each file as it left it.
Alone(r) ==
    /\ child[r].pc = "write" => child[r].handle = Tmp(child[r].file)
    /\ child[r].pc = "rename" => file[Tmp(child[r].file)] = child[r].payload
    /\ child[r].file = "receipt" /\ child[r].pc # "unlink" => child[r].payload = Sign
    /\ child[r].file = "receipt" /\ child[r].pc = "unlink" => file["receipt"] = Sign
    /\ \/ child[r].pc \in {"examine", "unlink"}
       \/ child[r].pc \in Saving /\ child[r].file = "receipt"
       => file["target"] # "none"

\* And so does its engine.
Vouched(r) ==
    /\ run[r] = "live" /\ task[r] = "running" /\ child[r].pc = "done" /\ ~touched =>
          file["receipt"] = Sign /\ file["target"] # "none"
    /\ run[r] = "live" /\ task[r] = "success" /\ ~touched => ReceiptValid

\* Requests whose receipt carries what they asked for.
Signed == pinned /\ kind \notin Repositories

\* The child of such a request has in hand what its own run wants.
Progress(r) ==
    /\ /\ graph[r] = materialized
       /\ \/ child[r].pc \in {"examine", "unlink"}
          \/ child[r].pc \in Saving /\ child[r].file = "receipt"
       => file["target"] = Wants(r)
    /\ child[r].pc = "unlink" /\ child[r].file = "receipt" /\ graph[r] = materialized => file["receipt"] \in {"none", Wants(r)}

\* And its engine, when it is through, finds that.
Result(r) ==
    /\ run[r] = "live" /\ task[r] = "running" /\ child[r].pc = "done" =>
          /\ ~touched => file["target"] = Wants(r)
          /\ file["receipt"] \in {"none", Wants(r)}
    /\ task[r] = "success" /\ graph[r] = materialized => file["receipt"] \in {"none", Wants(r)}
    /\ task[r] = "success" /\ run[r] = "live" /\ ~touched => file["target"] = Wants(r)

Undisturbed ==
    ~disturbed => /\ Orderly /\ file["target"] # "torn"
                  /\ \A r \in Runs : Alone(r) /\ Vouched(r)
                  /\ Signed => \A r \in Runs : Progress(r) /\ Result(r)

IInv == Types /\ Begun /\ (\A r \in Runs : Holds(r)) /\ TargetStays /\ Undisturbed

-----------------------------------------------------------------------------

\* Every materialization asks for a version, and none of the marks is one.
LEMMA WantedTyped ==
    ASSUME Types
    PROVE  /\ materialized \in Nat /\ materialized <= Len(Wanted) /\ Len(Wanted) \in Nat
           /\ \A m \in 1..materialized : Wanted[m] \in Versions /\ Wanted[m] \notin Unversioned
           /\ {"none", "torn", "unsigned"} \cap Versions = {}
<1>1. Wanted \in Seq(Versions \ Unversioned) /\ {"none", "torn", "unsigned"} \cap Versions = {}
  BY PreparationAssumption
<1>2. DOMAIN Wanted = 1..Len(Wanted) /\ Len(Wanted) \in Nat
  BY <1>1, LenProperties
<1>3. \A m \in 1..Len(Wanted) : Wanted[m] \in Versions \ Unversioned
  BY <1>1, ElementOfSeq
<1>4. materialized \in 1..Len(Wanted)
  BY <1>2 DEF Types, TypeOK
<1>5. QED
  BY <1>1, <1>2, <1>3, <1>4

\* The run of a child that was started asks for a version.
LEMMA WantsTyped ==
    ASSUME Types, Begun, NEW r \in Runs, run[r] # "none" \/ child[r].pc # "none"
    PROVE  /\ run[r] # "none" /\ graph[r] \in 1..materialized
           /\ Wants(r) \in Versions /\ Wants(r) \notin Unversioned \cup {"none", "torn", "unsigned"}
<1>1. run[r] # "none" /\ graph[r] \in 1..materialized
  BY DEF Begun
<1>2. QED
  BY <1>1, WantedTyped DEF Wants

\* Renaming a file moves handles and nothing else.
LEMMA MovedHandles ==
    ASSUME child \in [Runs -> Children], NEW f, NEW to \in Files \cup {"gone"}
    PROVE  /\ Moved(f, to) \in [Runs -> Children]
           /\ \A s \in Runs : /\ Moved(f, to)[s].pc = child[s].pc
                              /\ Moved(f, to)[s].file = child[s].file
                              /\ Moved(f, to)[s].payload = child[s].payload
                              /\ Moved(f, to)[s].handle = IF child[s].handle = f THEN to
                                                          ELSE IF child[s].handle = to THEN "gone" ELSE child[s].handle
<1>1. Moved(f, to) = [s \in Runs |-> Moved(f, to)[s]]
  BY DEF Moved
<1>2. ASSUME NEW s \in Runs
      PROVE  /\ Moved(f, to)[s].pc = child[s].pc /\ Moved(f, to)[s].file = child[s].file
             /\ Moved(f, to)[s].payload = child[s].payload
             /\ Moved(f, to)[s].handle = IF child[s].handle = f THEN to
                                         ELSE IF child[s].handle = to THEN "gone" ELSE child[s].handle
             /\ Moved(f, to)[s] \in Children
  <2>1. Moved(f, to)[s] = [child[s] EXCEPT !.handle = IF @ = f THEN to ELSE IF @ = to THEN "gone" ELSE @]
    BY DEF Moved
  <2>2. child[s] \in Children
    OBVIOUS
  <2>3. QED
    BY <2>1, <2>2 DEF Children
<1>3. QED
  BY <1>1, <1>2

\* What a step of one child leaves to the others.
Same(s) ==
    /\ child'[s].pc = child[s].pc /\ child'[s].file = child[s].file /\ child'[s].payload = child[s].payload
    /\ \/ child'[s].handle = child[s].handle
       \/ child[s].handle # "none" /\ child'[s].handle = "gone"
       \/ \E f \in {"target", "receipt"} : child[s].handle = Tmp(f) /\ child'[s].handle = f

\* What a child may make of what is there.
LEMMA Looks ==
    ASSUME Types, NEW r \in Runs, Look(r)
    PROVE  \/ Exits(r, "failed")
           \/ Goes(r, "stage") /\ kind \in Fetched
           \/ /\ Goes(r, "examine") /\ file["target"] # "none"
              /\ Signed => file["target"] = Wants(r)
              /\ kind = "git" => file["target"] \notin Unversioned
           \/ /\ kind = "rendered"
              /\ child' = [child EXCEPT ![r].pc = "open", ![r].file = "target", ![r].payload = Wants(r)]
<1>0. "none" \notin Versions
  BY PreparationAssumption
<1>1. CASE kind \in Repositories /\ LookForRepository(r)
  <2>1. kind \in {"git", "checkout"} /\ ~Signed
    BY <1>1 DEF Repositories, Signed
  <2>2. QED
    BY <1>0, <1>1, <2>1 DEF LookForRepository, Fetched
<1>2. CASE kind \in Assets /\ LookForAsset(r)
  BY <1>2 DEF LookForAsset, Assets, Fetched, Signed
<1>3. CASE kind = "copied" /\ LookForConfiguration(r)
  BY <1>3 DEF LookForConfiguration, Fetched
<1>4. CASE kind = "existing" /\ LookForConfiguration(r)
  <2>1. \/ Goes(r, "examine") /\ file["target"] # "none"
        \/ Exits(r, "failed")
    BY <1>4 DEF LookForConfiguration
  <2>2. QED
    BY <1>4, <2>1 DEF Signed, Types
<1>5. CASE kind = "rendered" /\ LookForConfiguration(r)
  BY <1>5 DEF LookForConfiguration
<1>6. QED
  BY <1>1, <1>2, <1>3, <1>4, <1>5, Zenon DEF Look, Configurations

\* A step of a child leaves the engines alone, and other children but for a handle
\* whose file was renamed or removed.
LEMMA ChildFrame ==
    ASSUME Types, NEW r \in Runs, Holds(r), ChildStep(r)
    PROVE  /\ UNCHANGED <<kind, pinned, materialized, run, task, graph, disturbed, touched, alters>>
           /\ Active(r)
           /\ \A s \in Runs \ {r} : Same(s)
<1> USE DEF Child, request, engines, bounds, Same, Goes, Exits, Active
<1>0. child \in [Runs -> Children]
  BY DEF Types
<1> USE <1>0
<1>1. CASE Look(r)
  <2>1. \/ \E pc \in {"failed", "stage", "examine"} : Exits(r, pc) \/ Goes(r, pc)
        \/ child' = [child EXCEPT ![r].pc = "open", ![r].file = "target", ![r].payload = Wants(r)]
    <3> HIDE DEF Goes, Exits
    <3>1. QED
      BY <1>1, Looks
  <2>2. ASSUME NEW pc, Exits(r, pc) \/ Goes(r, pc) PROVE \A s \in Runs \ {r} : child'[s] = child[s]
    BY <2>2
  <2>3. \A s \in Runs \ {r} : child'[s] = child[s]
    <3> HIDE DEF Goes, Exits
    <3>1. CASE child' = [child EXCEPT ![r].pc = "open", ![r].file = "target", ![r].payload = Wants(r)]
      BY <3>1
    <3>2. QED
      BY <2>1, <2>2, <3>1
  <2>4. QED
    BY <1>1, <2>3 DEF Look
<1>2. CASE Stage(r)
  BY <1>2 DEF Stage
<1>3. CASE Publish(r)
  BY <1>3 DEF Publish
<1>4. CASE Examine(r)
  BY <1>4 DEF Examine
<1>5. CASE Open(r)
  BY <1>5 DEF Open
<1>6. CASE Write(r)
  BY <1>6 DEF Write
<1>7. CASE Rename(r)
  <2>1. CASE Exits(r, "failed")
    BY <1>7, <2>1 DEF Rename
  <2>2. CASE child' = [Moved(Tmp(child[r].file), child[r].file) EXCEPT ![r].pc = "unlink"]
    <3>1. \A s \in Runs \ {r} : child'[s] = Moved(Tmp(child[r].file), child[r].file)[s]
      BY <2>2 DEF Moved
    <3>2. child[r].file \in {"target", "receipt"} /\ child[r].file \in Files
      BY <1>7 DEF Rename, Holds, Saving, Files
    <3>3. \A s \in Runs \ {r} : Same(s)
      BY <3>1, <3>2, MovedHandles DEF Tmp
    <3>4. QED
      BY <1>7, <3>3 DEF Rename
  <2>3. QED
    BY <1>7, <2>1, <2>2 DEF Rename
<1>8. CASE Unlink(r)
  <2>1. \A s \in Runs \ {r} : child'[s] = Moved(Tmp(child[r].file), "gone")[s]
    BY <1>8 DEF Unlink, Moved
  <2>2. \A s \in Runs \ {r} : Same(s)
    BY <2>1, MovedHandles DEF Tmp
  <2>3. QED
    BY <1>8, <2>2 DEF Unlink
<1>9. QED
  BY <1>1, <1>2, <1>3, <1>4, <1>5, <1>6, <1>7, <1>8 DEF ChildStep

FileTypes == [Files -> Contents \cup {"none", "unsigned"}]

\* Whoever has a file open finds it there.
HandleHeld(s) == child[s].handle \in {"none", "gone"} \/ file[child[s].handle] # "none"

\* A child's step keeps children and files of their types, and what is open there.
LEMMA ChildTypes ==
    ASSUME Types, Begun, \A s \in Runs : Holds(s), NEW r \in Runs, ChildStep(r)
    PROVE  child' \in [Runs -> Children] /\ file' \in FileTypes /\ \A s \in Runs : HandleHeld(s)'
<1> DEFINE Goal == child' \in [Runs -> Children] /\ file' \in FileTypes /\ \A s \in Runs : HandleHeld(s)'
<1>1. /\ child \in [Runs -> Children] /\ file \in FileTypes
      /\ \A s \in Runs : HandleHeld(s)
      /\ \A s \in Runs : child[s].pc # "write" => child[s].handle = "none"
      /\ Contents = Versions \cup {"torn"}
  BY DEF Types, TypeOK, FileTypes, HandleHeld, Holds, Contents
<1>2. Holds(r) /\ Wants(r) \in Versions /\ {"none", "torn", "unsigned"} \cap Versions = {}
  BY ChildFrame, WantsTyped, WantedTyped DEF Active
<1>3. NoChild \in Children
  BY DEF NoChild, Children, Steps
\* What r does to itself.
<1>4. ASSUME NEW c \in Children, c.handle = "none", child' = [child EXCEPT ![r] = c],
             file' \in FileTypes, \A g \in Files : file[g] # "none" => file'[g] # "none"
      PROVE  Goal
  <2>1. child' \in [Runs -> Children]
    BY <1>1, <1>4
  <2>2. ASSUME NEW s \in Runs PROVE HandleHeld(s)'
    <3>1. child'[s].handle = "none" \/ child'[s] = child[s]
      BY <1>1, <1>4
    <3>2. child[s].handle \in Files \cup {"none", "gone"}
      BY <1>1 DEF Children
    <3>3. QED
      BY <1>1, <1>4, <3>1, <3>2 DEF HandleHeld
  <2>3. QED
    BY <1>4, <2>1, <2>2
<1>5. ASSUME NEW pc \in Steps, Exits(r, pc), file' \in FileTypes, \A g \in Files : file[g] # "none" => file'[g] # "none"
      PROVE  Goal
  <2>1. PICK c : c = [NoChild EXCEPT !.pc = pc]
    OBVIOUS
  <2>2. c \in Children /\ c.handle = "none"
    BY <2>1 DEF NoChild, Children
  <2>3. QED
    BY <1>4, <1>5, <2>1, <2>2 DEF Exits
<1>6. ASSUME NEW pc \in Steps, Goes(r, pc), child[r].pc # "write", file' = file PROVE Goal
  <2>1. PICK c : c = [child[r] EXCEPT !.pc = pc]
    OBVIOUS
  <2>2. child[r] \in Children /\ child[r].handle = "none"
    BY <1>1, <1>6
  <2>3. c \in Children /\ c.handle = "none"
    BY <2>1, <2>2 DEF Children
  <2>4. child' = [child EXCEPT ![r] = c]
    BY <1>6, <2>1 DEF Goes
  <2>5. QED
    BY <1>1, <1>4, <1>6, <2>3, <2>4
<1>7. ASSUME NEW pc \in Steps, NEW f \in {"none", "target", "receipt"}, NEW p \in Contents \cup {"none", "unsigned"},
             child[r].pc # "write", file' = file,
             child' = [child EXCEPT ![r].pc = pc, ![r].file = f, ![r].payload = p]
      PROVE  Goal
  <2>1. PICK c : c = [child[r] EXCEPT !.pc = pc, !.file = f, !.payload = p]
    OBVIOUS
  <2>2. child[r] \in Children /\ child[r].handle = "none"
    BY <1>1, <1>7
  <2>3. c \in Children /\ c.handle = "none"
    BY <2>1, <2>2 DEF Children
  <2>4. child' = [child EXCEPT ![r] = c]
    BY <1>1, <1>7, <2>1, Zenon
  <2>5. QED
    BY <1>1, <1>4, <1>7, <2>3, <2>4
<1>8. CASE Look(r)
  <2>1. file' = file /\ child[r].pc # "write"
    BY <1>8 DEF Look, Leaves
  <2>2. \/ \E pc \in Steps : Goes(r, pc) \/ Exits(r, pc)
        \/ child' = [child EXCEPT ![r].pc = "open", ![r].file = "target", ![r].payload = Wants(r)]
    BY <1>8, Looks DEF Steps
  <2>3. "open" \in Steps /\ Wants(r) \in Contents \cup {"none", "unsigned"}
    BY <1>1, <1>2 DEF Steps, Saving
  <2>4. QED
    BY <1>1, <1>5, <1>6, <1>7, <2>1, <2>2, <2>3, Zenon
<1>9. CASE Stage(r)
  <2>1. file' = file /\ child[r].pc # "write"
    BY <1>9 DEF Stage, Leaves
  <2>2. ASSUME NEW got \in Delivered(r), child' = [child EXCEPT ![r].pc = "publish", ![r].payload = got] PROVE Goal
    <3>1. got \in Contents
      <4>1. Wanted[materialized] \in Versions
        BY WantedTyped, WantsTyped, ChildFrame, <1>2 DEF Active
      <4>2. QED
        BY <1>1, <1>2, <4>1 DEF Delivered
    <3>2. PICK c : c = [child[r] EXCEPT !.pc = "publish", !.payload = got]
      OBVIOUS
    <3>3. child[r] \in Children /\ child[r].handle = "none"
      BY <1>1, <2>1
    <3>4. c \in Children /\ c.handle = "none"
      BY <3>1, <3>2, <3>3 DEF Children, Steps
    <3>5. child' = [child EXCEPT ![r] = c]
      BY <2>2, <3>2, Zenon
    <3>6. QED
      BY <1>1, <1>4, <2>1, <3>4, <3>5
  <2>3. QED
    BY <1>1, <1>5, <1>9, <2>1, <2>2 DEF Stage, Steps
<1>10. CASE Publish(r)
  <2>1. child[r].payload \in Versions
    <3>1. \E m \in graph[r]..materialized : child[r].payload = Wanted[m]
      BY <1>2, <1>10 DEF Publish, Holds
    <3>2. QED
      BY <3>1, WantedTyped, WantsTyped, <1>10 DEF Publish
  <2>2. \/ Exits(r, "failed") /\ file' = file
        \/ Exits(r, "examine") /\ file' = [file EXCEPT !["target"] = child[r].payload]
    BY <1>10 DEF Publish, Leaves
  <2>3. file' \in FileTypes /\ \A g \in Files : file[g] # "none" => file'[g] # "none"
    BY <1>1, <1>2, <2>1, <2>2 DEF FileTypes
  <2>4. QED
    BY <1>5, <2>2, <2>3 DEF Steps
<1>11. CASE Examine(r)
  <2>1. file' = file
    BY <1>11 DEF Examine, Leaves
  <2>2. CASE child' = [child EXCEPT ![r].pc = "open", ![r].file = "receipt",
                          ![r].payload = IF kind \in Repositories THEN "unsigned" ELSE file["target"]]
    <3>1. PICK c : c = IF kind \in Repositories THEN "unsigned" ELSE file["target"]
      OBVIOUS
    <3>2. c \in Contents \cup {"none", "unsigned"}
      BY <1>1, <3>1 DEF FileTypes, Files
    <3>3. child' = [child EXCEPT ![r].pc = "open", ![r].file = "receipt", ![r].payload = c]
      BY <2>2, <3>1
    <3>4. child[r].pc # "write" /\ "open" \in Steps
      BY <1>11 DEF Examine, Steps, Saving
    <3>5. QED
      BY <1>7, <2>1, <3>2, <3>3, <3>4, Zenon
  <2>3. QED
    BY <1>1, <1>5, <1>11, <2>1, <2>2 DEF Examine, Steps
<1>12. CASE Open(r)
  <2>1. Tmp(child[r].file) \in Files
    BY DEF Tmp, Files
  <2>2. /\ child'[r] = [child[r] EXCEPT !.pc = "write", !.handle = Tmp(child[r].file)]
        /\ \A s \in Runs \ {r} : child'[s] = child[s]
        /\ child' \in [Runs -> Children] /\ child'[r].handle = Tmp(child[r].file)
    <3>1. /\ child' = [child EXCEPT ![r].pc = "write", ![r].handle = Tmp(child[r].file)]
          /\ child[r] \in Children
      BY <1>1, <1>12 DEF Open
    <3>2. PICK c : c = [child[r] EXCEPT !.pc = "write", !.handle = Tmp(child[r].file)]
      OBVIOUS
    <3>3. c \in Children /\ c.handle = Tmp(child[r].file)
      BY <2>1, <3>1, <3>2 DEF Children, Steps, Saving
    <3>4. child' = [child EXCEPT ![r] = c]
      BY <3>1, <3>2, Zenon
    <3>5. QED
      BY <1>1, <3>2, <3>3, <3>4
  <2>3. file' \in FileTypes /\ \A g \in Files : file'[g] = IF g = Tmp(child[r].file) THEN "torn" ELSE file[g]
    BY <1>1, <1>12, <2>1 DEF Open, FileTypes
  <2>4. ASSUME NEW s \in Runs PROVE HandleHeld(s)'
    <3>1. child[s].handle \in Files \cup {"none", "gone"} /\ HandleHeld(s)
      BY <1>1 DEF Children
    <3>2. child'[s].handle = Tmp(child[r].file) \/ child'[s].handle = child[s].handle
      BY <2>2
    <3>3. QED
      BY <2>1, <2>3, <3>1, <3>2 DEF HandleHeld
  <2>5. QED
    BY <2>2, <2>3, <2>4
<1>13. CASE Write(r)
  <2>1. child[r].payload # "none" /\ child[r].payload \in Contents \cup {"none", "unsigned"}
    BY <1>1, <1>2, <1>13 DEF Write, Holds, Saving, Children
  <2>2. file' \in FileTypes /\ \A g \in Files : file[g] # "none" => file'[g] # "none"
    BY <1>1, <1>13, <2>1 DEF Write, FileTypes
  <2>3. PICK c : c = [child[r] EXCEPT !.pc = "rename", !.handle = "none"]
    OBVIOUS
  <2>4. c \in Children /\ c.handle = "none"
    <3>1. child[r] \in Children
      BY <1>1
    <3>2. QED
      BY <2>3, <3>1 DEF Children, Steps, Saving
  <2>5. child' = [child EXCEPT ![r] = c]
    BY <1>13, <2>3 DEF Write
  <2>6. QED
    BY <1>4, <2>2, <2>4, <2>5
<1>14. ASSUME NEW f \in Files, NEW to \in {"gone"} \cup Files, f # to,
              NEW mine \in Children, mine.handle = "none",
              child' = [Moved(f, to) EXCEPT ![r] = mine],
              file' \in FileTypes, \A g \in Files \ {f, to} : file'[g] = file[g],
              to \in Files => file'[to] # "none"
       PROVE  Goal
  <2>1. child' \in [Runs -> Children]
    BY <1>1, <1>14, MovedHandles
  <2>2. ASSUME NEW s \in Runs PROVE HandleHeld(s)'
    <3>1. CASE s = r
      BY <1>1, <1>14, <3>1, MovedHandles DEF HandleHeld
    <3>2. CASE s # r
      <4>1. child'[s].handle = IF child[s].handle = f THEN to
                               ELSE IF child[s].handle = to THEN "gone" ELSE child[s].handle
        BY <1>1, <1>14, <3>2, MovedHandles
      <4>2. child[s].handle \in Files \cup {"none", "gone"} /\ HandleHeld(s)
        BY <1>1 DEF Children
      <4>3. QED
        BY <1>14, <4>1, <4>2 DEF HandleHeld
    <3>3. QED
      BY <3>1, <3>2
  <2>3. QED
    BY <1>14, <2>1, <2>2
<1>15. CASE Rename(r)
  <2> DEFINE f == child[r].file
  <2>1. f \in {"target", "receipt"} /\ f \in Files /\ Tmp(f) \in Files /\ Tmp(f) # f /\ child[r].handle = "none"
    BY <1>1, <1>2, <1>15 DEF Rename, Holds, Saving, Files, Tmp
  <2>2. CASE Exits(r, "failed") /\ file' = file
    BY <1>1, <1>5, <2>2 DEF Steps
  <2>3. CASE /\ file[Tmp(f)] # "none"
             /\ file' = [file EXCEPT ![f] = file[Tmp(f)], ![Tmp(f)] = "none"]
             /\ child' = [Moved(Tmp(f), f) EXCEPT ![r].pc = "unlink"]
    <3>1. file' \in FileTypes /\ file'[f] # "none" /\ \A g \in Files \ {Tmp(f), f} : file'[g] = file[g]
      BY <1>1, <2>1, <2>3 DEF FileTypes
    <3>2. PICK mine : mine = [Moved(Tmp(f), f)[r] EXCEPT !.pc = "unlink"]
      OBVIOUS
    <3>3. mine \in Children /\ mine.handle = "none"
      <4>1. Moved(Tmp(f), f)[r] \in Children /\ Moved(Tmp(f), f)[r].handle = "none"
        BY <1>1, <2>1, MovedHandles DEF Files
      <4>2. QED
        BY <3>2, <4>1 DEF Children, Steps, Saving
    <3>4. child' = [Moved(Tmp(f), f) EXCEPT ![r] = mine]
      BY <2>3, <3>2
    <3>5. QED
      BY <1>14, <2>1, <3>1, <3>3, <3>4
  <2>4. QED
    BY <1>15, <2>2, <2>3 DEF Rename, Leaves
<1>16. CASE Unlink(r)
  <2>1. Tmp(child[r].file) \in Files /\ Tmp(child[r].file) # "gone"
    BY DEF Files, Tmp
  <2>2. PICK mine : mine = [NoChild EXCEPT !.pc = IF child[r].file = "target" THEN "examine" ELSE "done"]
    OBVIOUS
  <2>3. mine \in Children /\ mine.handle = "none"
    BY <2>2 DEF NoChild, Children, Steps
  <2>4. child' = [Moved(Tmp(child[r].file), "gone") EXCEPT ![r] = mine]
    BY <1>16, <2>2 DEF Unlink
  <2>5. file' \in FileTypes /\ \A g \in Files \ {Tmp(child[r].file)} : file'[g] = file[g]
    BY <1>1, <1>16, <2>1 DEF Unlink, FileTypes
  <2>6. QED
    BY <1>14, <2>1, <2>3, <2>4, <2>5 DEF Files
<1>17. QED
  BY <1>8, <1>9, <1>10, <1>11, <1>12, <1>13, <1>15, <1>16 DEF ChildStep

EngineStep(r) ==
    StartRun(r) \/ Dispatch(r) \/ Collect(r) \/ Timeout(r) \/ Finish(r) \/ EngineDies(r) \/ Resume(r)

\* An engine touches no file, and of the children its own.
LEMMA EngineFrame ==
    ASSUME Types, NEW r \in Runs, EngineStep(r)
    PROVE  /\ UNCHANGED <<kind, pinned, materialized, file, alters>>
           /\ \/ UNCHANGED child
              \/ \E pc \in {"look", "failed"} : child' = [child EXCEPT ![r] = [NoChild EXCEPT !.pc = pc]]
           /\ run' = [run EXCEPT ![r] = run'[r]] /\ run'[r] \in {"live", "dead", "ended"}
           /\ task' = [task EXCEPT ![r] = task'[r]]
           /\ task'[r] \in {"pending", "running", "success", "failed", "indeterminate"} \cup {task[r]}
           /\ run'[r] = "ended" => task'[r] \in {"success", "failed", "indeterminate"}
           /\ disturbed' \in BOOLEAN /\ touched' \in BOOLEAN
<1> USE DEF Engine, request, bounds, Exits, Fails
<1>0. /\ run \in [Runs -> {"none", "live", "dead", "ended"}]
      /\ task \in [Runs -> {"none", "pending", "running", "success", "failed", "indeterminate"}]
      /\ disturbed \in BOOLEAN /\ touched \in BOOLEAN
  BY DEF Types, TypeOK
<1> USE <1>0
<1>1. CASE StartRun(r)
  BY <1>1 DEF StartRun
<1>2. CASE Dispatch(r)
  <2>1. CASE Spawn(r)
    BY <1>2, <2>1 DEF Dispatch, Spawn
  <2>2. CASE Refuse(r)
    BY <1>2, <2>2 DEF Dispatch, Refuse
  <2>3. QED
    BY <1>2, <2>1, <2>2 DEF Dispatch
<1>3. CASE Collect(r)
  BY <1>3 DEF Collect
<1>4. CASE Timeout(r)
  BY <1>4 DEF Timeout
<1>5. CASE Finish(r)
  BY <1>5 DEF Finish
<1>6. CASE EngineDies(r)
  BY <1>6 DEF EngineDies
<1>7. CASE Resume(r)
  <2>1. Resumed(r) \in {"success", "pending", "indeterminate", task[r]}
    BY DEF Resumed
  <2>2. task[r] = "running" => Resumed(r) = "indeterminate"
    BY DEF Resumed
  <2>3. QED
    BY <1>7, <2>1, <2>2 DEF Resume
<1>8. QED
  BY <1>1, <1>2, <1>3, <1>4, <1>5, <1>6, <1>7 DEF EngineStep

\* What the rest of the types is made of.
LEMMA TypesStep ==
    ASSUME Types, Begun, \A s \in Runs : Holds(s), Next
    PROVE  Types'
<1> DEFINE Rest ==
        /\ kind \in Kinds /\ pinned \in BOOLEAN /\ (kind = "existing" => ~pinned) /\ materialized \in DOMAIN Wanted
        /\ run \in [Runs -> {"none", "live", "dead", "ended"}]
        /\ task \in [Runs -> {"none", "pending", "running", "success", "failed", "indeterminate"}]
        /\ graph \in [Runs -> 0..materialized]
        /\ \A r \in Runs : run[r] = "ended" => task[r] \in {"success", "failed", "indeterminate"}
        /\ disturbed \in BOOLEAN /\ touched \in BOOLEAN /\ alters \in 0..MaxAlters
        Hand == child \in [Runs -> Children] /\ file \in FileTypes /\ \A s \in Runs : HandleHeld(s)
<1>0. Rest /\ Hand /\ materialized \in Nat
  BY WantedTyped DEF Types, TypeOK, FileTypes, HandleHeld
<1>1. SUFFICES Rest' /\ Hand'
  <2>1. child'\in [Runs -> Children] => \A r \in Runs : child'[r].pc \in Steps
    BY DEF Children
  <2>2. QED
    BY <2>1 DEF Types, TypeOK, FileTypes, HandleHeld, Steps, Saving
<1>2. ASSUME NEW r \in Runs, ChildStep(r) PROVE Rest' /\ Hand'
  <2>1. Hand'
    BY <1>2, ChildTypes
  <2>2. Holds(r)
    OBVIOUS
  <2>3. Rest'
    BY <1>0, <1>2, <2>2, ChildFrame
  <2>4. QED
    BY <2>1, <2>3
<1>3. ASSUME NEW r \in Runs, EngineStep(r) PROVE Rest' /\ Hand'
  <2>1. Hand'
    <3>1. file' = file
      BY <1>3, EngineFrame
    <3>2. CASE child' = child
      BY <1>0, <3>1, <3>2 DEF HandleHeld
    <3>3. ASSUME NEW pc \in {"look", "failed"}, child' = [child EXCEPT ![r] = [NoChild EXCEPT !.pc = pc]]
          PROVE  Hand'
      <4>1. PICK c : c = [NoChild EXCEPT !.pc = pc]
        OBVIOUS
      <4>2. c \in Children /\ c.handle = "none"
        BY <4>1 DEF NoChild, Children, Steps
      <4>3. child' \in [Runs -> Children] /\ \A s \in Runs : child'[s] = child[s] \/ child'[s].handle = "none"
        BY <1>0, <3>3, <4>1, <4>2
      <4>4. QED
        BY <1>0, <3>1, <4>3 DEF HandleHeld
    <3>4. QED
      BY <1>3, <3>2, <3>3, EngineFrame
  <2>2. graph' \in [Runs -> 0..materialized]
    <3>1. graph' = graph \/ graph' = [graph EXCEPT ![r] = materialized]
      BY <1>3 DEF EngineStep, StartRun, Dispatch, Collect, Timeout, Finish, EngineDies, Resume, Engine
    <3>2. QED
      BY <1>0, <3>1
  <2>3. run' \in [Runs -> {"none", "live", "dead", "ended"}]
        /\ task' \in [Runs -> {"none", "pending", "running", "success", "failed", "indeterminate"}]
    BY <1>0, <1>3, EngineFrame
  <2>4. ASSUME NEW s \in Runs, run'[s] = "ended" PROVE task'[s] \in {"success", "failed", "indeterminate"}
    BY <1>0, <1>3, <2>4, EngineFrame
  <2>5. UNCHANGED <<kind, pinned, materialized, alters>> /\ disturbed' \in BOOLEAN /\ touched' \in BOOLEAN
    BY <1>3, EngineFrame
  <2>6. QED
    BY <1>0, <2>1, <2>2, <2>3, <2>4, <2>5
<1>4. CASE Rematerialize
  <2>1. /\ materialized' = materialized + 1 /\ materialized' \in DOMAIN Wanted
    <3>1. DOMAIN Wanted = 1..Len(Wanted) /\ Len(Wanted) \in Nat
      BY PreparationAssumption, LenProperties
    <3>2. QED
      BY <1>0, <1>4, <3>1 DEF Rematerialize
  <2>2. graph' \in [Runs -> 0..materialized']
    <3>1. \A r \in Runs : graph[r] \in 0..materialized'
      BY <1>0, <2>1
    <3>2. QED
      BY <1>0, <1>4, <3>1 DEF Rematerialize, engines
  <2>3. UNCHANGED <<kind, pinned, file, run, task, child, touched, alters>> /\ disturbed' \in BOOLEAN
    BY <1>4 DEF Rematerialize, request, engines
  <2>4. QED
    BY <1>0, <2>1, <2>2, <2>3 DEF HandleHeld
<1>5. ASSUME NEW f \in {"target", "receipt"}, Alter(f) PROVE Rest' /\ Hand'
  <2>1. f \in Files /\ child' = Moved(f, "gone") /\ alters' = alters + 1 /\ alters < MaxAlters
        /\ touched' = TRUE /\ disturbed' \in BOOLEAN /\ UNCHANGED <<kind, pinned, materialized, run, task, graph>>
    BY <1>5 DEF Alter, Files, request, engines
  <2>2. PICK c \in Versions \cup {"none"} : file' = [file EXCEPT ![f] = c]
    BY <1>5 DEF Alter
  <2>3. file' \in FileTypes /\ \A g \in Files \ {f} : file'[g] = file[g]
    BY <1>0, <2>1, <2>2 DEF FileTypes, Contents
  <2>4. child' \in [Runs -> Children]
    BY <1>0, <2>1, MovedHandles
  <2>5. ASSUME NEW s \in Runs PROVE HandleHeld(s)'
    <3>1. child'[s].handle = IF child[s].handle = f THEN "gone"
                             ELSE IF child[s].handle = "gone" THEN "gone" ELSE child[s].handle
      BY <1>0, <2>1, MovedHandles
    <3>2. child[s].handle \in Files \cup {"none", "gone"} /\ HandleHeld(s)
      BY <1>0 DEF Children
    <3>3. QED
      BY <2>3, <3>1, <3>2 DEF HandleHeld
  <2>6. alters' \in 0..MaxAlters
    <3>1. MaxAlters \in Nat
      BY PreparationAssumption
    <3>2. QED
      BY <1>0, <2>1, <3>1
  <2>7. QED
    BY <1>0, <2>1, <2>3, <2>4, <2>5, <2>6
<1> HIDE DEF Rest, Hand
<1>6. QED
  BY <1>2, <1>3, <1>4, <1>5 DEF Next, EngineStep

\* A run begins once, and only a run that began has a child.
LEMMA BegunStep ==
    ASSUME Types, Begun, \A s \in Runs : Holds(s), Next
    PROVE  Begun'
<1>0. /\ run \in [Runs -> {"none", "live", "dead", "ended"}] /\ graph \in [Runs -> 0..materialized]
      /\ task \in [Runs -> {"none", "pending", "running", "success", "failed", "indeterminate"}]
      /\ child \in [Runs -> Children] /\ materialized \in Nat /\ materialized >= 1
  <2>1. materialized >= 1
    BY PreparationAssumption, LenProperties DEF Types, TypeOK
  <2>2. QED
    BY <2>1, WantedTyped DEF Types, TypeOK
<1>1. ASSUME NEW r \in Runs, ChildStep(r) PROVE Begun'
  <2>1. Holds(r) /\ Active(r)
    BY <1>1, ChildFrame
  <2>2. run[r] # "none"
    BY <2>1, WantsTyped DEF Active
  <2>3. \A t \in Runs \ {r} : child'[t].pc = child[t].pc
    BY <1>1, <2>1, ChildFrame DEF Same
  <2>4. task[r] # "success"
    BY <2>1, <2>2 DEF Begun, Active
  <2>5. UNCHANGED <<run, task, graph, materialized>>
    BY <1>1, <2>1, ChildFrame
  <2>6. QED
    BY <2>2, <2>3, <2>4, <2>5 DEF Begun
<1>2. ASSUME NEW r \in Runs, EngineStep(r) PROVE Begun'
  <2>1. (graph' = graph /\ run[r] # "none") \/ graph' = [graph EXCEPT ![r] = materialized]
    BY <1>2 DEF EngineStep, StartRun, Dispatch, Collect, Timeout, Finish, EngineDies, Resume, Engine
  <2>2. graph'[r] \in 1..materialized /\ \A s \in Runs \ {r} : graph'[s] = graph[s]
    BY <1>0, <2>1 DEF Begun
  <2>3. \A s \in Runs \ {r} : run'[s] = run[s] /\ task'[s] = task[s] /\ child'[s] = child[s]
    BY <1>0, <1>2, EngineFrame
  <2>4. task'[r] = "success" => child'[r].pc = "done"
    <3>1. task[r] = "success" => child[r].pc = "done" /\ ~Active(r)
      <4>1. task[r] = "success" => run[r] # "none"
        BY DEF Begun
      <4>2. QED
        BY <4>1 DEF Begun, Active
    <3>2. CASE StartRun(r) \/ Dispatch(r) \/ Timeout(r)
      BY <1>0, <3>2 DEF StartRun, Dispatch, Spawn, Refuse, Timeout, Fails
    <3>3. CASE Collect(r)
      BY <1>0, <3>3 DEF Collect, Fails
    <3>4. CASE Finish(r) \/ EngineDies(r)
      BY <1>0, <3>1, <3>4 DEF Finish, EngineDies
    <3>5. CASE Resume(r)
      BY <1>0, <3>1, <3>5 DEF Resume, Resumed
    <3>6. QED
      BY <1>2, <3>2, <3>3, <3>4, <3>5 DEF EngineStep
  <2>5. run'[r] # "none" /\ materialized' = materialized
    BY <1>0, <1>2, EngineFrame
  <2>6. QED
    BY <2>2, <2>3, <2>4, <2>5 DEF Begun
<1>3. CASE Rematerialize
  BY <1>0, <1>3 DEF Rematerialize, engines, Begun
<1>4. ASSUME NEW f \in {"target", "receipt"}, Alter(f) PROVE Begun'
  BY <1>0, <1>4, MovedHandles DEF Alter, engines, Begun
<1>5. QED
  BY <1>1, <1>2, <1>3, <1>4 DEF Next, EngineStep

After(r, pc, f, p, h) ==
    child'[r].pc = pc /\ child'[r].file = f /\ child'[r].payload = p /\ child'[r].handle = h

\* The steps of a child, one by one: what they need, what they leave it with, and
\* what they do to the files.
Effects(r) ==
    LET f == child[r].file
        p == child[r].payload IN
    \/ After(r, "failed", "none", "none", "none") /\ file' = file
    \/ /\ child[r].pc = "look" /\ file' = file
       /\ \/ /\ After(r, "examine", "none", p, "none") /\ file["target"] # "none" /\ (Signed => file["target"] = Wants(r))
             /\ kind = "git" => file["target"] \notin Unversioned
          \/ After(r, "stage", "none", p, "none") /\ kind \in Fetched
          \/ After(r, "open", "target", Wants(r), "none") /\ kind = "rendered"
    \/ /\ child[r].pc = "stage" /\ file' = file
       /\ \E got \in Delivered(r) : Verified(r, got) /\ After(r, "publish", "none", got, "none")
    \/ /\ child[r].pc = "publish" /\ After(r, "examine", "none", "none", "none")
       /\ kind \in {"git", "archive"} => file["target"] = "none"
       /\ file' = [file EXCEPT !["target"] = p]
    \/ /\ child[r].pc = "examine" /\ Examined(r) /\ file' = file
       /\ After(r, "open", "receipt", IF kind \in Repositories THEN "unsigned" ELSE file["target"], "none")
    \/ child[r].pc = "open" /\ After(r, "write", f, p, Tmp(f)) /\ file' = [file EXCEPT ![Tmp(f)] = "torn"]
    \/ /\ child[r].pc = "write" /\ After(r, "rename", f, p, "none")
       /\ file' = [g \in Files |-> IF g = child[r].handle THEN p ELSE file[g]]
    \/ /\ child[r].pc = "rename" /\ After(r, "unlink", f, p, "none")
       /\ file' = [file EXCEPT ![f] = file[Tmp(f)], ![Tmp(f)] = "none"]
    \/ /\ child[r].pc = "unlink" /\ After(r, IF f = "target" THEN "examine" ELSE "done", "none", "none", "none")
       /\ file' = [file EXCEPT ![Tmp(f)] = "none"]

\* Every step of a child has one of these effects.
LEMMA Effect ==
    ASSUME Types, NEW r \in Runs, Holds(r), ChildStep(r)
    PROVE  Effects(r)
<1>0. child \in [Runs -> Children] /\ child[r].file \in {"none", "target", "receipt"} /\ child[r] \in Children
  <2>1. child \in [Runs -> Children]
    BY DEF Types
  <2>2. QED
    BY <2>1 DEF Children
<1>1. ASSUME NEW pc, Exits(r, pc) PROVE After(r, pc, "none", "none", "none")
  BY <1>0, <1>1 DEF Exits, NoChild, After
<1>2. ASSUME NEW pc, Goes(r, pc) PROVE After(r, pc, child[r].file, child[r].payload, child[r].handle)
  BY <1>0, <1>2 DEF Goes, After, Children
<1>3. CASE Look(r)
  <2>1. child[r].pc = "look" /\ file' = file /\ child[r].file = "none" /\ child[r].handle = "none"
    BY <1>3 DEF Look, Leaves, Holds, Saving
  <2>2. CASE Exits(r, "failed")
    BY <1>1, <2>1, <2>2 DEF Effects
  <2>3. CASE Goes(r, "stage") /\ kind \in Fetched
    BY <1>2, <2>1, <2>3 DEF Effects
  <2>4. CASE /\ Goes(r, "examine") /\ file["target"] # "none"
             /\ Signed => file["target"] = Wants(r)
             /\ kind = "git" => file["target"] \notin Unversioned
    BY <1>2, <2>1, <2>4 DEF Effects
  <2>5. CASE kind = "rendered" /\ child' = [child EXCEPT ![r].pc = "open", ![r].file = "target", ![r].payload = Wants(r)]
    <3>1. After(r, "open", "target", Wants(r), "none")
      BY <1>0, <2>1, <2>5 DEF After, Children
    <3>2. QED
      BY <2>1, <2>5, <3>1 DEF Effects
  <2>6. QED
    BY <1>3, <2>2, <2>3, <2>4, <2>5, Looks, Zenon
<1>4. CASE Stage(r)
  <2>1. child[r].pc = "stage" /\ file' = file /\ child[r].file = "none" /\ child[r].handle = "none"
    BY <1>4 DEF Stage, Leaves, Holds, Saving
  <2>2. ASSUME NEW got \in Delivered(r), Verified(r, got), child' = [child EXCEPT ![r].pc = "publish", ![r].payload = got]
        PROVE  Effects(r)
    <3>1. After(r, "publish", "none", got, "none")
      BY <1>0, <2>1, <2>2 DEF After, Children
    <3>2. QED
      BY <2>1, <2>2, <3>1 DEF Effects
  <2>3. QED
    BY <1>1, <1>4, <2>1, <2>2 DEF Stage, Effects
<1>5. CASE Publish(r)
  BY <1>1, <1>5 DEF Publish, Leaves, Effects
<1>6. CASE Examine(r)
  <2>1. child[r].pc = "examine" /\ file' = file /\ child[r].file = "none" /\ child[r].handle = "none"
    BY <1>6 DEF Examine, Leaves, Holds, Saving
  <2>2. CASE /\ Examined(r)
             /\ child' = [child EXCEPT ![r].pc = "open", ![r].file = "receipt",
                              ![r].payload = IF kind \in Repositories THEN "unsigned" ELSE file["target"]]
    <3>1. After(r, "open", "receipt", IF kind \in Repositories THEN "unsigned" ELSE file["target"], "none")
      BY <1>0, <2>1, <2>2 DEF After, Children
    <3>2. QED
      BY <2>1, <2>2, <3>1 DEF Effects
  <2>3. QED
    BY <1>1, <1>6, <2>1, <2>2 DEF Examine, Effects
<1>7. CASE Open(r)
  <2>1. After(r, "write", child[r].file, child[r].payload, Tmp(child[r].file))
    BY <1>0, <1>7 DEF Open, After, Children
  <2>2. QED
    BY <1>7, <2>1 DEF Open, Effects
<1>8. CASE Write(r)
  <2>1. After(r, "rename", child[r].file, child[r].payload, "none")
    BY <1>0, <1>8 DEF Write, After, Children
  <2>2. QED
    BY <1>8, <2>1 DEF Write, Effects
<1>9. CASE Rename(r)
  <2> DEFINE f == child[r].file
             moved == Moved(Tmp(f), f)
  <2>1. CASE child' = [moved EXCEPT ![r].pc = "unlink"] /\ file' = [file EXCEPT ![f] = file[Tmp(f)], ![Tmp(f)] = "none"]
    <3>1. f \in {"target", "receipt"} /\ f \in Files /\ child[r].handle = "none"
      BY <1>9 DEF Rename, Holds, Saving, Files
    <3>2. /\ moved[r].file = f /\ moved[r].payload = child[r].payload /\ moved[r].handle = "none"
          /\ moved \in [Runs -> Children]
      BY <1>0, <3>1, MovedHandles DEF Tmp
    <3>3. After(r, "unlink", f, child[r].payload, "none")
      BY <2>1, <3>2 DEF After, Children
    <3>4. QED
      BY <1>9, <2>1, <3>3 DEF Rename, Effects
  <2>2. QED
    BY <1>1, <1>9, <2>1 DEF Rename, Leaves, Effects
<1>10. CASE Unlink(r)
  <2>1. After(r, IF child[r].file = "target" THEN "examine" ELSE "done", "none", "none", "none")
    BY <1>0, <1>10 DEF Unlink, Moved, NoChild, After
  <2>2. QED
    BY <1>10, <2>1 DEF Unlink, Effects
<1>11. QED
  BY <1>3, <1>4, <1>5, <1>6, <1>7, <1>8, <1>9, <1>10 DEF ChildStep

\* What a child has in hand fits its step, whatever the others do.
LEMMA HoldsStep ==
    ASSUME Types, Begun, \A s \in Runs : Holds(s), Next, NEW s \in Runs
    PROVE  Holds(s)'
<1>0. /\ child \in [Runs -> Children] /\ graph \in [Runs -> 0..materialized] /\ materialized \in Nat
      /\ Holds(s) /\ child[s].handle \in Files \cup {"none", "gone"}
  <2>1. child \in [Runs -> Children]
    BY DEF Types
  <2>2. child[s].handle \in Files \cup {"none", "gone"}
    BY <2>1 DEF Children
  <2>3. QED
    BY <2>1, <2>2, WantedTyped DEF Types, TypeOK
\* Another's step, or one of s that only moves what it has open.
<1>1. ASSUME Same(s), kind' = kind, graph'[s] = graph[s], materialized' \in Nat, materialized' >= materialized
      PROVE  Holds(s)'
  <2>1. Wants(s)' = Wants(s) /\ graph[s]..materialized \subseteq graph'[s]..materialized'
    BY <1>0, <1>1 DEF Wants
  <2>2. child[s].handle = "none" => child'[s].handle = "none"
    BY <1>1 DEF Same, Tmp
  <2>3. child'[s].handle \in {"target", "target.tmp"} => child[s].handle \in {"target", "target.tmp"}
    BY <1>1 DEF Same, Tmp
  <2>4. child'[s].handle \in {"receipt", "receipt.tmp"} => child[s].handle \in {"receipt", "receipt.tmp"}
    BY <1>1 DEF Same, Tmp
  <2>5. QED
    BY <1>0, <1>1, <2>1, <2>2, <2>3, <2>4 DEF Holds, Same
<1>2. ASSUME child'[s] = child[s], kind' = kind, graph'[s] = graph[s], materialized' = materialized
      PROVE  Holds(s)'
  BY <1>0, <1>1, <1>2 DEF Same
\* A child that is gone, or starts anew, has nothing.
<1>3. ASSUME NEW pc \in Steps \ ({"stage", "publish"} \cup Saving), child'[s] = [NoChild EXCEPT !.pc = pc] PROVE Holds(s)'
  <2>1. child'[s].pc = pc /\ child'[s].file = "none" /\ child'[s].payload = "none" /\ child'[s].handle = "none"
    BY <1>3 DEF NoChild
  <2>2. QED
    BY <2>1 DEF Holds, Saving
<1>4. ASSUME ChildStep(s) PROVE Holds(s)'
  <2>0. /\ Wants(s)' = Wants(s) /\ UNCHANGED <<kind, graph, materialized>>
        /\ graph[s] \in 1..materialized /\ Wants(s) \in Versions /\ Wants(s) # "none"
    BY <1>0, <1>4, ChildFrame, WantsTyped DEF Wants, Active
  <2>1. ASSUME child[s].pc = "stage", NEW got \in Delivered(s), Verified(s, got), After(s, "publish", "none", got, "none")
        PROVE  Holds(s)'
    <3>1. kind \in Fetched
      BY <1>0, <2>1 DEF Holds
    <3>2. (\E m \in graph[s]..materialized : got = Wanted[m]) /\ (kind # "copied" => got = Wants(s))
      BY <1>0, <2>0, <2>1, <3>1 DEF Delivered, Verified, Fetched, Wants
    <3>3. QED
      BY <2>0, <2>1, <3>1, <3>2 DEF Holds, After, Saving
  <2>2. child[s].pc \in Saving => child[s].file \in {"target", "receipt"} /\ child[s].payload # "none"
    BY <1>0 DEF Holds
  <2>3. QED
    BY <1>0, <1>4, <2>0, <2>1, <2>2, Effect DEF Holds, After, Saving, Tmp, Examined, Effects
<1>5. ASSUME NEW r \in Runs \ {s}, ChildStep(r) PROVE Holds(s)'
  BY <1>0, <1>1, <1>5, ChildFrame
<1>6. ASSUME NEW r \in Runs, EngineStep(r) PROVE Holds(s)'
  <2>1. CASE r # s
    <3>1. child'[s] = child[s] /\ UNCHANGED <<kind, materialized>>
      BY <1>0, <1>6, <2>1, EngineFrame
    <3>2. graph'[s] = graph[s]
      BY <1>0, <1>6, <2>1
         DEF EngineStep, StartRun, Dispatch, Collect, Timeout, Finish, EngineDies, Resume, Engine
    <3>3. QED
      BY <1>2, <3>1, <3>2
  <2>2. CASE r = s /\ child' = [child EXCEPT ![s] = [NoChild EXCEPT !.pc = "look"]]
    BY <1>0, <1>3, <2>2 DEF Steps, Saving
  <2>3. CASE r = s /\ child' = [child EXCEPT ![s] = [NoChild EXCEPT !.pc = "failed"]]
    BY <1>0, <1>3, <2>3 DEF Steps, Saving
  <2>4. CASE r = s /\ child' = child
    <3>1. UNCHANGED <<kind, materialized>>
      BY <1>6, EngineFrame
    <3>2. CASE graph' = graph
      BY <1>2, <2>4, <3>1, <3>2
    <3>3. CASE StartRun(s)
      <4>1. child[s].pc = "none"
        <5>1. run[s] = "none"
          BY <3>3, PreparationAssumption DEF StartRun, Following, Runs
        <5>2. QED
          BY <5>1 DEF Begun
      <4>2. QED
        BY <1>0, <2>4, <4>1 DEF Holds, Saving
    <3>4. QED
      BY <1>6, <2>4, <3>2, <3>3 DEF EngineStep, Dispatch, Collect, Timeout, Finish, EngineDies, Resume, Engine
  <2>5. QED
    BY <1>6, <2>1, <2>2, <2>3, <2>4, EngineFrame
<1>7. CASE Rematerialize
  BY <1>0, <1>1, <1>7 DEF Rematerialize, request, engines, Same
<1>8. ASSUME NEW f \in {"target", "receipt"}, Alter(f) PROVE Holds(s)'
  <2>1. Same(s)
    BY <1>0, <1>8, MovedHandles DEF Alter, Same
  <2>2. QED
    BY <1>0, <1>1, <1>8, <2>1 DEF Alter, request, engines
<1>9. QED
  BY <1>4, <1>5, <1>6, <1>7, <1>8 DEF Next, EngineStep

\* What a child's step does to the target: it publishes there what it was asked
\* for, and only one that renders it writes there otherwise.
LEMMA TargetEffect ==
    ASSUME Types, NEW r \in Runs, Holds(r), ChildStep(r), file'["target"] # file["target"]
    PROVE  \/ /\ child[r].pc = "publish" /\ kind \in Fetched /\ file'["target"] = child[r].payload
              /\ kind \in {"git", "archive"} => file["target"] = "none"
           \/ kind = "rendered" /\ child[r].file = "target"
<1>1. file \in FileTypes /\ "target" \in Files
  BY DEF Types, TypeOK, FileTypes, Files
<1>2. Tmp(child[r].file) # "target"
  BY DEF Tmp
<1>3. QED
  BY <1>1, <1>2, Effect DEF Effects, FileTypes, Holds, Saving

\* A child that found something there works for a run that asks for a version.
LEMMA FoundBegan ==
    ASSUME Types, Begun, NEW r \in Runs, Found(r)
    PROVE  run[r] # "none" /\ graph[r] \in 1..materialized /\ Wants(r) \in Versions /\ Wants(r) # "none"
BY WantsTyped DEF Found, Approved, Saving

\* A child that finds a target that it may take, or that has put one there.
LEMMA Finds ==
    ASSUME Types, Begun, \A s \in Runs : Holds(s), TargetStays, kind \in Stable, alters = 0,
           NEW r \in Runs, ChildStep(r), Found(r)', file' = file
    PROVE  file["target"] # "none" /\ (Approved(r)' /\ Compared => file["target"] = Wants(r))
<1>0. /\ Effects(r) /\ Holds(r) /\ UNCHANGED <<kind, pinned>> /\ kind # "rendered"
      /\ Contents = Versions \cup {"torn"} /\ file \in FileTypes /\ "target" \in Files
      /\ graph[r] \in 1..materialized /\ Active(r) /\ "none" \notin Versions
  BY Effect, ChildFrame, WantsTyped, PreparationAssumption
     DEF Stable, Repositories, Contents, Active, Types, TypeOK, FileTypes, Files
<1>1. file["target"] \in Versions \cup {"none"} /\ (kind = "git" => file["target"] \notin Unversioned)
  BY DEF TargetStays
<1>2. CASE Approved(r)
  BY <1>2 DEF TargetStays, Found
<1>3. CASE child[r].pc = "look" /\ After(r, "examine", "none", child[r].payload, "none")
  <2>1. CASE kind \in Repositories
    BY <1>0, <1>3, <2>1 DEF Effects, After, Approved, Saving
  <2>2. CASE kind \notin Repositories
    BY <1>0, <1>3, <2>2 DEF Effects, After, Compared, Signed
  <2>3. QED
    BY <2>1, <2>2
<1>4. CASE child[r].pc = "examine" /\ kind \in Repositories /\ Examined(r)
  <2>1. file["target"] # "none"
    BY <1>4 DEF TargetStays, Found
  <2>2. Compared => file["target"] \in Versions \ Unversioned /\ pinned
    BY <1>1, <1>4, <2>1 DEF Compared, Repositories
  <2>3. QED
    BY <1>4, <2>1, <2>2 DEF Examined
<1>5. CASE child[r].pc = "publish" /\ file' = [file EXCEPT !["target"] = child[r].payload]
  <2>1. child[r].payload = Wants(r) /\ Wants(r) # "none"
    BY <1>0, <1>5, WantsTyped DEF Holds, Stable, Repositories, Active
  <2>2. file["target"] = child[r].payload
    BY <1>0, <1>5 DEF FileTypes
  <2>3. QED
    BY <2>1, <2>2
<1>6. CASE child[r].pc \in Saving
  BY <1>2, <1>6 DEF Approved
<1>7. CASE child[r].pc = "examine" /\ kind \notin Repositories
  BY <1>2, <1>7 DEF Approved
<1>8. child'[r].pc \in Saving \cup {"done", "examine"}
  BY DEF Found, Approved
<1>9. QED
  BY <1>0, <1>3, <1>4, <1>5, <1>6, <1>7, <1>8 DEF Effects, After, Saving

\* Nobody takes away or replaces a target that somebody found or approved of.
LEMMA TargetStaysStep ==
    ASSUME Types, Begun, \A s \in Runs : Holds(s), TargetStays, Next
    PROVE  TargetStays'
<1>0. /\ run \in [Runs -> {"none", "live", "dead", "ended"}] /\ graph \in [Runs -> 0..materialized]
      /\ task \in [Runs -> {"none", "pending", "running", "success", "failed", "indeterminate"}]
      /\ child \in [Runs -> Children] /\ alters \in Nat
  <2>1. MaxAlters \in Nat
    BY PreparationAssumption
  <2>2. QED
    BY <2>1 DEF Types, TypeOK
<1>1. SUFFICES ASSUME kind' \in Stable, alters' = 0 PROVE TargetStays'
  BY DEF TargetStays
\* Steps that leave the target and the runs' children as they are.
<1>2. ASSUME UNCHANGED <<kind, pinned, file, alters>>,
             \A s \in Runs : Found(s)' => Found(s) /\ Wants(s)' = Wants(s),
             \A s \in Runs : Approved(s)' => Approved(s)
      PROVE  TargetStays'
  <2>1. Compared' = Compared /\ file' = file /\ kind' = kind /\ kind \in Stable /\ alters = 0
    BY <1>1, <1>2 DEF Compared
  <2>2. /\ file'["target"] \in Versions \cup {"none"}
        /\ kind' = "git" => file'["target"] \notin Unversioned
    BY <2>1 DEF TargetStays
  <2>3. ASSUME NEW s \in Runs, Found(s)' PROVE file'["target"] # "none"
    BY <1>2, <2>1, <2>3 DEF TargetStays
  <2>4. ASSUME Compared', NEW s \in Runs, Approved(s)' PROVE file'["target"] = Wants(s)'
    <3>1. Approved(s) /\ Found(s)'
      BY <1>2, <2>4 DEF Found
    <3>2. Wants(s)' = Wants(s)
      BY <1>2, <3>1
    <3>3. file["target"] = Wants(s)
      BY <2>1, <2>4, <3>1 DEF TargetStays
    <3>4. QED
      BY <2>1, <3>2, <3>3
  <2>5. QED
    BY <2>2, <2>3, <2>4 DEF TargetStays
<1>3. ASSUME NEW r \in Runs, ChildStep(r) PROVE TargetStays'
  <2>1. /\ \A s \in Runs : Wants(s)' = Wants(s)
        /\ UNCHANGED <<kind, pinned, alters, task>> /\ kind \in Stable /\ alters = 0
        /\ Effects(r) /\ Holds(r) /\ graph[r] \in 1..materialized
        /\ Wants(r) \in Versions /\ Wants(r) \notin Unversioned /\ Wants(r) # "none"
    BY <1>1, <1>3, ChildFrame, Effect, WantsTyped DEF Wants, Active
  <2>2. \A s \in Runs \ {r} : (Found(s)' => Found(s)) /\ (Approved(s)' => Approved(s))
    BY <1>3, <2>1, ChildFrame DEF Found, Approved, Same
  <2>3. CASE file'["target"] = file["target"]
    <3>1. Compared' = Compared
      BY <2>1, <2>3 DEF Compared
    <3>2. Found(r)' => file["target"] # "none" /\ (Approved(r)' /\ Compared => file["target"] = Wants(r))
      <4>1. CASE file' = file
        BY <1>3, <2>1, <4>1, Finds
      <4>2. CASE child[r].pc = "publish" /\ file' = [file EXCEPT !["target"] = child[r].payload]
        <5>1. kind # "copied" /\ child[r].payload = Wants(r)
          BY <2>1, <4>2 DEF Stable, Repositories, Holds
        <5>2. file'["target"] = child[r].payload
          BY <4>2 DEF Types, TypeOK, Files
        <5>3. QED
          BY <2>1, <2>3, <5>1, <5>2
      <4>3. CASE child[r].pc \in Saving
        BY <2>1, <4>3 DEF TargetStays, Found, Approved
      <4>4. QED
        BY <2>1, <4>1, <4>2, <4>3 DEF Effects, Saving
    <3>3. QED
      BY <1>1, <2>1, <2>2, <2>3, <3>1, <3>2 DEF TargetStays, Found
  <2>4. CASE file'["target"] # file["target"]
    <3>1. /\ child[r].pc = "publish" /\ kind \in {"git", "https", "archive"} /\ file'["target"] = child[r].payload
          /\ file["target"] = "none"
      BY <1>3, <2>1, <2>4, TargetEffect DEF Stable, Repositories, Fetched
    <3>2. file'["target"] = Wants(r)
      BY <2>1, <3>1 DEF Holds
    <3>3. \A s \in Runs : ~Found(s)
      BY <2>1, <3>1 DEF TargetStays
    <3>4. \A s \in Runs \ {r} : ~Found(s)' /\ ~Approved(s)'
      BY <2>2, <3>3 DEF Found
    <3>5. QED
      BY <2>1, <3>2, <3>4 DEF TargetStays
  <2>5. QED
    BY <2>3, <2>4
<1>4. ASSUME NEW r \in Runs, EngineStep(r) PROVE TargetStays'
  <2>1. UNCHANGED <<kind, pinned, file, alters>>
    BY <1>4, EngineFrame
  <2>2. ASSUME NEW s \in Runs PROVE (Approved(s)' => Approved(s)) /\ (Found(s)' => Found(s) /\ Wants(s)' = Wants(s))
    <3>1. child'[s] = child[s] \/ child'[s] = [NoChild EXCEPT !.pc = "look"] \/ child'[s] = [NoChild EXCEPT !.pc = "failed"]
      BY <1>0, <1>4, EngineFrame
    <3>2. (Approved(s)' => Approved(s)) /\ (Found(s)' => Found(s) /\ child'[s] = child[s])
      BY <2>1, <3>1 DEF Approved, Found, NoChild, Saving
    <3>3. Found(s) => run[s] # "none"
      BY FoundBegan
    <3>4. run[s] # "none" => graph'[s] = graph[s]
      BY <1>0, <1>4, PreparationAssumption
         DEF EngineStep, StartRun, Following, Runs, Dispatch, Collect, Timeout, Finish, EngineDies, Resume, Engine
    <3>5. QED
      BY <3>2, <3>3, <3>4 DEF Wants
  <2>3. QED
    BY <1>2, <2>1, <2>2
<1>5. CASE Rematerialize
  BY <1>2, <1>5 DEF Rematerialize, request, engines, Found, Approved, Wants
<1>6. ASSUME NEW f \in {"target", "receipt"}, Alter(f) PROVE FALSE
  BY <1>0, <1>1, <1>6 DEF Alter
<1>7. QED
  BY <1>3, <1>4, <1>5, <1>6 DEF Next, EngineStep

\* A child that is not at work has nothing in hand.
LEMMA Idle ==
    ASSUME NEW r \in Runs, Holds(r), ~Active(r)
    PROVE  Progress(r) /\ Alone(r)
BY DEF Active, Holds, Progress, Alone, Saving

\* Without overlaps, runs follow one another.
LEMMA OrderlyStep ==
    ASSUME Types, Begun, \A s \in Runs : Holds(s), Undisturbed, Next, ~disturbed'
    PROVE  Orderly' /\ ~disturbed
<1>0. /\ run \in [Runs -> {"none", "live", "dead", "ended"}] /\ graph \in [Runs -> 0..materialized]
      /\ materialized \in Nat /\ materialized >= 1
  <2>1. materialized >= 1
    BY PreparationAssumption, LenProperties DEF Types, TypeOK
  <2>2. QED
    BY <2>1, WantedTyped DEF Types, TypeOK
<1>1. ~disturbed
  <2>1. ASSUME NEW r \in Runs, ChildStep(r) PROVE ~disturbed
    BY <2>1, ChildFrame
  <2>2. ASSUME NEW r \in Runs, EngineStep(r) PROVE ~disturbed
    BY <2>2 DEF EngineStep, StartRun, Dispatch, Collect, Timeout, Finish, EngineDies, Resume, Engine, bounds
  <2>3. QED
    BY <2>1, <2>2 DEF Next, EngineStep, Rematerialize, Alter
<1>2. Orderly
  BY <1>1 DEF Undisturbed
<1>3. ASSUME NEW r \in Runs, ChildStep(r) PROVE Orderly'
  <2>1. /\ UNCHANGED <<run, graph, materialized>> /\ Active(r)
        /\ \A s \in Runs : Active(s)' => Active(s)
    BY <1>3, ChildFrame DEF Same, Active
  <2>2. QED
    BY <1>2, <2>1 DEF Orderly, Busy
<1>4. ASSUME NEW r \in Runs, EngineStep(r) PROVE Orderly'
  <2>1. materialized' = materialized /\ \A s \in Runs \ {r} : run'[s] = run[s] /\ (Active(s)' <=> Active(s))
    BY <1>0, <1>4, EngineFrame DEF Active, Types
  <2>2. CASE run[r] # "live"
    <3>1. StartRun(r) \/ Resume(r)
      BY <1>4, <2>2 DEF EngineStep, Dispatch, Collect, Timeout, Finish, EngineDies
    <3>2. Company(r) = {} /\ graph'[r] = materialized /\ (\A s \in Runs \ {r} : graph'[s] = graph[s]) /\ child' = child
      BY <1>0, <3>1 DEF StartRun, Resume
    <3>3. \A s \in Runs \ {r} : ~Busy(s) /\ ~Busy(s)'
      BY <2>1, <3>2 DEF Company, Busy
    <3>4. QED
      BY <1>0, <2>1, <3>2, <3>3 DEF Orderly, Busy
  <2>3. CASE run[r] = "live"
    <3>1. graph' = graph
      BY <1>4, <2>3, PreparationAssumption
         DEF EngineStep, StartRun, Following, Runs, Dispatch, Collect, Timeout, Finish, EngineDies, Resume, Engine
    <3>2. QED
      BY <1>2, <2>1, <2>3, <3>1 DEF Orderly, Busy
  <2>4. QED
    BY <2>2, <2>3
<1>5. ASSUME Rematerialize PROVE Orderly'
  <2>1. /\ UNCHANGED <<run, graph, child>> /\ materialized' = materialized + 1
        /\ \A s \in Runs : run[s] # "live"
    BY <1>5 DEF Rematerialize, engines
  <2>2. \A s \in Runs : graph[s] # materialized'
    BY <1>0, <2>1
  <2>3. QED
    BY <1>2, <2>1, <2>2 DEF Orderly, Busy, Active
<1>6. ASSUME NEW f \in {"target", "receipt"}, Alter(f) PROVE Orderly'
  <2>1. UNCHANGED <<run, graph, materialized>> /\ \A s \in Runs : Active(s)' <=> Active(s)
    BY <1>6, MovedHandles DEF Alter, engines, Active, Types
  <2>2. QED
    BY <1>2, <2>1 DEF Orderly, Busy
<1>7. QED
  BY <1>1, <1>3, <1>4, <1>5, <1>6 DEF Next, EngineStep

\* What an engine's step leaves to the others, while nothing disturbs them.
LEMMA OthersFrame ==
    ASSUME Types, Begun, \A t \in Runs : Holds(t), Undisturbed, Next, ~disturbed',
           NEW r \in Runs, EngineStep(r), NEW s \in Runs \ {r}
    PROVE  /\ run'[s] = run[s] /\ task'[s] = task[s] /\ child'[s] = child[s] /\ graph'[s] = graph[s]
           /\ run[s] = "live" => touched' = touched
<1>0. /\ run \in [Runs -> {"none", "live", "dead", "ended"}] /\ graph \in [Runs -> 0..materialized]
      /\ task \in [Runs -> {"none", "pending", "running", "success", "failed", "indeterminate"}]
      /\ child \in [Runs -> Children] /\ Orderly
  BY OrderlyStep DEF Undisturbed, Types, TypeOK
<1>1. run'[s] = run[s] /\ task'[s] = task[s] /\ child'[s] = child[s]
  BY <1>0, EngineFrame
<1>2. graph'[s] = graph[s]
  BY <1>0 DEF EngineStep, StartRun, Dispatch, Collect, Timeout, Finish, EngineDies, Resume, Engine
<1>3. run[s] = "live" => touched' = touched
  <2>1. CASE run[r] = "live"
    BY <1>0, <2>1 DEF Orderly, Busy
  <2>2. CASE run[r] # "live"
    BY <2>2, OrderlyStep
       DEF EngineStep, StartRun, Dispatch, Collect, Timeout, Finish, EngineDies, Resume, Engine, bounds, Company
  <2>3. QED
    BY <2>1, <2>2
<1>4. QED
  BY <1>1, <1>2, <1>3

\* A child that is alone never leaves a target half written.
LEMMA WholeStep ==
    ASSUME Types, Begun, \A s \in Runs : Holds(s), Undisturbed, Next, ~disturbed'
    PROVE  file'["target"] # "torn"
<1>0. /\ file["target"] # "torn" /\ (\A r \in Runs : Alone(r)) /\ file \in FileTypes
      /\ "torn" \notin Versions /\ "target" \in Files
  BY OrderlyStep, PreparationAssumption DEF Undisturbed, Types, TypeOK, FileTypes, Files
<1>1. ASSUME NEW r \in Runs, ChildStep(r), file'["target"] # file["target"] PROVE file'["target"] # "torn"
  <2>1. /\ Effects(r) /\ Holds(r) /\ Alone(r) /\ Wants(r) \in Versions /\ graph[r] \in 1..materialized
        /\ \A m \in 1..materialized : Wanted[m] \in Versions
    BY <1>0, <1>1, Effect, ChildFrame, WantsTyped, WantedTyped DEF Active
  <2>2. CASE child[r].pc = "publish" /\ file'["target"] = child[r].payload
    <3>1. PICK m \in graph[r]..materialized : child[r].payload = Wanted[m]
      BY <2>1, <2>2 DEF Holds
    <3>2. m \in 1..materialized
      BY <2>1, WantedTyped
    <3>3. QED
      BY <1>0, <2>1, <2>2, <3>1, <3>2
  <2>3. CASE child[r].file = "target"
    <3>1. child[r].payload = Wants(r) /\ child[r].pc \in Saving /\ Tmp(child[r].file) = "target.tmp"
      BY <2>1, <2>3 DEF Holds, Tmp
    <3>2. child[r].pc = "rename" /\ file["target.tmp"] = child[r].payload
      BY <1>0, <1>1, <2>1, <2>3, <3>1 DEF Effects, Alone, FileTypes, Files, Saving
    <3>3. file'["target"] = file["target.tmp"]
      BY <1>0, <1>1, <2>1, <2>3, <3>1, <3>2 DEF Effects, FileTypes, Files
    <3>4. QED
      BY <1>0, <2>1, <3>1, <3>2, <3>3
  <2>4. QED
    BY <1>1, <2>1, <2>2, <2>3, TargetEffect
<1>2. ASSUME NEW r \in Runs, EngineStep(r) PROVE file'["target"] # "torn"
  BY <1>0, <1>2, EngineFrame
<1>3. ASSUME NEW f \in {"target", "receipt"}, Alter(f) PROVE file'["target"] # "torn"
  BY <1>0, <1>3 DEF Alter, FileTypes
<1>4. QED
  BY <1>0, <1>1, <1>2, <1>3 DEF Next, EngineStep, Rematerialize

\* A child that nobody disturbs finds each file as it left it.
LEMMA AloneStep ==
    ASSUME Types, Begun, \A s \in Runs : Holds(s) /\ Holds(s)', Undisturbed, Next, ~disturbed', NEW s \in Runs
    PROVE  Alone(s)'
<1>0. /\ Orderly /\ Alone(s) /\ Holds(s) /\ file \in FileTypes /\ child \in [Runs -> Children]
  BY OrderlyStep DEF Undisturbed, Types, TypeOK, FileTypes
<1>1. CASE ~Active(s)'
  BY <1>1 DEF Active, Holds, Alone, Saving
<1>2. ASSUME ChildStep(s) PROVE Alone(s)'
  <2>1. Effects(s) /\ kind' = kind /\ Wants(s) # "none" /\ graph[s] \in 1..materialized
    BY <1>0, <1>2, Effect, ChildFrame, WantsTyped DEF Active
  <2>2. /\ child[s].pc \in Saving => child[s].file \in {"target", "receipt"}
        /\ child[s].pc = "publish" => child[s].payload # "none"
        /\ child[s].file = "target" => child[s].payload # "none"
        /\ child[s].pc \notin Saving => child[s].file = "none"
    <3>1. child[s].pc = "publish" => child[s].payload # "none"
      <4>1. \A m \in graph[s]..materialized : Wanted[m] # "none"
        BY <2>1, WantedTyped
      <4>2. QED
        BY <1>0, <4>1 DEF Holds
    <3>2. QED
      BY <1>0, <2>1, <3>1 DEF Holds
  <2>3. CASE child'[s].pc \in {"failed", "stage", "publish", "done"}
    BY <1>1, <2>3 DEF Active, Alone, Holds, Saving
  <2>4. CASE child'[s].pc = "examine"
    BY <1>0, <2>1, <2>2, <2>4 DEF Effects, After, Alone, Tmp, Saving, FileTypes, Files
  <2>5. CASE child'[s].pc = "open"
    BY <1>0, <2>1, <2>2, <2>5 DEF Effects, After, Alone, Sign, Saving
  <2>6. CASE child'[s].pc = "write"
    BY <1>0, <2>1, <2>2, <2>6 DEF Effects, After, Alone, Sign, Tmp, Saving, FileTypes, Files
  <2>7. CASE child'[s].pc = "rename"
    BY <1>0, <2>1, <2>2, <2>7 DEF Effects, After, Alone, Sign, Tmp, Saving, FileTypes, Files
  <2>8. CASE child'[s].pc = "unlink"
    BY <1>0, <2>1, <2>2, <2>8 DEF Effects, After, Alone, Sign, Tmp, Saving, FileTypes, Files
  <2>9. QED
    BY <2>1, <2>3, <2>4, <2>5, <2>6, <2>7, <2>8 DEF Effects, After
<1>3. ASSUME NEW r \in Runs \ {s}, ChildStep(r) PROVE Alone(s)'
  <2>1. Active(r) /\ Same(s)
    BY <1>0, <1>3, ChildFrame
  <2>2. ~Active(s)'
    BY <1>0, <1>3, <2>1 DEF Orderly, Busy, Active, Same
  <2>3. QED
    BY <1>1, <2>2
<1>4. ASSUME NEW r \in Runs, EngineStep(r) PROVE Alone(s)'
  <2>1. UNCHANGED <<file, kind>>
    BY <1>4, EngineFrame
  <2>2. CASE child'[s] = child[s]
    BY <1>0, <2>1, <2>2 DEF Alone, Sign
  <2>3. CASE \E pc \in {"look", "failed"} : child'[s] = [NoChild EXCEPT !.pc = pc]
    BY <2>3 DEF Alone, NoChild, Saving
  <2>4. QED
    BY <1>0, <1>4, <2>2, <2>3, EngineFrame
<1>5. CASE Rematerialize
  BY <1>0, <1>5 DEF Rematerialize, request, engines, Alone, Sign
<1>6. ASSUME NEW f \in {"target", "receipt"}, Alter(f) PROVE Alone(s)'
  <2>1. ~Active(s)
    BY <1>6 DEF Alter
  <2>2. ~Active(s)'
    BY <1>0, <1>6, <2>1, MovedHandles DEF Alter, Active
  <2>3. QED
    BY <1>1, <2>2
<1>7. QED
  BY <1>2, <1>3, <1>4, <1>5, <1>6 DEF Next, EngineStep

\* An engine that nobody disturbs finds what its child left.
LEMMA VouchedStep ==
    ASSUME Types, Begun, \A s \in Runs : Holds(s), Undisturbed, Next, ~disturbed', NEW s \in Runs
    PROVE  Vouched(s)'
<1>0. /\ Orderly /\ Alone(s) /\ Vouched(s) /\ Holds(s) /\ file \in FileTypes /\ child \in [Runs -> Children]
      /\ run \in [Runs -> {"none", "live", "dead", "ended"}] /\ file["target"] # "torn"
      /\ task \in [Runs -> {"none", "pending", "running", "success", "failed", "indeterminate"}]
  BY OrderlyStep DEF Undisturbed, Types, TypeOK, FileTypes
<1>1. ASSUME NEW r \in Runs, ChildStep(r) PROVE Vouched(s)'
  <2>1. Effects(r) /\ Active(r) /\ UNCHANGED <<kind, run, task, touched>> /\ run[r] # "none"
    BY <1>0, <1>1, Effect, ChildFrame, WantsTyped DEF Active
  <2>2. CASE r # s
    BY <1>0, <2>1, <2>2 DEF Orderly, Busy, Vouched
  <2>3. CASE r = s
    <3>1. task[s] # "success"
      BY <2>1, <2>3 DEF Begun, Active
    <3>2. ASSUME child'[s].pc = "done" PROVE file'["receipt"] = Sign' /\ file'["target"] # "none"
      <4>1. child[s].pc = "unlink" /\ child[s].file # "target" /\ file' = [file EXCEPT ![Tmp(child[s].file)] = "none"]
        BY <2>1, <2>3, <3>2 DEF Effects, After
      <4>2. child[s].file = "receipt" /\ Tmp(child[s].file) = "receipt.tmp"
        BY <1>0, <4>1 DEF Holds, Saving, Tmp
      <4>3. file["receipt"] = Sign /\ file["target"] # "none"
        BY <1>0, <4>1, <4>2 DEF Alone
      <4>4. file'["receipt"] = file["receipt"] /\ file'["target"] = file["target"]
        BY <1>0, <4>1, <4>2 DEF FileTypes, Files
      <4>5. QED
        BY <2>1, <4>3, <4>4 DEF Sign
    <3>3. QED
      BY <2>1, <3>1, <3>2 DEF Vouched
  <2>4. QED
    BY <2>2, <2>3
<1>2. ASSUME NEW r \in Runs, EngineStep(r) PROVE Vouched(s)'
  <2>1. UNCHANGED <<file, kind>> /\ Sign' = Sign /\ ReceiptValid' = ReceiptValid
    BY <1>2, EngineFrame DEF Sign, ReceiptValid
  <2>2. CASE r # s
    BY <1>0, <1>2, <2>1, <2>2, OthersFrame DEF Vouched
  <2>3. CASE StartRun(s) \/ Timeout(s)
    BY <1>0, <2>3 DEF StartRun, Timeout, Fails, Vouched
  <2>4. CASE Dispatch(s) /\ Spawn(s)
    <3>1. task'[s] = "running" /\ child'[s].pc = "look"
      BY <1>0, <2>4 DEF Spawn, NoChild
    <3>2. QED
      BY <3>1 DEF Vouched
  <2>5. CASE Dispatch(s) /\ Refuse(s)
    BY <1>0, <2>5 DEF Refuse, Fails, Vouched
  <2>6. CASE Collect(s)
    <3>1. child' = child /\ touched' = touched /\ run[s] = "live" /\ task[s] = "running"
      BY <2>6 DEF Collect, Engine, bounds
    <3>2. task'[s] = "success" => child[s].pc = "done"
      BY <1>0, <2>6 DEF Collect, Fails
    <3>3. task'[s] # "running"
      BY <1>0, <2>6 DEF Collect, Fails
    <3>4. Sign \notin {"none", "torn"} \/ file["target"] = "none"
      BY <1>0 DEF Sign
    <3>5. file["receipt"] = Sign /\ file["target"] # "none" => ReceiptValid
      BY <3>4 DEF Sign, ReceiptValid
    <3>6. QED
      BY <1>0, <2>1, <3>1, <3>2, <3>3, <3>5 DEF Vouched
  <2>7. CASE Finish(s) \/ EngineDies(s)
    BY <1>0, <2>7 DEF Finish, EngineDies, Vouched
  <2>8. CASE Resume(s)
    <3>1. /\ run'[s] = "live" => task[s] # "running"
          /\ task'[s] = Resumed(s)
      BY <1>0, <2>8 DEF Resume
    <3>2. (task'[s] = "success" => ReceiptValid) /\ (task'[s] = "running" => task[s] = "running")
      BY <1>0, <3>1 DEF Resumed
    <3>3. QED
      BY <2>1, <3>1, <3>2 DEF Vouched
  <2>9. QED
    BY <1>2, <2>2, <2>3, <2>4, <2>5, <2>6, <2>7, <2>8 DEF EngineStep, Dispatch
<1>3. CASE Rematerialize
  BY <1>0, <1>3 DEF Rematerialize, engines, Vouched
<1>4. ASSUME NEW f \in {"target", "receipt"}, Alter(f) PROVE Vouched(s)'
  BY <1>4 DEF Alter, Vouched
<1>5. QED
  BY <1>1, <1>2, <1>3, <1>4 DEF Next, EngineStep

\* A child that nobody disturbs.
LEMMA ProgressStep ==
    ASSUME Types, Begun, \A s \in Runs : Holds(s) /\ Holds(s)', Undisturbed, Next, ~disturbed',
           Signed, NEW s \in Runs
    PROVE  Progress(s)'
<1>0. /\ Orderly /\ Progress(s) /\ Alone(s) /\ Orderly' /\ Holds(s) /\ kind \notin Repositories
      /\ graph \in [Runs -> 0..materialized] /\ materialized \in Nat /\ child \in [Runs -> Children]
      /\ file \in FileTypes
  BY OrderlyStep, WantedTyped DEF Undisturbed, Signed, Types, TypeOK, FileTypes
<1>1. CASE ~Active(s)'
  BY <1>1, Idle DEF Active, Holds, Progress, Saving
<1>2. ASSUME ChildStep(s) PROVE Progress(s)'
  <2>1. /\ Effects(s) /\ UNCHANGED <<kind, materialized, graph>> /\ Wants(s)' = Wants(s)
        /\ graph[s] \in 1..materialized
    BY <1>0, <1>2, Effect, ChildFrame, WantsTyped DEF Wants, Active
  <2>2. /\ child[s].pc \in Saving => child[s].file \in {"target", "receipt"}
        /\ child[s].pc = "publish" /\ graph[s] = materialized => child[s].payload = Wants(s)
        /\ child[s].file = "target" => child[s].payload = Wants(s)
        /\ child[s].pc \notin Saving => child[s].file = "none"
    <3>1. child[s].pc = "publish" /\ graph[s] = materialized => child[s].payload = Wants(s)
      <4>1. graph[s] = materialized => graph[s]..materialized = {graph[s]}
        BY <1>0
      <4>2. QED
        BY <1>0, <4>1 DEF Holds, Wants
    <3>2. QED
      BY <1>0, <3>1 DEF Holds
  <2>3. CASE child'[s].pc \in {"failed", "stage", "publish", "done"}
    BY <1>1, <2>3 DEF Active, Progress, Holds, Saving
  <2>4. CASE child'[s].pc = "examine"
    BY <1>0, <2>1, <2>2, <2>4 DEF Effects, After, Progress, Alone, Sign, Tmp, Saving, FileTypes, Files
  <2>5. CASE child'[s].pc = "open"
    BY <1>0, <2>1, <2>2, <2>5 DEF Effects, After, Progress, Alone, Sign, Saving
  <2>6. CASE child'[s].pc = "write"
    BY <1>0, <2>1, <2>2, <2>6 DEF Effects, After, Progress, Alone, Sign, Tmp, Saving, FileTypes, Files
  <2>7. CASE child'[s].pc = "rename"
    BY <1>0, <2>1, <2>2, <2>7 DEF Effects, After, Progress, Alone, Sign, Saving, FileTypes, Files
  <2>8. CASE child'[s].pc = "unlink"
    BY <1>0, <2>1, <2>2, <2>8 DEF Effects, After, Progress, Alone, Sign, Tmp, Saving, FileTypes, Files
  <2>9. QED
    BY <2>1, <2>3, <2>4, <2>5, <2>6, <2>7, <2>8 DEF Effects, After
<1>3. ASSUME NEW r \in Runs \ {s}, ChildStep(r) PROVE Progress(s)'
  <2>1. Active(r) /\ Same(s)
    BY <1>0, <1>3, ChildFrame
  <2>2. ~Active(s)'
    BY <1>0, <1>3, <2>1 DEF Orderly, Busy, Active, Same
  <2>3. QED
    BY <1>1, <2>2
<1>4. ASSUME NEW r \in Runs, EngineStep(r), Active(s)' PROVE Progress(s)'
  <2>1. UNCHANGED <<file, kind, materialized>>
    BY <1>4, EngineFrame
  <2>2. CASE child'[s] = child[s]
    <3>1. graph'[s] = graph[s]
      <4>1. run[s] # "none"
        BY <1>4, <2>2 DEF Begun, Active
      <4>2. QED
        BY <1>0, <1>4, <4>1, PreparationAssumption
           DEF EngineStep, StartRun, Following, Runs, Dispatch, Collect, Timeout, Finish, EngineDies, Resume, Engine
    <3>2. QED
      BY <1>0, <2>1, <2>2, <3>1 DEF Progress, Wants
  <2>3. CASE \E pc \in {"look", "failed"} : child'[s] = [NoChild EXCEPT !.pc = pc]
    BY <2>3 DEF Progress, NoChild, Saving
  <2>4. QED
    BY <1>0, <1>4, <2>2, <2>3, EngineFrame
<1>5. CASE Rematerialize
  BY <1>0, <1>5 DEF Rematerialize, engines, Progress
<1>6. ASSUME NEW f \in {"target", "receipt"}, Alter(f) PROVE Progress(s)'
  <2>1. ~Active(s)
    BY <1>6 DEF Alter
  <2>2. ~Active(s)'
    BY <1>0, <1>6, <2>1, MovedHandles DEF Alter, Active
  <2>3. QED
    BY <1>1, <2>2
<1>7. QED
  BY <1>1, <1>2, <1>3, <1>4, <1>5, <1>6 DEF Next, EngineStep

\* An engine that nobody disturbs.
LEMMA ResultStep ==
    ASSUME Types, Begun, \A s \in Runs : Holds(s), Undisturbed, Next, ~disturbed',
           Signed, NEW s \in Runs
    PROVE  Result(s)'
<1>0. /\ Orderly /\ (\A r \in Runs : Progress(r) /\ Alone(r)) /\ Result(s) /\ Orderly'
      /\ run \in [Runs -> {"none", "live", "dead", "ended"}] /\ graph \in [Runs -> 0..materialized]
      /\ task \in [Runs -> {"none", "pending", "running", "success", "failed", "indeterminate"}]
      /\ materialized \in Nat /\ child \in [Runs -> Children] /\ file \in FileTypes /\ kind \notin Repositories
  BY OrderlyStep, WantedTyped DEF Undisturbed, Signed, Types, TypeOK, FileTypes
\* A child is alone: whatever it writes, its own run wants, and so does one that
\* executes the same graph.
<1>1. ASSUME NEW r \in Runs, ChildStep(r) PROVE Result(s)'
  <2>1. /\ Effects(r) /\ Active(r) /\ Holds(r) /\ Progress(r) /\ Alone(r) /\ UNCHANGED <<run, task, graph, materialized, touched>>
        /\ Wants(r)' = Wants(r) /\ Wants(s)' = Wants(s) /\ graph[r] \in 1..materialized
        /\ s # r => child'[s].pc = child[s].pc
    BY <1>0, <1>1, Effect, ChildFrame, WantsTyped DEF Wants, Active, Same
  <2>2. s # r => run[s] # "live"
    BY <1>0, <2>1 DEF Orderly, Busy
  <2>3. file'["receipt"] \in {file["receipt"], "none"} \/ (child[r].pc = "rename" /\ child[r].file = "receipt"
                                                          /\ file'["receipt"] = file["target"])
    <3>1. \/ child[r].pc = "publish" /\ file' = [file EXCEPT !["target"] = child[r].payload]
          \/ child[r].pc = "open" /\ file' = [file EXCEPT ![Tmp(child[r].file)] = "torn"]
          \/ /\ child[r].pc = "write"
             /\ file' = [g \in Files |-> IF g = child[r].handle THEN child[r].payload ELSE file[g]]
          \/ /\ child[r].pc = "rename"
             /\ file' = [file EXCEPT ![child[r].file] = file[Tmp(child[r].file)], ![Tmp(child[r].file)] = "none"]
          \/ child[r].pc = "unlink" /\ file' = [file EXCEPT ![Tmp(child[r].file)] = "none"]
          \/ file' = file
      BY <2>1 DEF Effects
    <3>2. CASE child[r].pc = "write"
      BY <1>0, <2>1, <3>1, <3>2 DEF Alone, Tmp, FileTypes, Files
    <3>3. CASE child[r].pc = "rename"
      BY <1>0, <2>1, <3>1, <3>3 DEF Alone, Sign, Holds, Saving, Tmp, FileTypes, Files
    <3>4. QED
      BY <1>0, <3>1, <3>2, <3>3 DEF Tmp, FileTypes, Files
  <2>4. graph[r] = materialized /\ child[r].pc = "rename" /\ child[r].file = "receipt" => file["target"] = Wants(r)
    BY <2>1 DEF Progress, Saving
  <2>5. graph[s] = materialized => graph[r] = materialized /\ Wants(s) = Wants(r)
    BY <1>0, <2>1 DEF Orderly, Wants
  <2>6. graph[s] = materialized /\ file["receipt"] \in {"none", Wants(s)} => file'["receipt"] \in {"none", Wants(s)}
    BY <2>3, <2>4, <2>5
  <2>7. CASE s # r
    BY <1>0, <2>1, <2>2, <2>6, <2>7 DEF Result
  <2>8. CASE s = r
    <3>1. run[s] = "live" => graph[s] = materialized
      BY <1>0 DEF Orderly
    <3>2. ASSUME run[s] = "live", task[s] = "success", ~touched PROVE file'["target"] = Wants(s)
      <4>1. CASE file'["target"] = file["target"]
        BY <1>0, <3>2, <4>1 DEF Result
      <4>2. CASE file'["target"] # file["target"]
        <5>1. CASE child[r].pc = "publish" /\ file'["target"] = child[r].payload
          BY <1>0, <2>1, <2>8, <3>1, <3>2, <5>1 DEF Holds, Wants
        <5>2. CASE child[r].file = "target"
          <6>1. child[r].payload = Wants(r) /\ child[r].pc \in Saving /\ Tmp(child[r].file) = "target.tmp"
            BY <2>1, <5>2 DEF Holds, Tmp
          <6>2. child[r].pc = "rename" /\ file["target.tmp"] = child[r].payload
            BY <1>0, <2>1, <4>2, <5>2, <6>1 DEF Effects, Alone, FileTypes, Files, Saving
          <6>3. file'["target"] = file["target.tmp"]
            BY <1>0, <2>1, <4>2, <5>2, <6>1, <6>2 DEF Effects, FileTypes, Files
          <6>4. QED
            BY <2>8, <6>1, <6>2, <6>3
        <5>3. QED
          BY <1>1, <2>1, <4>2, <5>1, <5>2, TargetEffect
      <4>3. QED
        BY <4>1, <4>2
    <3>3. ASSUME run[s] = "live", child'[s].pc = "done"
          PROVE  file'["target"] = Wants(s) /\ file'["receipt"] \in {"none", Wants(s)}
      <4>1. /\ child[s].pc = "unlink" /\ child[s].file # "target"
            /\ file' = [file EXCEPT ![Tmp(child[s].file)] = "none"]
        BY <2>1, <2>8, <3>3 DEF Effects, After
      <4>2. child[s].file = "receipt" /\ Tmp(child[s].file) = "receipt.tmp"
        BY <2>1, <2>8, <4>1 DEF Holds, Saving, Tmp
      <4>3. file["target"] = Wants(s) /\ file["receipt"] \in {"none", Wants(s)}
        BY <2>1, <2>8, <3>1, <3>3, <4>1, <4>2 DEF Progress
      <4>4. QED
        BY <1>0, <4>1, <4>2, <4>3 DEF FileTypes, Files
    <3>4. QED
      BY <1>0, <2>1, <2>6, <3>1, <3>2, <3>3 DEF Result
  <2>9. QED
    BY <2>7, <2>8
<1>2. ASSUME NEW r \in Runs, EngineStep(r) PROVE Result(s)'
  <2>1. UNCHANGED <<file, kind, materialized>>
    BY <1>2, EngineFrame
  <2>2. CASE r # s
    BY <1>0, <1>2, <2>1, <2>2, OthersFrame DEF Result, Wants
  <2>3. CASE StartRun(s) \/ Dispatch(s) \/ Timeout(s)
    <3>1. CASE StartRun(s) \/ Timeout(s)
      BY <1>0, <3>1 DEF StartRun, Timeout, Fails, Result
    <3>2. CASE Dispatch(s) /\ Spawn(s)
      <4>1. task'[s] = "running" /\ child'[s].pc = "look"
        BY <1>0, <3>2 DEF Spawn, NoChild
      <4>2. QED
        BY <4>1 DEF Result
    <3>3. CASE Dispatch(s) /\ Refuse(s)
      BY <1>0, <3>3 DEF Refuse, Fails, Result
    <3>4. QED
      BY <2>3, <3>1, <3>2, <3>3 DEF Dispatch
  <2>4. CASE Collect(s)
    BY <1>0, <2>1, <2>4 DEF Collect, Fails, Engine, bounds, Result, Wants
  <2>5. CASE Finish(s) \/ EngineDies(s)
    BY <1>0, <2>1, <2>5 DEF Finish, EngineDies, Engine, bounds, Result, Wants
  <2>6. CASE Resume(s)
    <3>1. /\ graph' = graph /\ graph[s] = materialized /\ Wants(s)' = Wants(s)
          /\ run'[s] = "live" => task[s] # "running"
          /\ task'[s] = Resumed(s)
      BY <1>0, <2>6 DEF Resume, Wants
    <3>2. run'[s] = "live" => task'[s] # "running"
      BY <1>0, <3>1 DEF Resumed
    <3>3. task'[s] = "success" => task[s] = "success" /\ ReceiptValid
      BY <1>0, <3>1 DEF Resumed
    <3>4. task'[s] = "success" => file["receipt"] = Wants(s) /\ file["target"] = Wants(s)
      <4>1. graph[s] \in 1..materialized /\ Wants(s) \notin {"none", "torn", "unsigned"}
        BY <2>6, WantsTyped DEF Resume
      <4>2. QED
        BY <1>0, <3>1, <3>3, <4>1 DEF ReceiptValid, Result
    <3>5. QED
      BY <2>1, <3>1, <3>2, <3>4 DEF Result
  <2>7. QED
    BY <1>2, <2>2, <2>3, <2>4, <2>5, <2>6 DEF EngineStep
<1>3. CASE Rematerialize
  <2>1. /\ UNCHANGED <<run, task, graph, child, file>> /\ materialized' = materialized + 1 /\ run[s] # "live"
    BY <1>3 DEF Rematerialize, engines
  <2>2. graph[s] # materialized'
    BY <1>0, <2>1
  <2>3. QED
    BY <2>1, <2>2 DEF Result
<1>4. ASSUME NEW f \in {"target", "receipt"}, Alter(f) PROVE Result(s)'
  <2>1. UNCHANGED <<run, task, graph, materialized>> /\ touched' = TRUE /\ child' = Moved(f, "gone")
    BY <1>4 DEF Alter, engines
  <2>2. child'[s].pc = child[s].pc
    BY <1>0, <2>1, MovedHandles
  <2>3. file'["receipt"] \in {"none", file["receipt"]}
    BY <1>0, <1>4 DEF Alter, FileTypes
  <2>4. QED
    BY <1>0, <2>1, <2>2, <2>3 DEF Result, Wants
<1>5. QED
  BY <1>1, <1>2, <1>3, <1>4 DEF Next, EngineStep

\* A run that was never started has nothing to do with any file.
LEMMA Initially == Init => IInv
<1> SUFFICES ASSUME Init PROVE IInv
  OBVIOUS
<1>1. 1 \in DOMAIN Wanted /\ MaxAlters \in Nat
  BY PreparationAssumption, LenProperties
<1>2. /\ run = [r \in Runs |-> "none"] /\ task = [r \in Runs |-> "none"] /\ graph = [r \in Runs |-> 0]
      /\ child = [r \in Runs |-> NoChild] /\ materialized = 1 /\ kind \in Kinds
      /\ disturbed = FALSE /\ touched = FALSE /\ alters = 0 /\ pinned \in BOOLEAN /\ (kind = "existing" => ~pinned)
  BY DEF Init
<1>3. file \in FileTypes
  BY DEF Init, FileTypes, Files, Contents
<1>4. NoChild \in Children /\ NoChild.pc = "none" /\ NoChild.file = "none" /\ NoChild.handle = "none"
  BY DEF NoChild, Children, Steps
<1>5. Types
  <2>1. child \in [Runs -> Children] /\ \A r \in Runs : child[r] = NoChild
    BY <1>2, <1>4
  <2>2. graph \in [Runs -> 0..materialized]
    BY <1>2
  <2>3. alters \in 0..MaxAlters
    BY <1>1, <1>2
  <2>4. disturbed \in BOOLEAN /\ touched \in BOOLEAN
    BY <1>2
  <2>5. /\ run \in [Runs -> {"none", "live", "dead", "ended"}]
        /\ task \in [Runs -> {"none", "pending", "running", "success", "failed", "indeterminate"}]
        /\ \A r \in Runs : run[r] # "ended"
    BY <1>2
  <2>6. QED
    BY <1>1, <1>2, <1>3, <1>4, <2>1, <2>2, <2>3, <2>4, <2>5 DEF Types, TypeOK, FileTypes
<1>6. \A r \in Runs : run[r] = "none" /\ task[r] = "none" /\ graph[r] = 0 /\ child[r] = NoChild
  BY <1>2
<1>7. Begun
  BY <1>4, <1>6 DEF Begun
<1>8. \A r \in Runs : Holds(r) /\ ~Active(r) /\ ~Found(r) /\ ~Approved(r) /\ Result(r) /\ Vouched(r)
  BY <1>4, <1>6 DEF Holds, Active, Found, Approved, Result, Vouched, Saving
<1>9. /\ file["target"] \in Versions \cup {"none"} /\ (kind = "git" => file["target"] = "none")
      /\ "torn" \notin Versions /\ "none" \notin Unversioned
  BY PreparationAssumption DEF Init, Files
<1>10. TargetStays
  BY <1>8, <1>9 DEF TargetStays
<1>11. Undisturbed
  BY <1>6, <1>8, <1>9, Idle DEF Undisturbed, Orderly, Busy
<1>12. QED
  BY <1>5, <1>7, <1>8, <1>10, <1>11 DEF IInv

\* Everything a preparation goes by holds in every state.
THEOREM PreparationInvariant == Spec => []IInv
<1>1. Init => IInv
  BY Initially
<1>2. IInv /\ [Next]_vars => IInv'
  <2>1. CASE IInv /\ Next
    <3>1. Types /\ Begun /\ (\A s \in Runs : Holds(s)) /\ TargetStays /\ Undisturbed
      BY <2>1 DEF IInv
    <3>2. Types' /\ Begun' /\ (\A s \in Runs : Holds(s)') /\ TargetStays'
      BY <2>1, <3>1, TypesStep, BegunStep, HoldsStep, TargetStaysStep
    <3>3. Signed' = Signed
      <4>1. UNCHANGED <<kind, pinned>>
        BY <2>1, <3>1, ChildFrame, EngineFrame DEF Next, EngineStep, Rematerialize, Alter, request
      <4>2. QED
        BY <4>1 DEF Signed
    <3>4. Undisturbed'
      BY <2>1, <3>1, <3>2, <3>3, OrderlyStep, WholeStep, AloneStep, VouchedStep, ProgressStep, ResultStep
         DEF Undisturbed
    <3>5. QED
      BY <3>2, <3>4 DEF IInv
  <2>2. CASE IInv /\ UNCHANGED vars
    <3>1. UNCHANGED <<kind, pinned, materialized, file, run, task, graph, child, disturbed, touched, alters>>
      BY <2>2 DEF vars, request, engines, bounds
    <3>2. Types' /\ Begun' /\ \A s \in Runs : Holds(s)'
      BY <2>2, <3>1 DEF IInv, Types, TypeOK, Begun, Holds, Wants
    <3>3. TargetStays'
      BY <2>2, <3>1 DEF IInv, TargetStays, Found, Approved, Compared, Wants
    <3>4. Undisturbed'
      BY <2>2, <3>1
         DEF IInv, Undisturbed, Orderly, Busy, Active, Alone, Vouched, Sign, ReceiptValid, Signed, Progress, Result, Wants
    <3>5. QED
      BY <3>2, <3>3, <3>4 DEF IInv
  <2>3. QED
    BY <2>1, <2>2
<1>3. QED
  BY <1>1, <1>2, PTL DEF Spec

\* Every variable keeps its type, a file somebody is writing is there, and only a
\* run that has ended is through with the task.
THEOREM TypeCorrect == Spec => []TypeOK
<1>1. IInv => TypeOK
  BY DEF IInv, Types
<1>2. QED
  BY <1>1, PreparationInvariant, PTL

\* local_executor.py and artifacts/in_memory.py: for any number of runs and
\* materializations and any deaths, a run that holds its task for successful
\* finds a target there that the receipt vouches for, and the one its
\* materialization asked for wherever the request says which that is.
THEOREM InputsFound == Spec => []WorkloadFindsItsInputs
<1>1. IInv => WorkloadFindsItsInputs
  <2>1. SUFFICES ASSUME IInv, NEW r \in Runs, run[r] = "live", task[r] = "success", ~touched,
                        disturbed => kind \notin {"copied", "rendered", "https"} /\ alters = 0
                 PROVE  /\ file["target"] # "none"
                        /\ ~disturbed => ReceiptValid
                        /\ /\ pinned
                           /\ kind \in Repositories => alters = 0
                           /\ kind = "checkout" => file["target"] \notin Unversioned
                           => file["target"] = Wants(r)
    BY DEF WorkloadFindsItsInputs
  <2>2. kind \in AllKinds
    BY <2>1, PreparationAssumption DEF IInv, Types, TypeOK
  <2>3. Approved(r) /\ Found(r)
    BY <2>1 DEF IInv, Begun, Approved, Found
  <2>4. CASE kind \in Stable /\ alters = 0
    <3>1. file["target"] # "none" /\ (Compared => file["target"] = Wants(r))
      BY <2>1, <2>3, <2>4 DEF IInv, TargetStays
    <3>2. ~disturbed => ReceiptValid
      BY <2>1 DEF IInv, Undisturbed, Vouched
    <3>3. QED
      BY <3>1, <3>2 DEF Compared
  <2>5. CASE ~disturbed /\ ~(kind \in Stable /\ alters = 0)
    <3>1. ReceiptValid /\ file["target"] # "none"
      BY <2>1, <2>5 DEF IInv, Undisturbed, Vouched, ReceiptValid
    <3>2. Signed => file["target"] = Wants(r)
      BY <2>1, <2>5 DEF IInv, Undisturbed, Result
    <3>3. pinned /\ (kind \in Repositories => alters = 0) => Signed
      BY <2>5 DEF Signed, Stable
    <3>4. QED
      BY <3>1, <3>2, <3>3
  <2>6. QED
    BY <2>1, <2>2, <2>4, <2>5 DEF AllKinds, Assets, Configurations, Stable, Repositories
<1>2. QED
  BY <1>1, PreparationInvariant, PTL

\* operations.py: whatever the program puts in the target's place was asked for by
\* a materialization since its run's, and a clone or an extracted archive that is
\* there is never replaced, however many runs overlap.
THEOREM OnlyWantedPublished == Spec => PublishedIsWanted
<1> DEFINE Kept ==
       \/ file'["target"] = file["target"] \/ alters' # alters \/ (kind = "rendered" /\ disturbed)
       \/ /\ \E r \in Runs : Active(r) /\ (\E m \in graph[r]..materialized : file'["target"] = Wanted[m])
          /\ kind \in {"git", "archive"} => file["target"] = "none"
<1>1. IInv /\ [Next]_vars => Kept
  <2>1. SUFFICES ASSUME IInv, Next, file'["target"] # file["target"], alters' = alters,
                        ~(kind = "rendered" /\ disturbed)
                 PROVE  Kept
    BY DEF vars
  <2>2. Types /\ Begun /\ \A r \in Runs : Holds(r)
    BY <2>1 DEF IInv
  <2>3. PICK r \in Runs : ChildStep(r)
    <3>1. ASSUME NEW r \in Runs, EngineStep(r) PROVE FALSE
      BY <2>1, <2>2, <3>1, EngineFrame
    <3>2. ~Rematerialize
      BY <2>1 DEF Rematerialize
    <3>3. ~Alter("target") /\ ~Alter("receipt")
      <4>1. alters \in Nat
        BY <2>2, PreparationAssumption DEF Types
      <4>2. QED
        BY <2>1, <4>1 DEF Alter
    <3>4. QED
      BY <2>1, <3>1, <3>2, <3>3 DEF Next, EngineStep
  <2>4. Active(r) /\ graph[r] \in 1..materialized /\ materialized \in Nat
    BY <2>2, <2>3, ChildFrame, WantsTyped, WantedTyped DEF Active
  <2>5. CASE /\ child[r].pc = "publish" /\ file'["target"] = child[r].payload
             /\ kind \in {"git", "archive"} => file["target"] = "none"
    BY <2>2, <2>4, <2>5 DEF Holds
  <2>6. CASE kind = "rendered" /\ child[r].file = "target"
    <3>1. Alone(r) /\ child[r].payload = Wants(r) /\ child[r].pc \in Saving
      BY <2>1, <2>2, <2>6 DEF IInv, Undisturbed, Holds
    <3>2. file \in FileTypes /\ Effects(r)
      BY <2>2, <2>3, Effect DEF Types, TypeOK, FileTypes
    <3>3. file'["target"] = Wants(r)
      BY <2>1, <2>6, <3>1, <3>2 DEF Effects, Alone, Tmp, FileTypes, Files, Saving
    <3>4. QED
      BY <2>4, <2>6, <3>3 DEF Wants
  <2>7. QED
    BY <2>1, <2>2, <2>3, <2>5, <2>6, TargetEffect
<1>2. QED
  BY <1>1, PreparationInvariant, PTL DEF Spec, PublishedIsWanted
=============================================================================
