---------------------- MODULE ModelProvisioningProofs ----------------------
(***************************************************************************)
(* What a run of ModelProvisioning promises, for any groups in any order,  *)
(* any files, and any number of faults.                                    *)
(***************************************************************************)
EXTENDS ModelProvisioning, TLAPS

Shape ==
  /\ file \in [Files -> {"missing", "bad", "good"}]
  /\ todo \subseteq Groups /\ selected \subseteq Groups
  /\ before \subseteq Files

\* The steps of a run while it is at a group.
StepsOf(way) ==
  CASE way = "hf"  -> {"hf"}
    [] way = "stt" -> {"stt", "snapshot", "ref", "check", "chown"}
    [] way = "tts" -> {"tts", "fetch", "archive", "extract", "copy"}

\* A run is at the first of the groups it has still to go through.
OnGroup ==
  \/ pc \in Over
  \/ pc = "verify" /\ todo = {}
  \/ \E g \in todo : IsFirst(g, todo) /\ pc \in StepsOf(Way[g])

\* The verification at the end does not look at the owner of the STT cache:
\* either the group is still to come or has been given its owner.
OwnerIsSet == pc \notin Over /\ HasStt(selected) => owned \/ HasStt(todo)

\* Nothing is extracted from an archive that is not the locked one.
RightArchive == pc \in {"extract", "copy"} => archive = "right"

\* Nothing that was good is lost, but for the file that is being copied.
Kept ==
  pc \notin {"idle", "aborted"} =>
    \A f \in before : FileOk(f) \/ (pc = "copy" /\ f = Head(left))

IInv ==
  /\ Shape
  /\ OnGroup
  /\ OwnerIsSet
  /\ RightArchive
  /\ Kept
  /\ PassMeansComplete

-----------------------------------------------------------------------------
(* Going from group to group.                                              *)

\* Of some groups only one is the first.
LEMMA FirstIsUnique ==
  ASSUME NEW gs, NEW g \in gs, NEW h \in gs, IsFirst(g, gs), IsFirst(h, gs)
  PROVE  g = h
<1>1. Order \in Seq(Groups)
  BY ProvisioningAssumption DEF ProvisioningAssumption
<1>2. PICK i \in 1..Len(Order) : Order[i] = g /\ \A k \in 1..(i - 1) : Order[k] \notin gs
  BY <1>1 DEF IsFirst
<1>3. PICK j \in 1..Len(Order) : Order[j] = h /\ \A k \in 1..(j - 1) : Order[k] \notin gs
  BY <1>1 DEF IsFirst
<1>4. i = j
  BY <1>1, <1>2, <1>3
<1> QED BY <1>2, <1>3, <1>4

\* The run enters a group, or has been through all of them.
LEMMA Entered ==
  ASSUME NEW gs \in SUBSET Groups, Enter(gs)
  PROVE  /\ OnGroup'
         /\ todo' = gs
         /\ pc' \in {"verify", "hf", "stt", "tts"}
<1>1. CASE gs = {} /\ pc' = "verify"
  BY <1>1 DEF Enter, OnGroup
<1>2. ASSUME NEW g \in gs, IsFirst(g, gs), pc' = Way[g]
      PROVE  OnGroup' /\ pc' \in {"hf", "stt", "tts"}
  <2>1. Way[g] \in {"hf", "stt", "tts"}
    BY ProvisioningAssumption DEF ProvisioningAssumption
  <2>2. Way[g] \in StepsOf(Way[g])
    BY <2>1 DEF StepsOf
  <2> QED BY <1>2, <2>1, <2>2 DEF OnGroup, Enter, IsFirst
<1> QED BY <1>1, <1>2 DEF Enter

\* When a group is done the others are still to do.
LEMMA Left ==
  ASSUME Shape, NEW g \in todo, IsFirst(g, todo), GroupDone
  PROVE  /\ OnGroup'
         /\ todo' = todo \ {g}
         /\ pc' \in {"verify", "hf", "stt", "tts"}
<1>1. PICK h \in todo : IsFirst(h, todo) /\ Enter(todo \ {h})
  BY DEF GroupDone
<1>2. h = g
  BY <1>1, FirstIsUnique
<1>3. todo \ {g} \in SUBSET Groups
  BY DEF Shape
<1> QED BY <1>1, <1>2, <1>3, Entered

\* The group a run is at has the way of the step.
LEMMA AtGroup ==
  ASSUME OnGroup, Shape
  PROVE  /\ pc = "hf" => \E g \in todo : IsFirst(g, todo) /\ Way[g] = "hf"
         /\ pc \in {"stt", "snapshot", "ref", "check", "chown"} =>
              \E g \in todo : IsFirst(g, todo) /\ Way[g] = "stt"
         /\ pc \in {"tts", "fetch", "archive", "extract", "copy"} =>
              \E g \in todo : IsFirst(g, todo) /\ Way[g] = "tts"
<1> SUFFICES ASSUME pc \notin Over, pc # "verify"
             PROVE  /\ pc = "hf" => \E g \in todo : IsFirst(g, todo) /\ Way[g] = "hf"
                    /\ pc \in {"stt", "snapshot", "ref", "check", "chown"} =>
                         \E g \in todo : IsFirst(g, todo) /\ Way[g] = "stt"
                    /\ pc \in {"tts", "fetch", "archive", "extract", "copy"} =>
                         \E g \in todo : IsFirst(g, todo) /\ Way[g] = "tts"
  BY DEF Over
<1>1. PICK g \in todo : IsFirst(g, todo) /\ pc \in StepsOf(Way[g])
  BY DEF OnGroup
<1>2. Way[g] \in {"hf", "stt", "tts"}
  BY ProvisioningAssumption DEF ProvisioningAssumption, Shape
<1> QED BY <1>1, <1>2 DEF StepsOf

\* A step within a group leaves the run at the group.
LEMMA StaysOnGroup ==
  ASSUME OnGroup, UNCHANGED todo,
         pc' \in Over \/ \A way \in {"hf", "stt", "tts"} :
                            pc \in StepsOf(way) => pc' \in StepsOf(way),
         Shape, pc \notin Over, pc # "verify"
  PROVE  OnGroup'
<1>1. PICK g \in todo : IsFirst(g, todo) /\ pc \in StepsOf(Way[g])
  BY DEF OnGroup
<1>2. Way[g] \in {"hf", "stt", "tts"}
  BY ProvisioningAssumption DEF ProvisioningAssumption, Shape
<1> QED BY <1>1, <1>2 DEF OnGroup, IsFirst

-----------------------------------------------------------------------------
(* Every step preserves the invariant.                                     *)

LEMMA FileChange ==
  ASSUME Shape, NEW f, NEW is \in {"missing", "bad", "good"},
         file' = [file EXCEPT ![f] = is]
  PROVE  /\ file' \in [Files -> {"missing", "bad", "good"}]
         /\ \A h \in Files : file'[h] = IF h = f THEN is ELSE file[h]
  BY DEF Shape

LEMMA HfStep ==
  ASSUME IInv, HfFile \/ HfFails \/ HfDone
  PROVE  IInv'
<1> USE DEF IInv
<1>0. /\ pc = "hf" /\ UNCHANGED <<owned, selected, before>>
      /\ pc' # "copy" /\ pc' # "extract" /\ pc' # "passed"
  <2>1. pc = "hf" /\ UNCHANGED <<owned, selected, before>>
    BY DEF HfFile, HfFails, HfDone, disk
  <2>2. HfDone => pc' \in {"verify", "hf", "stt", "tts"}
    BY <2>1, AtGroup, Left DEF HfDone
  <2> QED BY <2>1, <2>2 DEF HfFile, HfFails, Goto
<1>1. PICK g \in todo : IsFirst(g, todo) /\ Way[g] = "hf"
  BY <1>0, AtGroup
<1>2. CASE HfFile \/ HfFails
  <2>1. /\ UNCHANGED todo /\ (pc' = "hf" \/ pc' = "failed")
    BY <1>2 DEF HfFile, HfFails, Goto, position
  <2>2. /\ file' \in [Files -> {"missing", "bad", "good"}]
        /\ \A f \in Files : file[f] = "good" => file'[f] = "good"
    <3>1. CASE file' = file
      BY <3>1 DEF Shape
    <3>2. ASSUME NEW is \in {"missing", "bad", "good"},
                 file' = [file EXCEPT ![Head(left)] = is],
                 ~FileOk(Head(left)) \/ is = "good"
          PROVE  /\ file' \in [Files -> {"missing", "bad", "good"}]
                 /\ \A f \in Files : file[f] = "good" => file'[f] = "good"
      BY <3>2, FileChange DEF FileOk
    <3>3. CASE HfFile
      BY <3>1, <3>2, <3>3 DEF HfFile
    <3>4. ASSUME HfFails, NEW is \in {file[Head(left)], "bad"},
                 file' = [file EXCEPT ![Head(left)] = is]
          PROVE  /\ file' \in [Files -> {"missing", "bad", "good"}]
                 /\ \A f \in Files : file[f] = "good" => file'[f] = "good"
      <4>1. CASE Head(left) \in Files
        <5>1. file[Head(left)] \in {"missing", "bad", "good"} /\ ~FileOk(Head(left))
          BY <3>4, <4>1 DEF Shape, HfFails
        <5> QED BY <3>2, <3>4, <5>1
      <4>2. CASE Head(left) \notin Files
        <5>1. file' = file
          BY <3>4, <4>2 DEF Shape
        <5> QED BY <3>1, <5>1
      <4> QED BY <4>1, <4>2
    <3>5. HfFails => \/ file' = file
                     \/ \E is \in {file[Head(left)], "bad"} :
                          file' = [file EXCEPT ![Head(left)] = is]
      BY DEF HfFails
    <3> QED BY <1>2, <3>1, <3>3, <3>4, <3>5
  <2>3. Shape'
    BY <1>0, <2>1, <2>2 DEF Shape
  <2>4. OnGroup'
    BY <1>0, <2>1, StaysOnGroup DEF Over
  <2>5. OwnerIsSet'
    BY <1>0, <2>1 DEF OwnerIsSet, HasStt, Over
  <2>6. Kept'
    BY <1>0, <2>2 DEF Kept, FileOk, Shape
  <2> QED BY <1>0, <2>3, <2>4, <2>5, <2>6 DEF RightArchive, PassMeansComplete
<1>3. CASE HfDone
  <2>1. /\ OnGroup' /\ todo' = todo \ {g}
        /\ pc' \in {"verify", "hf", "stt", "tts"} /\ UNCHANGED file
    BY <1>1, <1>3, Left DEF HfDone, disk
  <2>2. HasStt(todo) => HasStt(todo \ {g})
    BY <1>1 DEF HasStt
  <2>3. Shape' /\ Kept'
    BY <1>0, <2>1 DEF Shape, Kept, FileOk
  <2>4. OwnerIsSet'
    BY <1>0, <2>1, <2>2 DEF OwnerIsSet, HasStt, Over
  <2> QED BY <1>0, <2>1, <2>3, <2>4 DEF RightArchive, PassMeansComplete
<1> QED BY <1>2, <1>3

\* The owner is set last, after everything that is written as another user.
LEMMA SttStep ==
  ASSUME IInv, SttCheck \/ SttFetch \/ SttRef \/ SttVerify \/ SttChown
  PROVE  IInv'
<1> USE DEF IInv
<1>0. /\ pc \in {"stt", "snapshot", "ref", "check", "chown"}
      /\ UNCHANGED <<selected, before>>
  BY DEF SttCheck, SttFetch, SttRef, SttVerify, SttChown
<1>1. PICK g \in todo : IsFirst(g, todo) /\ Way[g] = "stt"
  BY <1>0, AtGroup
<1>2. /\ file' \in [Files -> {"missing", "bad", "good"}]
      /\ \A f \in Files : file[f] = "good" => file'[f] = "good"
  <2>1. CASE SttFetch
    BY <2>1 DEF SttFetch, Shape, Good
  <2>2. CASE ~SttFetch
    BY <2>2 DEF SttCheck, SttRef, SttVerify, SttChown, disk, Shape
  <2> QED BY <2>1, <2>2
<1>3. CASE SttCheck \/ SttFetch \/ SttRef \/ SttVerify
  <2>1. UNCHANGED todo /\ pc' \in {"snapshot", "ref", "check", "chown", "failed"}
    BY <1>3 DEF SttCheck, SttFetch, SttRef, SttVerify, Goto, position
  <2>2. Shape' /\ Kept'
    BY <1>0, <1>2, <2>1 DEF Shape, Kept, FileOk
  <2>3. pc' \in Over \/ \A way \in {"hf", "stt", "tts"} :
                          pc \in StepsOf(way) => pc' \in StepsOf(way)
    BY <1>0, <2>1 DEF StepsOf, Over
  <2>4. OnGroup'
    BY <1>0, <2>1, <2>3, StaysOnGroup DEF Over
  <2>5. OwnerIsSet'
    BY <1>1, <2>1 DEF OwnerIsSet, HasStt
  <2> QED BY <2>1, <2>2, <2>4, <2>5 DEF RightArchive, PassMeansComplete
<1>4. CASE SttChown
  <2>1. /\ OnGroup' /\ todo' = todo \ {g}
        /\ pc' \in {"verify", "hf", "stt", "tts"} /\ owned'
    BY <1>1, <1>4, Left DEF SttChown
  <2>2. Shape' /\ Kept'
    BY <1>0, <1>2, <2>1 DEF Shape, Kept, FileOk
  <2> QED BY <2>1, <2>2 DEF OwnerIsSet, RightArchive, PassMeansComplete
<1> QED BY <1>3, <1>4

\* A file that is emptied is filled again from the locked archive.
LEMMA TtsStep ==
  ASSUME IInv, \/ TtsCheck \/ TtsFetch \/ TtsArchive \/ TtsAmbiguous
               \/ TtsTruncate \/ TtsCopy \/ TtsDone
  PROVE  IInv'
<1> USE DEF IInv
<1>0. /\ pc \in {"tts", "fetch", "archive", "extract", "copy"}
      /\ UNCHANGED <<owned, selected, before>>
  BY DEF TtsCheck, TtsFetch, TtsArchive, TtsAmbiguous, TtsTruncate, TtsCopy, TtsDone, disk
<1>1. PICK g \in todo : IsFirst(g, todo) /\ Way[g] = "tts"
  BY <1>0, AtGroup
<1>2. CASE GroupDone /\ (TtsCheck \/ TtsDone)
  <2>1. /\ OnGroup' /\ todo' = todo \ {g}
        /\ pc' \in {"verify", "hf", "stt", "tts"} /\ UNCHANGED file
        /\ pc # "copy"
    BY <1>1, <1>2, Left DEF TtsCheck, TtsDone, disk
  <2>2. HasStt(todo) => HasStt(todo \ {g})
    BY <1>1 DEF HasStt
  <2>3. Shape' /\ Kept'
    BY <1>0, <2>1 DEF Shape, Kept, FileOk
  <2>4. OwnerIsSet'
    BY <1>0, <2>1, <2>2 DEF OwnerIsSet, HasStt, Over
  <2> QED BY <2>1, <2>3, <2>4 DEF RightArchive, PassMeansComplete
<1>3. ASSUME UNCHANGED todo,
             pc' \in {"fetch", "archive", "extract", "copy", "failed"}
      PROVE  OnGroup' /\ OwnerIsSet' /\ PassMeansComplete'
  <2>1. pc' \in Over \/ \A way \in {"hf", "stt", "tts"} :
                          pc \in StepsOf(way) => pc' \in StepsOf(way)
    BY <1>0, <1>3 DEF StepsOf, Over
  <2>2. OnGroup'
    BY <1>0, <1>3, <2>1, StaysOnGroup DEF Over
  <2>3. OwnerIsSet'
    BY <1>0, <1>3 DEF OwnerIsSet, HasStt, Over
  <2> QED BY <1>3, <2>2, <2>3 DEF PassMeansComplete
<1>4. CASE (TtsCheck /\ ~GroupDone) \/ TtsFetch \/ TtsArchive \/ TtsAmbiguous
  <2>1. /\ UNCHANGED <<file, todo>> /\ pc' \in {"fetch", "archive", "extract", "failed"}
        /\ pc # "copy"
        /\ pc' = "extract" => archive' = "right"
    BY <1>4 DEF TtsCheck, TtsFetch, TtsArchive, TtsAmbiguous, Goto, position, disk
  <2>2. Shape' /\ Kept' /\ RightArchive'
    BY <1>0, <2>1 DEF Shape, Kept, FileOk, RightArchive
  <2> QED BY <1>3, <2>1, <2>2
<1>5. CASE TtsTruncate
  <2>1. /\ pc = "extract" /\ pc' = "copy" /\ UNCHANGED <<todo, left, archive>>
        /\ file' = [file EXCEPT ![Head(left)] = "bad"]
    BY <1>5 DEF TtsTruncate, Goto, position
  <2>2. /\ file' \in [Files -> {"missing", "bad", "good"}]
        /\ \A f \in Files : file'[f] = IF f = Head(left) THEN "bad" ELSE file[f]
    BY <2>1, FileChange
  <2>3. Shape' /\ Kept' /\ RightArchive'
    BY <1>0, <2>1, <2>2 DEF Shape, Kept, FileOk, RightArchive
  <2> QED BY <1>3, <2>1, <2>3
<1>6. CASE TtsCopy
  <2>1. /\ pc = "copy" /\ UNCHANGED <<todo, archive>> /\ archive = "right"
        /\ file' = [file EXCEPT ![Head(left)] = "good"]
        /\ pc' \in {"extract", "failed"}
    BY <1>6 DEF TtsCopy, RightArchive
  <2>2. /\ file' \in [Files -> {"missing", "bad", "good"}]
        /\ \A f \in Files : file'[f] = IF f = Head(left) THEN "good" ELSE file[f]
    BY <2>1, FileChange
  <2>3. Shape' /\ Kept' /\ RightArchive'
    BY <1>0, <2>1, <2>2 DEF Shape, Kept, FileOk, RightArchive
  <2> QED BY <1>3, <2>1, <2>3
<1> QED BY <1>2, <1>4, <1>5, <1>6 DEF TtsDone

LEMMA VerifyStep ==
  ASSUME IInv, Verify
  PROVE  IInv'
<1> USE DEF IInv
<1>0. /\ pc = "verify" /\ pc' \in {"passed", "failed"}
      /\ UNCHANGED <<file, ref, owned, todo, selected, before>>
      /\ pc' = "passed" => /\ AllOk(FilesOf(selected))
                           /\ HasStt(selected) => ref = "right"
  BY DEF Verify, Goto, position, disk
<1>1. todo = {}
  BY <1>0, ProvisioningAssumption DEF OnGroup, Over, StepsOf, ProvisioningAssumption, Shape
<1>2. HasStt(selected) => owned
  BY <1>0, <1>1 DEF OwnerIsSet, HasStt, Over
<1>3. FilesOf(selected) \subseteq Files
  BY DEF Shape, Files, FilesOf
<1>4. PassMeansComplete'
  BY <1>0, <1>2, <1>3 DEF PassMeansComplete, Complete, AllOk, FileOk, Good, HasStt
<1>5. Shape' /\ OnGroup' /\ OwnerIsSet' /\ RightArchive' /\ Kept'
  BY <1>0 DEF Shape, OnGroup, Over, OwnerIsSet, RightArchive, Kept, FileOk
<1> QED BY <1>4, <1>5

\* A run begins, is killed, or the disk changes between runs.
LEMMA OperatorStep ==
  ASSUME IInv,
         \/ \E gs \in (SUBSET Groups) \ {{}} : Begin(gs)
         \/ BeginFails \/ Abort \/ Decay
  PROVE  IInv'
<1> USE DEF IInv
<1>1. ASSUME NEW gs \in (SUBSET Groups) \ {{}}, Begin(gs)
      PROVE  IInv'
  <2>1. /\ OnGroup' /\ todo' = gs /\ pc' \in {"verify", "hf", "stt", "tts"}
        /\ selected' = gs /\ before' = Good /\ UNCHANGED file
    BY <1>1, Entered DEF Begin, disk
  <2>2. Shape' /\ Kept'
    BY <2>1 DEF Shape, Kept, FileOk, Good
  <2>3. OwnerIsSet'
    BY <2>1 DEF OwnerIsSet, HasStt
  <2> QED BY <2>1, <2>2, <2>3 DEF RightArchive, PassMeansComplete
<1>2. CASE BeginFails
  <2>1. /\ pc' = "failed" /\ before' = Good /\ UNCHANGED <<file, todo, selected>>
    BY <1>2 DEF BeginFails, Goto, position, disk
  <2> QED
    BY <2>1 DEF Shape, OnGroup, Over, OwnerIsSet, RightArchive, Kept, FileOk, Good,
                PassMeansComplete
<1>3. CASE Abort \/ Decay
  <2>1. pc' \in {"aborted", "idle"} /\ UNCHANGED <<todo, selected, before>>
    BY <1>3 DEF Abort, Decay, Goto, position
  <2>2. file' \in [Files -> {"missing", "bad", "good"}]
    <3>1. CASE Abort
      BY <3>1 DEF Abort, Shape, disk
    <3>2. CASE Decay
      BY <3>2 DEF Decay, Shape
    <3> QED BY <1>3, <3>1, <3>2
  <2> QED
    BY <2>1, <2>2 DEF Shape, OnGroup, Over, OwnerIsSet, RightArchive, Kept, PassMeansComplete
<1> QED BY <1>1, <1>2, <1>3

-----------------------------------------------------------------------------
(* Theorems.                                                               *)

\* The inductive invariant holds in every reachable state.
THEOREM Invariance == Spec => []IInv
<1>1. Init => IInv
  BY DEF Init, IInv, Shape, OnGroup, Over, OwnerIsSet, RightArchive, Kept, PassMeansComplete
<1>2. IInv /\ [Next]_vars => IInv'
  <2>1. IInv /\ UNCHANGED vars => IInv'
    BY DEF vars, disk, position, IInv, Shape, OnGroup, IsFirst, OwnerIsSet, HasStt,
           RightArchive, Kept, FileOk, PassMeansComplete, Complete, Good
  <2> QED BY <2>1, HfStep, SttStep, TtsStep, VerifyStep, OperatorStep DEF Next, Step
<1> QED BY <1>1, <1>2, PTL DEF Spec

\* "PASS all provisioned model files verified" means that the files are the
\* locked ones, and that the STT cache has its ref and its owner, which the
\* verification does not look at.
THEOREM PassIsComplete == Spec => []PassMeansComplete
<1>1. IInv => PassMeansComplete
  BY DEF IInv
<1> QED BY <1>1, Invariance, PTL

\* A run that ends by itself leaves every file good that was good before.
THEOREM NothingIsLost == Spec => []NothingLost
<1>1. IInv => NothingLost
  BY DEF IInv, Shape, Kept, FileOk, NothingLost, Good
<1> QED BY <1>1, Invariance, PTL

=============================================================================
