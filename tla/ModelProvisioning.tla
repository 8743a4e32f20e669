------------------------- MODULE ModelProvisioning -------------------------
(***************************************************************************)
(* Model files: reproducibility/provision_models.py and verify_models.py.  *)
(*                                                                         *)
(* A run goes through the selected groups in the order of MODEL_ORDER and  *)
(* brings each to what the lock file says.  There are three ways: file by  *)
(* file from Hugging Face, the STT snapshot with its ref and owner, and    *)
(* the TTS archive.  Files that are as locked are not fetched again.  The  *)
(* first error ends the run, a run can be killed anywhere, and the         *)
(* operator starts it again.                                               *)
(*                                                                         *)
(* A file is missing, bad or good: file_ok and verify_file tell a good one *)
(* by size and SHA-256.  What a source serves is not known beforehand.     *)
(* huggingface_hub (external) takes a file that is in the snapshot of the  *)
(* commit for downloaded, and one in a directory if its metadata say so:   *)
(* without force_download a bad file may stay for ever.                    *)
(***************************************************************************)
EXTENDS Naturals, Sequences, Functions

CONSTANTS
  Order,       \* MODEL_ORDER, a sequence of groups
  Locked,      \* the files of each group, a sequence, in the lock file's order
  Way,         \* how each group is provisioned: "hf", "stt" or "tts"
  MaxFaults    \* bound on wrong downloads, errors, kills and decay

Groups == Range(Order)

FilesOf(gs) == UNION {Range(Locked[g]) : g \in gs}

Files == FilesOf(Groups)

\* selected_model_names: of the groups asked for, the first in MODEL_ORDER.
IsFirst(g, gs) ==
  \E i \in DOMAIN Order : Order[i] = g /\ \A j \in 1..(i - 1) : Order[j] \notin gs

ASSUME ProvisioningAssumption ==
  /\ Order \in Seq(Groups)
  /\ DOMAIN Locked = Groups
  /\ Way \in [Groups -> {"hf", "stt", "tts"}]
  /\ \A g, h \in Groups : g # h => Range(Locked[g]) \cap Range(Locked[h]) = {}
  /\ MaxFaults \in Nat

VARIABLES
  file,      \* each file: "missing", "bad" or "good"
  ref,       \* refs/main of the STT cache: "none", "wrong" or "right"
  owned,     \* the STT cache belongs to the user of the engine
  pc,        \* the step of the run
  todo,      \* the groups it has still to go through
  left,      \* the files of the first of them it has still to go through
  archive,   \* the TTS archive in the temporary directory
  selected,  \* the groups it was started for
  faults,
  before     \* history: the files that were good when the run began

disk == <<file, ref, owned>>
position == <<todo, left>>
vars == <<disk, pc, position, archive, selected, faults, before>>

-----------------------------------------------------------------------------

\* Mutant of FileOk: the digest is not computed.
FileOkBySize(f) == file[f] # "missing"

FileOk(f) == file[f] = "good"

AllOk(fs) == \A f \in fs : FileOk(f)

Good == {f \in Files : file[f] = "good"}

Fault == faults < MaxFaults /\ faults' = faults + 1

\* The next group; after the last one everything is verified.
Enter(gs) ==
  /\ todo' = gs
  /\ \/ gs = {} /\ pc' = "verify" /\ left' = <<>>
     \/ \E g \in gs : IsFirst(g, gs) /\ pc' = Way[g] /\ left' = Locked[g]

GroupDone == \E g \in todo : IsFirst(g, todo) /\ Enter(todo \ {g})

Goto(step) == pc' = step /\ UNCHANGED position

Over == {"idle", "passed", "failed", "aborted"}

\* The operator starts a run with --download, for some groups or for all.
Begin(gs) ==
  /\ pc \in Over
  /\ Enter(gs)
  /\ selected' = gs
  /\ before' = Good
  /\ UNCHANGED <<disk, archive, faults>>

\* validate_model_paths, the token or preflight raises before anything is
\* written.  With --check-only the run ends here too.
BeginFails ==
  /\ pc \in Over
  /\ Fault
  /\ Goto("failed")
  /\ before' = Good
  /\ UNCHANGED <<disk, archive, selected>>

-----------------------------------------------------------------------------
(* Hugging Face, file by file: download_hf_file, and its twin for the LLM. *)

\* The file is verified already, or is fetched and verified.
HfFile ==
  /\ pc = "hf"
  /\ left # <<>>
  /\ file' = IF FileOk(Head(left)) THEN file ELSE [file EXCEPT ![Head(left)] = "good"]
  /\ left' = Tail(left)
  /\ UNCHANGED <<ref, owned, pc, todo, archive, selected, faults, before>>

\* What is there after hf_hub_download is not the locked file: a bad one was
\* not fetched again, the download raised, or it brought other bytes.
HfFails ==
  /\ pc = "hf"
  /\ left # <<>>
  /\ ~FileOk(Head(left))
  /\ \/ file[Head(left)] = "bad" /\ UNCHANGED <<file, faults>>
     \/ /\ Fault
        /\ \E is \in {file[Head(left)], "bad"} : file' = [file EXCEPT ![Head(left)] = is]
  /\ Goto("failed")
  /\ UNCHANGED <<ref, owned, archive, selected, before>>

HfDone ==
  /\ pc = "hf"
  /\ left = <<>>
  /\ GroupDone
  /\ UNCHANGED <<disk, archive, selected, faults, before>>

-----------------------------------------------------------------------------
(* provision_stt.                                                          *)

SttCheck ==
  /\ pc = "stt"
  /\ Goto(IF AllOk(Range(left)) THEN "ref" ELSE "snapshot")
  /\ UNCHANGED <<disk, archive, selected, faults, before>>

\* snapshot_download fetches what the snapshot has not, and leaves what it has,
\* good or bad; what it writes belongs to the user of the provisioner.
SttFetch ==
  /\ pc = "snapshot"
  /\ \/ /\ file' = [f \in Files |-> IF f \in Range(left) /\ file[f] = "missing"
                                   THEN "good" ELSE file[f]]
        /\ UNCHANGED faults
     \/ /\ Fault
        /\ \E wrong \in SUBSET (Range(left) \ Good) :
             file' = [f \in Files |-> IF f \in wrong THEN "bad" ELSE file[f]]
  /\ owned' = FALSE
  /\ Goto("ref")
  /\ UNCHANGED <<ref, archive, selected, before>>

\* The ref is written before the files are looked at.
SttRef ==
  /\ pc = "ref"
  /\ ref' = "right"
  /\ Goto("check")
  /\ UNCHANGED <<file, owned, archive, selected, faults, before>>

SttVerify ==
  /\ pc = "check"
  /\ Goto(IF AllOk(Range(left)) THEN "chown" ELSE "failed")
  /\ UNCHANGED <<disk, archive, selected, faults, before>>

\* normalize_tree_ownership.
SttChown ==
  /\ pc = "chown"
  /\ owned' = TRUE
  /\ GroupDone
  /\ UNCHANGED <<file, ref, archive, selected, faults, before>>

-----------------------------------------------------------------------------
(* provision_tts.                                                          *)

\* Mutant of TtsCheck: one good file is enough.
TtsCheckAny ==
  /\ pc = "tts"
  /\ IF \E f \in Range(left) : FileOk(f) THEN GroupDone ELSE Goto("fetch")
  /\ UNCHANGED <<disk, archive, selected, faults, before>>

TtsCheck ==
  /\ pc = "tts"
  /\ IF AllOk(Range(left)) THEN GroupDone ELSE Goto("fetch")
  /\ UNCHANGED <<disk, archive, selected, faults, before>>

\* stream_download to a temporary file.
TtsFetch ==
  /\ pc = "fetch"
  /\ \/ archive' = "right" /\ UNCHANGED faults
     \/ archive' = "wrong" /\ Fault
  /\ Goto("archive")
  /\ UNCHANGED <<disk, selected, before>>

\* Mutant of TtsArchive: the archive is not compared with the lock.
TtsArchiveUnverified ==
  /\ pc = "archive"
  /\ Goto("extract")
  /\ UNCHANGED <<disk, archive, selected, faults, before>>

\* Size and digest of the archive.
TtsArchive ==
  /\ pc = "archive"
  /\ Goto(IF archive = "right" THEN "extract" ELSE "failed")
  /\ UNCHANGED <<disk, archive, selected, faults, before>>

\* target.open("wb"): every file is emptied, the good ones too.
TtsTruncate ==
  /\ pc = "extract"
  /\ left # <<>>
  /\ file' = [file EXCEPT ![Head(left)] = "bad"]
  /\ Goto("copy")
  /\ UNCHANGED <<ref, owned, archive, selected, faults, before>>

\* The member is copied and verified.
TtsCopy ==
  /\ pc = "copy"
  /\ file' = [file EXCEPT ![Head(left)] = IF archive = "right" THEN "good" ELSE "bad"]
  /\ left' = Tail(left)
  /\ pc' = IF file'[Head(left)] = "good" THEN "extract" ELSE "failed"
  /\ UNCHANGED <<ref, owned, todo, archive, selected, faults, before>>

\* The archive has no such member, or several.
TtsAmbiguous ==
  /\ pc = "extract"
  /\ left # <<>>
  /\ Fault
  /\ Goto("failed")
  /\ UNCHANGED <<disk, archive, selected, before>>

TtsDone ==
  /\ pc = "extract"
  /\ left = <<>>
  /\ archive' = "none"
  /\ GroupDone
  /\ UNCHANGED <<disk, selected, faults, before>>

-----------------------------------------------------------------------------

HasStt(gs) == \E g \in gs : Way[g] = "stt"

\* verify_locked_models, over the selected groups.
Verify ==
  /\ pc = "verify"
  /\ Goto(IF AllOk(FilesOf(selected)) /\ (HasStt(selected) => ref = "right")
          THEN "passed" ELSE "failed")
  /\ UNCHANGED <<disk, archive, selected, faults, before>>

\* The run is killed, or a call of the system fails: what was being written may
\* be there in part.
Abort ==
  /\ pc \notin Over
  /\ Fault
  /\ \/ pc = "hf" /\ left # <<>> /\ ~FileOk(Head(left))
        /\ file' = [file EXCEPT ![Head(left)] = "bad"] /\ UNCHANGED <<ref, owned>>
     \/ pc = "snapshot" /\ owned' = FALSE /\ UNCHANGED ref
        /\ \E part \in SUBSET (Range(left) \ Good) : \E is \in {"good", "bad"} :
             file' = [f \in Files |-> IF f \in part THEN is ELSE file[f]]
     \/ pc = "ref" /\ ref' = "wrong" /\ UNCHANGED <<file, owned>>
     \/ UNCHANGED disk
  /\ archive' = "none"
  /\ Goto("aborted")
  /\ UNCHANGED <<selected, before>>

\* Between runs a file is damaged or removed, the ref changes or the cache
\* changes hands.
Decay ==
  /\ pc \in Over
  /\ Fault
  /\ \/ \E f \in Files, is \in {"missing", "bad"} :
          file' = [file EXCEPT ![f] = is] /\ UNCHANGED <<ref, owned>>
     \/ ref' \in {"none", "wrong"} /\ UNCHANGED <<file, owned>>
     \/ owned' = FALSE /\ UNCHANGED <<file, ref>>
  /\ pc' = "idle"
  /\ UNCHANGED <<position, archive, selected, before>>

\* What is on the disk at first is arbitrary.
Init ==
  /\ file \in [Files -> {"missing", "bad", "good"}]
  /\ ref \in {"none", "wrong", "right"}
  /\ owned \in BOOLEAN
  /\ pc = "idle"
  /\ todo = {} /\ left = <<>>
  /\ archive = "none"
  /\ selected = {}
  /\ faults = 0
  /\ before = {}

Step ==
  \/ HfFile \/ HfFails \/ HfDone
  \/ SttCheck \/ SttFetch \/ SttRef \/ SttVerify \/ SttChown
  \/ TtsCheck \/ TtsFetch \/ TtsArchive \/ TtsAmbiguous
  \/ TtsTruncate \/ TtsCopy \/ TtsDone
  \/ Verify

Next ==
  \/ \E gs \in (SUBSET Groups) \ {{}} : Begin(gs)
  \/ BeginFails
  \/ Step
  \/ Abort
  \/ Decay

Spec == Init /\ [][Next]_vars

\* A run goes on, and the operator provisions every group (--model) again and
\* again.
FairSpec == Spec /\ WF_vars(Step) /\ \A g \in Groups : SF_vars(Begin({g}))

-----------------------------------------------------------------------------
(* Properties.                                                             *)

Complete(gs) ==
  /\ FilesOf(gs) \subseteq Good
  /\ HasStt(gs) => ref = "right" /\ owned

\* "PASS all provisioned model files verified": whatever was on the disk,
\* whatever the sources served and wherever earlier runs were killed, a run
\* that passes leaves all it was asked for in order, the owner of the STT cache
\* included.
PassMeansComplete == pc = "passed" => Complete(selected)

\* A run that ends by itself loses nothing, whether it passes or fails: a source
\* that serves the wrong bytes does not cost a file that was good.
NothingLost == pc \in {"passed", "failed"} => before \subseteq Good

\* "Corruption fails closed; inspect before any repair": a bad file that came
\* from Hugging Face is the operator's to remove.
Corrupt(g) == Way[g] # "tts" /\ \E f \in Range(Locked[g]) : file[f] = "bad"

\* When faults stop, repeated runs put every group in order and leave it so,
\* whatever was missing, and wherever a run was killed; TTS also after damage,
\* the others unless one of their own files is corrupt.
Converges == \A g \in Groups : <>[](Complete({g}) \/ Corrupt(g))

=============================================================================
