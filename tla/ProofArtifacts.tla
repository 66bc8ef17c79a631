--------------------------- MODULE ProofArtifacts ---------------------------
(***************************************************************************)
(* --prove: what happens between a successful execution and its report     *)
(* (proveno-orchestrator/src/prove.rs, called from main.rs).               *)
(*                                                                         *)
(* A run of the orchestrator has loaded its policy and executed a program  *)
(* under it.  It writes three files to its output directory, proves, and   *)
(* reads files back.  The OpenVM backend is a child process that reads the *)
(* files and the policy for itself and leaves a proof in the directory;    *)
(* the Noir backend is called in-process.  Meanwhile the policy file may   *)
(* be edited, the run may be killed, which its child survives, and other   *)
(* runs may use the same directory: its default is "proof-output" and      *)
(* nothing locks it.                                                       *)
(*                                                                         *)
(* Programs, transcripts and files are known by the run they stem from.    *)
(***************************************************************************)
EXTENDS Integers

CONSTANTS
  Runs,      \* runs of the orchestrator with --prove
  Dirs,      \* output directories
  Backends,  \* of --backend, "openvm" by the --openvm-level it proves at
  MaxEdits   \* bounds the edits of the policy file

Levels == Backends \ {"noir"}
NoPolicy == 0               \* committed as a policy_hash of zeros
Versions == 1 .. MaxEdits + 1  \* what the policy file holds, edit after edit

(* What is in a file that no run has written in full: it is absent, opened *)
(* and not yet written, or garbled.                                        *)
Unusable == {"absent", "empty", "garbled"}

ASSUME ArtifactsAssumption ==
  /\ Runs \cap Unusable = {}
  /\ Backends \subseteq {"noir", "app", "stark"}
  /\ MaxEdits \in Nat

VARIABLES
  cli,        \* the command line of each run
  policyFile, \* the version in the file that --policy names
  pc,         \* what each run does next
  enforced,   \* the policy main loaded and the execution ran under
  disk,       \* the three files of each directory
  proofFile,  \* the OpenVM proof of each level in each directory
  child,      \* the OpenVM process that each run has started
  childView,  \* what that process has read
  view,       \* what a run has read back so far
  artifacts,  \* the ProveArtifacts of each run that has them
  met         \* (history) what interfered with a run while it was active

dirVars == <<disk, proofFile>>
childVars == <<child, childView>>
runVars == <<view, artifacts>>
vars == <<cli, policyFile, pc, enforced, dirVars, childVars, runVars, met>>

-----------------------------------------------------------------------------
FileNames == {"program.lua", "compiled.json", "dry_result.json"}
Contents == Unusable \cup Runs

(* What a proof, or a set of public inputs, speaks of. *)
Claim(program, tape, policy) ==
  [program |-> program, tape |-> tape, policy |-> policy]
NoClaim == Claim("absent", "absent", NoPolicy)
NoArtifacts == [inputs |-> NoClaim, proof |-> NoClaim]

(* "stopped": killed, or returned an error that main prints in place of     *)
(* the artifacts.                                                          *)
Ended == {"done", "stopped"}
Active(r) == pc[r] # "start" /\ pc[r] \notin Ended

(* Command::output waits for the child but does not take it along: a child  *)
(* whose run was killed goes on.                                           *)
Running == {"reads", "proves"}
Orphan(r) == child[r] \in Running /\ ~Active(r)

(* A bug: whatever is in the file is taken. *)
ParsesAnything(content) == TRUE

(* serde_json accepts what a run has written in full. *)
Parses(content) == content \notin Unusable

Dir(r) == cli[r].dir
ByOpenVm(r) == cli[r].backend \in Levels

(* load_spec, by whoever calls it. *)
LoadedBy(r) == IF cli[r].policy THEN policyFile ELSE NoPolicy

(* A bug: the child is started without --policy. *)
ChildIgnoresPolicy(r) == NoPolicy

(* The policy the child commits: it gets --policy and loads it itself. *)
ChildPolicy(r) == LoadedBy(r)

Init ==
  /\ cli \in [Runs -> [dir : Dirs, backend : Backends, policy : BOOLEAN]]
  /\ policyFile = 1
  /\ pc = [r \in Runs |-> "start"]
  /\ enforced = [r \in Runs |-> NoPolicy]
  /\ disk = [d \in Dirs |-> [f \in FileNames |-> "absent"]]
  /\ proofFile = [d \in Dirs |-> [l \in Levels |-> NoClaim]]
  /\ child = [r \in Runs |-> "none"]
  /\ childView = [r \in Runs |-> NoClaim]
  /\ view = [r \in Runs |-> NoClaim]
  /\ artifacts = [r \in Runs |-> NoArtifacts]
  /\ met = [r \in Runs |-> {}]

(* The run steps from one place of the code to another. *)
Goto(r, from, to) ==
  /\ pc[r] = from
  /\ pc' = [pc EXCEPT ![r] = to]

(* main loads the policy, once, and executes the program under it, which   *)
(* leaves an output to be turned into files.                               *)
Start(r) ==
  LET here == {s \in Runs \ {r} : Dir(s) = Dir(r)}
      others == {s \in here : Active(s)}
      orphans == {s \in here : Orphan(s)}
  IN /\ Goto(r, "start", "program.lua")
     /\ enforced' = [enforced EXCEPT ![r] = LoadedBy(r)]
     /\ met' = [s \in Runs |->
                  met[s]
                    \cup (IF s \in others \/ (s = r /\ others # {})
                          THEN {"run"} ELSE {})
                    \cup (IF s = r /\ orphans # {} THEN {"orphan"} ELSE {})]
     /\ UNCHANGED <<cli, policyFile, dirVars, childVars, runVars>>

-----------------------------------------------------------------------------
(* build_proof_artifacts.  fs::write empties a file, then fills it.        *)

AfterFile(f, r) ==
  CASE f = "program.lua"     -> "compiled.json"
    [] f = "compiled.json"   -> "dry_result.json"
    [] f = "dry_result.json" -> IF ByOpenVm(r) THEN "spawn" ELSE "read dry"

(* pc while f is open *)
Filling(f) ==
  CASE f = "program.lua"     -> "program.lua opened"
    [] f = "compiled.json"   -> "compiled.json opened"
    [] f = "dry_result.json" -> "dry_result.json opened"

(* A bug: a compiled program that is there already is kept. *)
OpenUnlessThere(r, f) ==
  LET kept == f = "compiled.json" /\ Parses(disk[Dir(r)][f])
  IN /\ Goto(r, f, IF kept THEN AfterFile(f, r) ELSE Filling(f))
     /\ disk' = IF kept THEN disk ELSE [disk EXCEPT ![Dir(r)][f] = "empty"]
     /\ UNCHANGED <<cli, policyFile, enforced, proofFile, childVars, runVars, met>>

Open(r, f) ==
  /\ Goto(r, f, Filling(f))
  /\ disk' = [disk EXCEPT ![Dir(r)][f] = "empty"]
  /\ UNCHANGED <<cli, policyFile, enforced, proofFile, childVars, runVars, met>>

(* Where another run has written since, the texts may get mixed. *)
Fill(r, f) ==
  /\ Goto(r, Filling(f), AfterFile(f, r))
  /\ \E content \in IF disk[Dir(r)][f] = "empty" THEN {r} ELSE {r, "garbled"} :
       disk' = [disk EXCEPT ![Dir(r)][f] = content]
  /\ UNCHANGED <<cli, policyFile, enforced, proofFile, childVars, runVars, met>>

-----------------------------------------------------------------------------
(* The OpenVM backend. *)

(* The run starts the child and waits for its end. *)
Spawn(r) ==
  /\ Goto(r, "spawn", "waits")
  /\ child' = [child EXCEPT ![r] = "reads"]
  /\ UNCHANGED <<cli, policyFile, enforced, dirVars, childView, runVars, met>>

(* The child reads its input files and the policy.  What it encodes of them *)
(* in openvm_input.json is read by nobody else.                             *)
ChildReads(r) ==
  LET d == disk[Dir(r)]
  IN /\ child[r] = "reads"
     /\ Parses(d["compiled.json"]) /\ Parses(d["dry_result.json"])
     /\ child' = [child EXCEPT ![r] = "proves"]
     /\ childView' = [childView EXCEPT ![r] =
                   Claim(d["compiled.json"], d["dry_result.json"], ChildPolicy(r))]
     /\ UNCHANGED <<cli, policyFile, pc, enforced, dirVars, runVars, met>>

(* It proves, leaves the proof in the file of its level and prints its     *)
(* digest, be there a run to read it or not.                               *)
ChildProves(r) ==
  /\ child[r] = "proves"
  /\ child' = [child EXCEPT ![r] = "proved"]
  /\ proofFile' = [proofFile EXCEPT ![Dir(r)][cli[r].backend] = childView[r]]
  /\ UNCHANGED <<cli, policyFile, pc, enforced, disk, childView, runVars, met>>

ChildFails(r) ==
  /\ child[r] \in Running
  /\ child' = [child EXCEPT ![r] = "failed"]
  /\ UNCHANGED <<cli, policyFile, pc, enforced, dirVars, childView, runVars, met>>

(* A bug: the run goes on as soon as the child has read its files. *)
CollectEarly(r) ==
  /\ child[r] = "proves"
  /\ Goto(r, "waits", "read dry")
  /\ artifacts' = [artifacts EXCEPT ![r].proof = childView[r]]
  /\ UNCHANGED <<cli, policyFile, enforced, dirVars, childVars, view, met>>

(* The child has ended well: its digest is what the run will report.       *)
Collect(r) ==
  /\ child[r] = "proved"
  /\ Goto(r, "waits", "read dry")
  /\ artifacts' = [artifacts EXCEPT ![r].proof = childView[r]]
  /\ UNCHANGED <<cli, policyFile, enforced, dirVars, childVars, view, met>>

(* The run reads dry_result.json back, and for OpenVM also compiled.json. *)
ReadDry(r) ==
  LET content == disk[Dir(r)]["dry_result.json"]
  IN /\ Parses(content)
     /\ Goto(r, "read dry",
             IF ByOpenVm(r) THEN "read compiled" ELSE "noir")
     /\ view' = [view EXCEPT ![r].tape = content]
     /\ UNCHANGED <<cli, policyFile, enforced, dirVars, childVars, artifacts, met>>

ReadCompiled(r) ==
  LET content == disk[Dir(r)]["compiled.json"]
  IN /\ Parses(content)
     /\ Goto(r, "read compiled", "replay")
     /\ view' = [view EXCEPT ![r].program = content]
     /\ UNCHANGED <<cli, policyFile, enforced, dirVars, childVars, artifacts, met>>

(* The policy is loaded a third time; the replay's public inputs replace   *)
(* those of build_proof_artifacts.                                         *)
Replay(r) ==
  /\ Goto(r, "replay", "done")
  /\ artifacts' = [artifacts EXCEPT ![r].inputs =
                     [view[r] EXCEPT !.policy = LoadedBy(r)]]
  /\ view' = [view EXCEPT ![r] = NoClaim]
  /\ UNCHANGED <<cli, policyFile, enforced, dirVars, childVars, met>>

(* The Noir backend proves the program in memory with the transcript that  *)
(* was read back; compute_public_inputs knows of no policy.                *)
ProveNoir(r) ==
  /\ Goto(r, "noir", "done")
  /\ artifacts' = [artifacts EXCEPT ![r] =
                     [inputs |-> Claim(r, r, NoPolicy),
                      proof |-> Claim(r, view[r].tape, NoPolicy)]]
  /\ view' = [view EXCEPT ![r] = NoClaim]
  /\ UNCHANGED <<cli, policyFile, enforced, dirVars, childVars, met>>

(* What a run has in memory goes with it; its child does not. *)
Stop(r) ==
  /\ Active(r)
  /\ pc' = [pc EXCEPT ![r] = "stopped"]
  /\ view' = [view EXCEPT ![r] = NoClaim]
  /\ artifacts' = [artifacts EXCEPT ![r] = NoArtifacts]
  /\ UNCHANGED <<cli, policyFile, enforced, proofFile, childVars, met>>

(* The execution, the file system, a parser, load_spec or the replay        *)
(* (which runs with VmConfig::default(), not with the limits of the        *)
(* execution) fails, or the child has failed: main reports the run without *)
(* artifacts.  While it waits for the child nothing else can fail.         *)
Fails(r) ==
  /\ pc[r] = "waits" => child[r] = "failed"
  /\ Stop(r)
  /\ UNCHANGED disk

-----------------------------------------------------------------------------
(* What others do. *)

EditPolicy ==
  /\ policyFile <= MaxEdits
  /\ policyFile' = policyFile + 1
  /\ met' = [r \in Runs |-> IF Active(r) THEN met[r] \cup {"edit"} ELSE met[r]]
  /\ UNCHANGED <<cli, pc, enforced, dirVars, childVars, runVars>>

(* The run is killed, at any place: a file it is writing is left garbled,   *)
(* and a child it waits for is left alone.                                 *)
Killed(r) ==
  /\ Stop(r)
  /\ \/ UNCHANGED disk
     \/ \E f \in FileNames :
          /\ pc[r] = Filling(f)
          /\ disk' = [disk EXCEPT ![Dir(r)][f] = "garbled"]

Child(r) == ChildReads(r) \/ ChildProves(r) \/ ChildFails(r)

Step(r) ==
  \/ \E f \in FileNames : Open(r, f) \/ Fill(r, f)
  \/ Spawn(r) \/ Collect(r)
  \/ ReadDry(r) \/ ReadCompiled(r) \/ Replay(r)
  \/ ProveNoir(r)
  \/ Fails(r)

Next ==
  \/ \E r \in Runs : Start(r) \/ Step(r) \/ Child(r) \/ Killed(r)
  \/ EditPolicy

(* No fairness: the properties are about what is reported, if it is, and a *)
(* run waits for its child without a limit of time.                        *)
Spec == Init /\ [][Next]_vars

-----------------------------------------------------------------------------
Places == {"start"} \cup Ended \cup FileNames \cup {Filling(f) : f \in FileNames}
            \cup {"spawn", "waits", "read dry", "read compiled", "replay", "noir"}
Claims == [program : Runs \cup {"absent"}, tape : Runs \cup {"absent"},
           policy : Versions \cup {NoPolicy}]

TypeOK ==
  /\ cli \in [Runs -> [dir : Dirs, backend : Backends, policy : BOOLEAN]]
  /\ policyFile \in Versions
  /\ pc \in [Runs -> Places]
  /\ enforced \in [Runs -> Versions \cup {NoPolicy}]
  /\ disk \in [Dirs -> [FileNames -> Contents]]
  /\ proofFile \in [Dirs -> [Levels -> Claims]]
  /\ child \in [Runs -> Running \cup {"none", "proved", "failed"}]
  /\ childView \in [Runs -> Claims]
  /\ view \in [Runs -> Claims]
  /\ artifacts \in [Runs -> [inputs : Claims, proof : Claims]]
  /\ met \in [Runs -> SUBSET {"run", "orphan", "edit"}]

(* The public inputs a run prints and the proof they come with speak of    *)
(* its own program and transcript, and under OpenVM of the policy it ran   *)
(* under, provided no other run used the directory and nobody edited the   *)
(* policy meanwhile: the run, its child and the replay get these from      *)
(* different places (build_proof_artifacts_with_openvm, ..._with_noir).    *)
(* The child of a run that was killed takes nothing away from this, as it  *)
(* writes none of the files that are read back.                            *)
UndisturbedReportIsTrue ==
  \A r \in Runs : pc[r] = "done" /\ "run" \notin met[r] =>
    LET own(c) == c.program = r /\ c.tape = r
    IN /\ own(artifacts[r].inputs) /\ own(artifacts[r].proof)
       /\ "edit" \notin met[r] /\ ByOpenVm(r) =>
            /\ artifacts[r].inputs.policy = enforced[r]
            /\ artifacts[r].proof.policy = enforced[r]

(* At the moment a run returns its artifacts the files they name hold what *)
(* the run wrote, whatever an earlier run or a kill had left there, unless *)
(* another run was active in the directory; and the proof file holds the   *)
(* proof the run reports, unless the child of a run that was killed was    *)
(* still at work there, which may write its own proof over it.             *)
ReportedFilesAreOfTheRun ==
  [][\A r \in Runs :
       pc[r] # "done" /\ pc'[r] = "done" /\ "run" \notin met[r] =>
         /\ \A f \in FileNames : disk[Dir(r)][f] = r
         /\ ByOpenVm(r) /\ "orphan" \notin met[r] =>
              proofFile[Dir(r)][cli[r].backend] = artifacts'[r].proof]_vars

(* A proof that is reported commits the policy that was enforced.          *)
(* main.rs:68 promises it for --policy, main.rs:97 explains why it must.   *)
EnforcedPolicyIsCommitted ==
  \A r \in Runs : pc[r] = "done" => artifacts[r].proof.policy = enforced[r]

(* Once no run is active in a directory, a proof found there is about the  *)
(* program.lua found there.  prove.rs:18 gives this as the reason for      *)
(* writing program.lua.                                                    *)
ProofFileMatchesSource ==
  \A d \in Dirs, l \in Levels :
    (\A r \in Runs : Active(r) => Dir(r) # d) /\ proofFile[d][l] # NoClaim =>
      disk[d]["program.lua"] = proofFile[d][l].program

=============================================================================
