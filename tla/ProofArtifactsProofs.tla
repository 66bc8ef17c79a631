------------------------ MODULE ProofArtifactsProofs ------------------------
(***************************************************************************)
(* Proofs about ProofArtifacts for any runs, directories and backends, and *)
(* any number of edits of the policy file.                                 *)
(***************************************************************************)
EXTENDS ProofArtifacts, TLAPS

(* The places of pc, spelled out. *)
LEMMA PlacesAre ==
  Places = {"start", "done", "stopped",
            "program.lua", "compiled.json", "dry_result.json",
            "program.lua opened", "compiled.json opened", "dry_result.json opened",
            "spawn", "waits", "read dry", "read compiled", "replay", "noir"}
<1>1. {Filling(f) : f \in FileNames} =
        {"program.lua opened", "compiled.json opened", "dry_result.json opened"}
  BY DEF Filling, FileNames
<1>2. QED
  BY <1>1 DEF Places, Ended, FileNames

-----------------------------------------------------------------------------
(* What an undisturbed run relies on.                                      *)

(* The backend decides which of the places after the files are visited.    *)
Branches ==
  \A r \in Runs :
    /\ pc[r] \in {"spawn", "waits", "read compiled", "replay"} => ByOpenVm(r)
    /\ pc[r] = "noir" => ~ByOpenVm(r)
    /\ child[r] # "none" => ByOpenVm(r)

(* The places until each file is written. *)
ToWrite1 == {"program.lua", "program.lua opened"}
ToWrite2 == ToWrite1 \cup {"compiled.json", "compiled.json opened"}
ToWrite3 == ToWrite2 \cup {"dry_result.json", "dry_result.json opened"}

(* A child is started once, and a run that has collected it is behind it:  *)
(* an active run whose child is running waits for it.                      *)
BeforeChild == {"start", "spawn"} \cup ToWrite3
Children ==
  \A r \in Runs :
    /\ pc[r] \in BeforeChild => child[r] = "none"
    /\ pc[r] \in {"read dry", "read compiled", "replay"} /\ ByOpenVm(r) =>
         child[r] = "proved"
    /\ ~ByOpenVm(r) => child[r] = "none"

(* Runs that are active in one directory have met, and a run has met the   *)
(* children that outlived theirs.                                          *)
Exclusive ==
  \A r, s \in Runs :
    r # s /\ Active(r) /\ Dir(s) = Dir(r) =>
      /\ Active(s) => "run" \in met[r]
      /\ Orphan(s) => "run" \in met[r] \/ "orphan" \in met[r]

(* While nobody edits it the policy file holds what main loaded. *)
PolicyKept ==
  \A r \in Runs : Active(r) /\ "edit" \notin met[r] => enforced[r] = LoadedBy(r)

(* The files a run has completed are its own, and the one it has open is   *)
(* still empty.                                                            *)
OwnFiles(r) ==
  LET d == disk[Dir(r)] IN
  /\ pc[r] \notin ToWrite1 => d["program.lua"] = r
  /\ pc[r] \notin ToWrite2 => d["compiled.json"] = r
  /\ pc[r] \notin ToWrite3 => d["dry_result.json"] = r
  /\ \A f \in FileNames : pc[r] = Filling(f) => d[f] = "empty"

(* A claim about the run's own program and calls, and, had nobody edited   *)
(* it, about the policy it ran under.                                      *)
OwnClaim(r, c) ==
  /\ c.program = r /\ c.tape = r
  /\ "edit" \notin met[r] /\ ByOpenVm(r) => c.policy = enforced[r]

OwnView(r) ==
  /\ child[r] \in {"proves", "proved"} => OwnClaim(r, childView[r])
  /\ pc[r] \in {"read compiled", "replay", "noir"} => view[r].tape = r
  /\ pc[r] = "replay" => view[r].program = r

(* The proof file is the only one that a child writes. *)
OwnProof(r) ==
  /\ child[r] = "proved" /\ "orphan" \notin met[r] =>
       proofFile[Dir(r)][cli[r].backend] = childView[r]
  /\ ByOpenVm(r) /\ pc[r] \in {"read dry", "read compiled", "replay"} =>
       artifacts[r].proof = childView[r]

OwnReport(r) ==
  pc[r] = "done" =>
    OwnClaim(r, artifacts[r].inputs) /\ OwnClaim(r, artifacts[r].proof)

Undisturbed(r) ==
  "run" \notin met[r] =>
    /\ Active(r) => OwnFiles(r) /\ OwnView(r) /\ OwnProof(r)
    /\ OwnReport(r)

Inv ==
  /\ Branches /\ Children /\ Exclusive /\ PolicyKept
  /\ \A r \in Runs : Undisturbed(r)

-----------------------------------------------------------------------------
(* Types.                                                                  *)

USE DEF Goto, Dir, ByOpenVm, dirVars, childVars, runVars

LEMMA FillingIs ==
  /\ Filling("program.lua") = "program.lua opened"
  /\ Filling("compiled.json") = "compiled.json opened"
  /\ Filling("dry_result.json") = "dry_result.json opened"
BY DEF Filling

LEMMA AfterFileIs ==
  ASSUME NEW r
  PROVE  /\ AfterFile("program.lua", r) = "compiled.json"
         /\ AfterFile("compiled.json", r) = "dry_result.json"
         /\ AfterFile("dry_result.json", r) =
              IF ByOpenVm(r) THEN "spawn" ELSE "read dry"
BY DEF AfterFile

LEMMA NoClaimIsAClaim == NoClaim \in Claims /\ NoArtifacts \in [inputs : Claims, proof : Claims]
BY DEF NoClaim, NoArtifacts, Claim, Claims

LEMMA ClaimParts ==
  ASSUME NEW c \in Claims, NEW x \in Runs, NEW p \in Versions \cup {NoPolicy}
  PROVE  /\ [c EXCEPT !.program = x] \in Claims
         /\ [c EXCEPT !.tape = x] \in Claims
         /\ [c EXCEPT !.policy = p] \in Claims
         /\ \A y \in Runs \cup {"absent"} : Claim(x, y, p) \in Claims
         /\ c.tape \in Runs \cup {"absent"}
BY DEF Claim, Claims

LEMMA Typed ==
  ASSUME TypeOK, NEW r \in Runs
  PROVE  /\ cli[r].dir \in Dirs
         /\ cli[r].backend \in Backends
         /\ \A f \in FileNames : disk[Dir(r)][f] \in Contents
         /\ \A f \in FileNames : Parses(disk[Dir(r)][f]) => disk[Dir(r)][f] \in Runs
         /\ view[r] \in Claims /\ childView[r] \in Claims
         /\ LoadedBy(r) \in Versions \cup {NoPolicy}
<1>1. cli[r] \in [dir : Dirs, backend : Backends, policy : BOOLEAN]
  BY DEF TypeOK
<1>2. cli[r].dir \in Dirs /\ cli[r].backend \in Backends
  BY <1>1
<1>3. disk[Dir(r)] \in [FileNames -> Contents]
  BY <1>2 DEF TypeOK
<1>4. \A f \in FileNames : disk[Dir(r)][f] \in Contents
  BY <1>3
<1>5. QED
  BY <1>2, <1>4 DEF TypeOK, Parses, Contents, LoadedBy

LEMMA TypeInit == Init => TypeOK
<1> SUFFICES ASSUME Init PROVE TypeOK
  OBVIOUS
<1>1. policyFile \in Versions
  BY ArtifactsAssumption DEF Init, Versions
<1>2. pc \in [Runs -> Places]
  BY PlacesAre DEF Init
<1>3. /\ disk \in [Dirs -> [FileNames -> Contents]]
      /\ proofFile \in [Dirs -> [Levels -> Claims]]
      /\ view \in [Runs -> Claims] /\ childView \in [Runs -> Claims]
      /\ artifacts \in [Runs -> [inputs : Claims, proof : Claims]]
  BY NoClaimIsAClaim DEF Init, Contents, Unusable
<1>4. QED
  BY <1>1, <1>2, <1>3 DEF Init, TypeOK

LEMMA TypeStep == TypeOK /\ [Next]_vars => TypeOK'
<1> SUFFICES ASSUME TypeOK, [Next]_vars PROVE TypeOK'
  OBVIOUS
<1> USE DEF TypeOK
<1>3. ASSUME NEW r \in Runs, Start(r) PROVE TypeOK'
  BY <1>3, Typed, PlacesAre DEF Start
<1>4. ASSUME NEW r \in Runs, NEW f \in FileNames, Open(r, f) PROVE TypeOK'
  <2>1. Filling(f) \in Places
    BY DEF Places
  <2>2. QED
    BY <1>4, <2>1 DEF Open, Contents, Unusable
<1>5. ASSUME NEW r \in Runs, NEW f \in FileNames, Fill(r, f) PROVE TypeOK'
  <2>1. AfterFile(f, r) \in Places
    BY PlacesAre, AfterFileIs DEF FileNames
  <2>2. QED
    BY <1>5, <2>1 DEF Fill, Contents, Unusable
<1>6. ASSUME NEW r \in Runs, ChildReads(r) PROVE TypeOK'
  <2>1. /\ disk[Dir(r)]["compiled.json"] \in Runs
        /\ disk[Dir(r)]["dry_result.json"] \in Runs
        /\ LoadedBy(r) \in Versions \cup {NoPolicy}
    BY <1>6, Typed DEF ChildReads, FileNames
  <2>2. Claim(disk[Dir(r)]["compiled.json"], disk[Dir(r)]["dry_result.json"],
              LoadedBy(r)) \in Claims
    BY <2>1 DEF Claim, Claims
  <2>3. QED
    BY <1>6, <2>2 DEF ChildReads, ChildPolicy, Running
<1>7. ASSUME NEW r \in Runs, ChildProves(r) \/ ChildFails(r) PROVE TypeOK'
  <2>1. childView[r] \in Claims
    BY Typed
  <2>2. CASE ChildProves(r)
    <3>1. proofFile' \in [Dirs -> [Levels -> Claims]]
      BY <2>1, <2>2 DEF ChildProves
    <3>2. QED
      BY <2>2, <3>1 DEF ChildProves
  <2>3. CASE ChildFails(r)
    BY <2>3 DEF ChildFails
  <2>4. QED
    BY <1>7, <2>2, <2>3
<1>16. ASSUME NEW r \in Runs, Spawn(r) \/ Collect(r) PROVE TypeOK'
  <2>1. {"waits", "read dry"} \subseteq Places
    BY PlacesAre
  <2>2. CASE Spawn(r)
    BY <2>1, <2>2 DEF Spawn, Running
  <2>3. CASE Collect(r)
    <3>1. artifacts' \in [Runs -> [inputs : Claims, proof : Claims]]
      BY <2>3, Typed DEF Collect
    <3>2. QED
      BY <2>1, <2>3, <3>1 DEF Collect
  <2>4. QED
    BY <1>16, <2>2, <2>3
<1>8. ASSUME NEW r \in Runs, ReadDry(r) PROVE TypeOK'
  <2>1. {"read compiled", "noir"} \subseteq Places
    BY PlacesAre
  <2>2. disk[Dir(r)]["dry_result.json"] \in Runs
    BY <1>8, Typed DEF ReadDry, FileNames
  <2>3. [view[r] EXCEPT !.tape = disk[Dir(r)]["dry_result.json"]] \in Claims
    BY <2>2, Typed, ClaimParts
  <2>4. QED
    BY <1>8, <2>1, <2>3 DEF ReadDry
<1>9. ASSUME NEW r \in Runs, ReadCompiled(r) PROVE TypeOK'
  <2>1. "replay" \in Places
    BY PlacesAre
  <2>2. disk[Dir(r)]["compiled.json"] \in Runs
    BY <1>9, Typed DEF ReadCompiled, FileNames
  <2>3. [view[r] EXCEPT !.program = disk[Dir(r)]["compiled.json"]] \in Claims
    BY <2>2, Typed, ClaimParts
  <2>4. QED
    BY <1>9, <2>1, <2>3 DEF ReadCompiled
<1>10. ASSUME NEW r \in Runs, Replay(r) PROVE TypeOK'
  <2>1. [view[r] EXCEPT !.policy = LoadedBy(r)] \in Claims
    BY Typed, ClaimParts
  <2>2. "done" \in Places
    BY PlacesAre
  <2>3. QED
    BY <1>10, <2>1, <2>2, NoClaimIsAClaim DEF Replay
<1>11. ASSUME NEW r \in Runs, ProveNoir(r) PROVE TypeOK'
  <2>1. /\ Claim(r, r, NoPolicy) \in Claims
        /\ Claim(r, view[r].tape, NoPolicy) \in Claims
    BY Typed, ClaimParts
  <2>2. QED
    BY <1>11, <2>1, PlacesAre, NoClaimIsAClaim DEF ProveNoir
<1>12. ASSUME NEW r \in Runs, Stop(r),
              disk' = disk \/ \E f \in FileNames :
                disk' = [disk EXCEPT ![Dir(r)][f] = "garbled"]
       PROVE  TypeOK'
  <2>1. "stopped" \in Places
    BY PlacesAre
  <2>2. disk' \in [Dirs -> [FileNames -> Contents]]
    <3>1. "garbled" \in Contents
      BY DEF Contents, Unusable
    <3>2. ASSUME NEW f \in FileNames, disk' = [disk EXCEPT ![Dir(r)][f] = "garbled"]
          PROVE  disk' \in [Dirs -> [FileNames -> Contents]]
      BY <3>1, <3>2
    <3>3. QED
      BY <1>12, <3>2
  <2>3. QED
    BY <1>12, <2>1, <2>2, NoClaimIsAClaim DEF Stop
<1>13. CASE EditPolicy
  BY <1>13, ArtifactsAssumption DEF EditPolicy, Versions
<1>14. CASE UNCHANGED vars
  BY <1>14 DEF vars
<1>15. QED
  BY <1>3, <1>4, <1>5, <1>6, <1>7, <1>8, <1>9, <1>10, <1>11, <1>12, <1>13, <1>14,
     <1>16 DEF Next, Step, Child, Fails, Killed

(* Every variable keeps its type: in particular what is read back is some  *)
(* run's, never half a file (Parses).                                      *)
THEOREM TypeCorrect == Spec => []TypeOK
BY TypeInit, TypeStep, PTL DEF Spec

-----------------------------------------------------------------------------
(* A run that has met nobody.                                              *)

LEMMA InvInit == Init => Inv
BY DEF Init, Inv, Branches, Children, Exclusive, PolicyKept, Undisturbed, Active, OwnReport

(* A step of an active run is seen by nobody outside its directory, and no  *)
(* run writes a proof file.                                                *)
LEMMA StepIsLocal ==
  ASSUME TypeOK, NEW r \in Runs, Step(r) \/ Killed(r)
  PROVE  /\ UNCHANGED <<cli, policyFile, enforced, met, proofFile, childView>>
         /\ Active(r)
         /\ \A s \in Runs \ {r} : /\ pc'[s] = pc[s] /\ view'[s] = view[s]
                                  /\ artifacts'[s] = artifacts[s]
                                  /\ child'[s] = child[s]
         /\ \A d \in Dirs \ {Dir(r)} : disk'[d] = disk[d]
         /\ child'[r] = child[r] \/ Spawn(r)
<1>1. /\ pc[r] \in Places /\ cli[r].dir \in Dirs
      /\ DOMAIN pc = Runs /\ DOMAIN view = Runs /\ DOMAIN artifacts = Runs
      /\ DOMAIN disk = Dirs /\ DOMAIN child = Runs
  BY Typed DEF TypeOK
<1> DEFINE Goal == /\ UNCHANGED <<cli, policyFile, enforced, met, proofFile, childView>>
                   /\ Active(r)
                   /\ \A s \in Runs \ {r} : /\ pc'[s] = pc[s] /\ view'[s] = view[s]
                                            /\ artifacts'[s] = artifacts[s]
                                            /\ child'[s] = child[s]
                   /\ \A d \in Dirs \ {Dir(r)} : disk'[d] = disk[d]
                   /\ child'[r] = child[r] \/ Spawn(r)
<1>2. ASSUME NEW f \in FileNames, Open(r, f) \/ Fill(r, f) PROVE Goal
  <2>1. f \notin Ended \cup {"start"} /\ Filling(f) \notin Ended \cup {"start"}
    BY FillingIs DEF FileNames, Ended
  <2>2. CASE Open(r, f)
    BY <1>1, <2>1, <2>2 DEF Open, Active
  <2>3. CASE Fill(r, f)
    BY <1>1, <2>1, <2>3 DEF Fill, Active
  <2>4. QED
    BY <1>2, <2>2, <2>3
<1>3. CASE Spawn(r)
  BY <1>1, <1>3 DEF Spawn, Active, Ended
<1>4. CASE Collect(r)
  BY <1>1, <1>4 DEF Collect, Active, Ended
<1>5. CASE ReadDry(r)
  BY <1>1, <1>5 DEF ReadDry, Active, Ended
<1>6. CASE ReadCompiled(r)
  BY <1>1, <1>6 DEF ReadCompiled, Active, Ended
<1>7. CASE Replay(r)
  BY <1>1, <1>7 DEF Replay, Active, Ended
<1>8. CASE ProveNoir(r)
  BY <1>1, <1>8 DEF ProveNoir, Active, Ended
<1>9. CASE Fails(r)
  BY <1>1, <1>9 DEF Fails, Stop
<1>10. CASE Killed(r)
  BY <1>1, <1>10 DEF Killed, Stop
<1>11. QED
  BY <1>2, <1>3, <1>4, <1>5, <1>6, <1>7, <1>8, <1>9, <1>10 DEF Step

(* A step of a child is seen by nobody but its run and the proof files of   *)
(* its directory.                                                          *)
LEMMA ChildIsLocal ==
  ASSUME TypeOK, NEW r \in Runs, Child(r)
  PROVE  /\ UNCHANGED <<cli, policyFile, pc, enforced, disk, runVars, met>>
         /\ child[r] \in Running
         /\ child'[r] \in {"proves", "proved", "failed"}
         /\ \A s \in Runs \ {r} : child'[s] = child[s] /\ childView'[s] = childView[s]
         /\ \A d \in Dirs \ {Dir(r)} : proofFile'[d] = proofFile[d]
<1>1. DOMAIN child = Runs /\ DOMAIN childView = Runs /\ DOMAIN proofFile = Dirs
  BY DEF TypeOK
<1>2. CASE ChildReads(r)
  BY <1>1, <1>2 DEF ChildReads, Running
<1>3. CASE ChildProves(r)
  BY <1>1, <1>3 DEF ChildProves, Running
<1>4. CASE ChildFails(r)
  BY <1>1, <1>4 DEF ChildFails, Running
<1>5. QED
  BY <1>2, <1>3, <1>4 DEF Child

(* Somebody else's step: who has met nobody is not in the same directory.  *)
LEMMA OthersStayUndisturbed ==
  ASSUME TypeOK, Exclusive, NEW r \in Runs, Step(r) \/ Killed(r),
         NEW s \in Runs \ {r}, Undisturbed(s)
  PROVE  Undisturbed(s)'
<1>1. /\ UNCHANGED <<cli, enforced, met, proofFile, childView>> /\ Active(r)
      /\ pc'[s] = pc[s] /\ view'[s] = view[s] /\ artifacts'[s] = artifacts[s]
      /\ child'[s] = child[s]
  BY StepIsLocal
<1>2. "run" \notin met[s] /\ Active(s) => disk'[Dir(s)] = disk[Dir(s)]
  BY <1>1, StepIsLocal, Typed DEF Exclusive
<1>3. Active(s)' = Active(s) /\ \A c : OwnClaim(s, c)' <=> OwnClaim(s, c)
  BY <1>1 DEF Active, OwnClaim
<1>4. QED
  BY <1>1, <1>2, <1>3 DEF Undisturbed, OwnFiles, OwnView, OwnProof, OwnReport, OwnClaim

(* Somebody else's child: it belongs to a run that was met, or has outlived *)
(* one and changes nothing but proof files.                                *)
LEMMA OtherChildDisturbsNobody ==
  ASSUME TypeOK, Exclusive, NEW r \in Runs, Child(r),
         NEW s \in Runs \ {r}, Undisturbed(s)
  PROVE  Undisturbed(s)'
<1>1. /\ UNCHANGED <<cli, enforced, met, pc, disk, view, artifacts>>
      /\ child'[s] = child[s] /\ childView'[s] = childView[s]
      /\ Active(r) \/ Orphan(r)
  BY ChildIsLocal DEF Orphan
<1>2. /\ Active(s) /\ "run" \notin met[s] /\ "orphan" \notin met[s] =>
           proofFile'[Dir(s)] = proofFile[Dir(s)]
  BY <1>1, ChildIsLocal, Typed DEF Exclusive
<1>3. Active(s)' = Active(s) /\ \A c : OwnClaim(s, c)' <=> OwnClaim(s, c)
  BY <1>1 DEF Active, OwnClaim
<1>4. QED
  BY <1>1, <1>2, <1>3 DEF Undisturbed, OwnFiles, OwnView, OwnProof, OwnReport, OwnClaim

LEMMA BeforeChildIs ==
  /\ \A f \in FileNames : f \in BeforeChild /\ Filling(f) \in BeforeChild
  /\ {"program.lua", "start", "spawn"} \subseteq BeforeChild
  /\ BeforeChild \cap ({"waits", "read dry", "read compiled", "replay", "noir"}
                          \cup Ended) = {}
BY FillingIs DEF FileNames, BeforeChild, ToWrite1, ToWrite2, ToWrite3, Ended

(* An active run whose child is running waits for it. *)
LEMMA WaitsForChild ==
  ASSUME TypeOK, Branches, Children, NEW r \in Runs, Active(r), child[r] \in Running
  PROVE  pc[r] = "waits" /\ ByOpenVm(r)
<1>1. pc[r] \in Places /\ child[r] \notin {"none", "proved"}
  BY DEF TypeOK, Running
<1>2. pc[r] \notin BeforeChild /\ ByOpenVm(r)
  BY <1>1 DEF Children, Branches
<1>3. pc[r] \notin {"read dry", "read compiled", "replay", "noir", "done", "stopped"}
  BY <1>1, <1>2 DEF Children, Branches, Active, Ended
<1>4. QED
  BY <1>1, <1>2, <1>3, PlacesAre
     DEF BeforeChild, ToWrite1, ToWrite2, ToWrite3

(* A run's own child: what it reads is the run's, for the run waits for it. *)
LEMMA OwnChildUndisturbed ==
  ASSUME TypeOK, Branches, Children, PolicyKept, NEW r \in Runs, Child(r), Undisturbed(r)
  PROVE  Undisturbed(r)'
<1>1. /\ UNCHANGED <<cli, policyFile, pc, enforced, disk, view, artifacts, met>>
      /\ child[r] \in Running
      /\ Active(r)' = Active(r)
      /\ \A c : OwnClaim(r, c)' <=> OwnClaim(r, c)
  BY ChildIsLocal DEF Active, OwnClaim, runVars
<1>2. OwnFiles(r)' = OwnFiles(r) /\ OwnReport(r)' = OwnReport(r)
  BY <1>1 DEF OwnFiles, OwnReport, OwnClaim
<1>3. SUFFICES ASSUME "run" \notin met[r], Active(r)
               PROVE  OwnView(r)' /\ OwnProof(r)'
  BY <1>1, <1>2 DEF Undisturbed
<1>4. pc[r] = "waits" /\ ByOpenVm(r) /\ OwnFiles(r) /\ OwnView(r)
  BY <1>1, <1>3, WaitsForChild DEF Undisturbed
<1>5. /\ DOMAIN child = Runs /\ DOMAIN childView = Runs
      /\ cli[r].dir \in Dirs /\ DOMAIN proofFile = Dirs
      /\ DOMAIN proofFile[Dir(r)] = Levels
  BY Typed DEF TypeOK
<1>6. CASE ChildReads(r)
  <2>1. /\ child'[r] = "proves"
        /\ childView'[r] = Claim(disk[Dir(r)]["compiled.json"],
                                 disk[Dir(r)]["dry_result.json"], LoadedBy(r))
    BY <1>5, <1>6 DEF ChildReads, ChildPolicy
  <2>2. childView'[r] = Claim(r, r, LoadedBy(r))
    BY <1>4, <2>1 DEF OwnFiles, ToWrite1, ToWrite2, ToWrite3
  <2>3. OwnClaim(r, childView'[r])
    BY <1>3, <2>2 DEF OwnClaim, Claim, PolicyKept
  <2>4. QED
    BY <1>1, <1>4, <2>1, <2>3 DEF OwnView, OwnProof
<1>7. CASE ChildProves(r)
  <2>1. /\ child[r] = "proves" /\ childView'[r] = childView[r]
        /\ proofFile'[Dir(r)][cli[r].backend] = childView[r]
    BY <1>4, <1>5, <1>7 DEF ChildProves
  <2>2. QED
    BY <1>1, <1>4, <2>1 DEF OwnView, OwnProof
<1>8. CASE ChildFails(r)
  <2>1. child'[r] = "failed"
    BY <1>5, <1>8 DEF ChildFails
  <2>2. QED
    BY <1>1, <1>4, <2>1 DEF OwnView, OwnProof
<1>9. QED
  BY <1>6, <1>7, <1>8 DEF Child

(* A run's own step: what it read and made is its own, because the files   *)
(* still are.                                                              *)
LEMMA OwnStepUndisturbed ==
  ASSUME TypeOK, Branches, Children, PolicyKept, NEW r \in Runs,
         Step(r) \/ Killed(r),
         Undisturbed(r)
  PROVE  Undisturbed(r)'
<1> SUFFICES ASSUME "run" \notin met[r] PROVE Undisturbed(r)'
  BY StepIsLocal DEF Undisturbed
<1>1. /\ UNCHANGED <<cli, policyFile, enforced, met, proofFile, childView>> /\ Active(r)
      /\ OwnFiles(r) /\ OwnView(r) /\ OwnProof(r)
  BY StepIsLocal DEF Undisturbed
<1>2. /\ cli[r].dir \in Dirs /\ cli[r].backend \in Backends
      /\ DOMAIN pc = Runs /\ DOMAIN view = Runs /\ DOMAIN artifacts = Runs
      /\ DOMAIN disk = Dirs /\ DOMAIN disk[Dir(r)] = FileNames
      /\ DOMAIN child = Runs
      /\ view[r] \in Claims
      /\ artifacts[r] \in [inputs : Claims, proof : Claims]
  BY Typed DEF TypeOK
<1>3. "edit" \notin met[r] => LoadedBy(r) = enforced[r]
  BY <1>1 DEF PolicyKept
<1>14. \A c : OwnClaim(r, c)' <=> OwnClaim(r, c)
  BY <1>1 DEF OwnClaim
<1> USE DEF ToWrite1, ToWrite2, ToWrite3
<1>4. ASSUME NEW f \in FileNames, Open(r, f) PROVE Undisturbed(r)'
  <2>1. /\ pc'[r] = Filling(f) /\ pc[r] = f
        /\ disk' = [disk EXCEPT ![Dir(r)][f] = "empty"]
    BY <1>2, <1>4 DEF Open
  <2>2. OwnFiles(r)'
    BY <1>1, <1>2, <2>1, FillingIs DEF OwnFiles, FileNames
  <2>3. child[r] = "none" /\ child' = child
    BY <1>4, <2>1, BeforeChildIs DEF Open, Children
  <2>5. OwnView(r)' /\ OwnProof(r)' /\ OwnReport(r)'
    BY <2>1, <2>3, FillingIs DEF OwnView, OwnProof, OwnReport, FileNames
  <2>4. QED
    BY <2>2, <2>5 DEF Undisturbed
<1>5. ASSUME NEW f \in FileNames, Fill(r, f) PROVE Undisturbed(r)'
  <2>1. /\ pc[r] = Filling(f) /\ pc'[r] = AfterFile(f, r)
        /\ disk' = [disk EXCEPT ![Dir(r)][f] = r]
    BY <1>1, <1>2, <1>5 DEF Fill, OwnFiles
  <2>2. OwnFiles(r)'
    <3> DEFINE d == disk[Dir(r)]
    <3>1. disk'[Dir(r)] = [d EXCEPT ![f] = r] /\ DOMAIN d = FileNames
      BY <1>2, <2>1
    <3>2. /\ f # "program.lua" => d["program.lua"] = r
          /\ f \notin {"program.lua", "compiled.json"} => d["compiled.json"] = r
      BY <1>1, <2>1, FillingIs DEF OwnFiles, FileNames
    <3> HIDE DEF d
    <3>3. CASE f = "program.lua"
      <4>1. pc'[r] = "compiled.json" /\ disk'[Dir(r)]["program.lua"] = r
        BY <2>1, <3>1, <3>3, AfterFileIs
      <4>2. QED
        BY <1>1, <4>1, FillingIs DEF OwnFiles, FileNames
    <3>4. CASE f = "compiled.json"
      <4>1. /\ pc'[r] = "dry_result.json"
            /\ disk'[Dir(r)]["program.lua"] = r /\ disk'[Dir(r)]["compiled.json"] = r
        BY <2>1, <3>1, <3>2, <3>4, AfterFileIs DEF FileNames
      <4>2. QED
        BY <1>1, <4>1, FillingIs DEF OwnFiles, FileNames
    <3>5. CASE f = "dry_result.json"
      <4>1. /\ pc'[r] \in {"spawn", "read dry"}
            /\ disk'[Dir(r)]["program.lua"] = r /\ disk'[Dir(r)]["compiled.json"] = r
            /\ disk'[Dir(r)]["dry_result.json"] = r
        BY <2>1, <3>1, <3>2, <3>5, AfterFileIs DEF FileNames
      <4>2. QED
        BY <1>1, <4>1, FillingIs DEF OwnFiles, FileNames
    <3>6. QED
      BY <3>3, <3>4, <3>5 DEF FileNames
  <2>3. child[r] = "none" /\ child' = child
    BY <1>5, <2>1, BeforeChildIs DEF Fill, Children
  <2>4. pc'[r] \in {"compiled.json", "dry_result.json", "spawn", "read dry"}
        /\ (pc'[r] = "read dry" => ~ByOpenVm(r))
    BY <2>1, AfterFileIs DEF FileNames
  <2>5. OwnView(r)' /\ OwnProof(r)' /\ OwnReport(r)'
    BY <1>1, <2>3, <2>4 DEF OwnView, OwnProof, OwnReport
  <2>6. QED
    BY <2>2, <2>5 DEF Undisturbed
<1>6. CASE Spawn(r)
  <2>1. /\ pc[r] = "spawn" /\ pc'[r] = "waits" /\ disk' = disk
        /\ child'[r] = "reads"
    BY <1>2, <1>6 DEF Spawn
  <2>2. OwnFiles(r)'
    BY <1>1, <2>1, FillingIs DEF OwnFiles, FileNames
  <2>3. OwnView(r)' /\ OwnProof(r)' /\ OwnReport(r)'
    BY <1>1, <2>1 DEF OwnView, OwnProof, OwnReport
  <2>4. QED
    BY <2>2, <2>3 DEF Undisturbed
<1>7. CASE Collect(r)
  <2>1. /\ pc[r] = "waits" /\ pc'[r] = "read dry" /\ disk' = disk
        /\ child' = child /\ child[r] = "proved"
        /\ artifacts'[r].proof = childView[r]
    BY <1>2, <1>7 DEF Collect
  <2>2. OwnFiles(r)'
    BY <1>1, <2>1, FillingIs DEF OwnFiles, FileNames
  <2>3. OwnView(r)' /\ OwnProof(r)' /\ OwnReport(r)'
    BY <1>1, <1>14, <2>1 DEF OwnView, OwnProof, OwnReport
  <2>4. QED
    BY <2>2, <2>3 DEF Undisturbed
<1>8. CASE ReadDry(r)
  <2>1. /\ pc[r] = "read dry"
        /\ pc'[r] = IF ByOpenVm(r) THEN "read compiled" ELSE "noir"
        /\ disk' = disk /\ child' = child /\ artifacts' = artifacts
        /\ view'[r].tape = disk[Dir(r)]["dry_result.json"]
    BY <1>2, <1>8 DEF ReadDry, Claims
  <2>2. OwnFiles(r)'
    BY <1>1, <2>1, FillingIs DEF OwnFiles, FileNames
  <2>3. OwnView(r)' /\ OwnProof(r)' /\ OwnReport(r)'
    BY <1>1, <1>14, <2>1 DEF OwnView, OwnProof, OwnReport, OwnFiles
  <2>4. QED
    BY <2>2, <2>3 DEF Undisturbed
<1>9. CASE ReadCompiled(r)
  <2>1. /\ pc[r] = "read compiled" /\ pc'[r] = "replay"
        /\ disk' = disk /\ child' = child /\ artifacts' = artifacts
        /\ view'[r].program = disk[Dir(r)]["compiled.json"]
        /\ view'[r].tape = view[r].tape
    BY <1>2, <1>9 DEF ReadCompiled, Claims
  <2>2. OwnFiles(r)'
    BY <1>1, <2>1, FillingIs DEF OwnFiles, FileNames
  <2>3. OwnView(r)' /\ OwnProof(r)' /\ OwnReport(r)'
    BY <1>1, <1>14, <2>1 DEF OwnView, OwnProof, OwnReport, OwnFiles
  <2>4. QED
    BY <2>2, <2>3 DEF Undisturbed
<1>10. CASE Replay(r)
  <2>1. /\ pc[r] = "replay" /\ pc'[r] = "done"
        /\ artifacts'[r].proof = artifacts[r].proof
        /\ artifacts'[r].inputs.program = view[r].program
        /\ artifacts'[r].inputs.tape = view[r].tape
        /\ artifacts'[r].inputs.policy = LoadedBy(r)
    BY <1>2, <1>10 DEF Replay, Claims
  <2>2. ByOpenVm(r) /\ child[r] = "proved"
    BY <2>1 DEF Branches, Children
  <2>3. OwnClaim(r, artifacts'[r].proof)
    BY <1>1, <2>1, <2>2 DEF OwnView, OwnProof
  <2>4. OwnClaim(r, artifacts'[r].inputs)
    BY <1>1, <1>3, <2>1 DEF OwnView, OwnClaim
  <2>5. OwnReport(r)'
    BY <1>14, <2>3, <2>4 DEF OwnReport
  <2>6. ~Active(r)'
    BY <2>1 DEF Active, Ended
  <2>7. QED
    BY <2>5, <2>6 DEF Undisturbed
<1>11. CASE ProveNoir(r)
  <2>1. /\ pc[r] = "noir" /\ pc'[r] = "done"
        /\ artifacts'[r].inputs = Claim(r, r, NoPolicy)
        /\ artifacts'[r].proof = Claim(r, view[r].tape, NoPolicy)
    BY <1>2, <1>11 DEF ProveNoir
  <2>2. ~ByOpenVm(r)
    BY <2>1 DEF Branches
  <2>3. view[r].tape = r
    BY <1>1, <2>1 DEF OwnView
  <2>4. OwnReport(r)'
    BY <1>1, <2>1, <2>2, <2>3 DEF OwnReport, OwnClaim, Claim
  <2>5. ~Active(r)'
    BY <2>1 DEF Active, Ended
  <2>6. QED
    BY <2>4, <2>5 DEF Undisturbed
<1>12. CASE Stop(r)
  <2>1. pc'[r] = "stopped"
    BY <1>2, <1>12 DEF Stop
  <2>2. QED
    BY <2>1 DEF Undisturbed, Active, Ended, OwnReport
<1>13. QED
  BY <1>4, <1>5, <1>6, <1>7, <1>8, <1>9, <1>10, <1>11, <1>12
     DEF Step, Fails, Killed

(* Where the writing of a file leads. *)
LEMMA WritingLeads ==
  ASSUME TypeOK, NEW r \in Runs, NEW f \in FileNames, Open(r, f) \/ Fill(r, f)
  PROVE  /\ \A s \in Runs \ {r} : pc'[s] = pc[s]
         /\ pc'[r] \in {"program.lua opened", "compiled.json opened",
                        "dry_result.json opened", "compiled.json",
                        "dry_result.json", "spawn", "read dry"}
         /\ pc'[r] = "spawn" => ByOpenVm(r)
         /\ pc'[r] = "read dry" => ~ByOpenVm(r)
         /\ cli' = cli /\ child' = child
<1>1. DOMAIN pc = Runs
  BY DEF TypeOK
<1>2. CASE Open(r, f)
  BY <1>1, <1>2, FillingIs DEF Open, FileNames
<1>3. CASE Fill(r, f)
  <2>1. pc' = [pc EXCEPT ![r] = AfterFile(f, r)] /\ cli' = cli /\ child' = child
    BY <1>3 DEF Fill
  <2>2. QED
    BY <1>1, <2>1, AfterFileIs DEF FileNames
<1>4. QED
  BY <1>2, <1>3

LEMMA BranchesStep == TypeOK /\ Branches /\ [Next]_vars => Branches'
<1> SUFFICES ASSUME TypeOK, Branches, [Next]_vars PROVE Branches'
  OBVIOUS
<1>1. DOMAIN pc = Runs /\ DOMAIN child = Runs
  BY DEF TypeOK
<1>2. ASSUME NEW r \in Runs, NEW f \in FileNames, Open(r, f) \/ Fill(r, f)
      PROVE  Branches'
  <2>1. /\ \A s \in Runs \ {r} : pc'[s] = pc[s]
        /\ pc'[r] \notin {"waits", "read compiled", "replay", "noir"}
        /\ pc'[r] = "spawn" => ByOpenVm(r)
        /\ cli' = cli /\ child' = child
    BY <1>2, WritingLeads
  <2>2. QED
    BY <2>1 DEF Branches
<1>3. ASSUME NEW r \in Runs, Spawn(r) \/ Collect(r) \/ ReadDry(r)
      PROVE  Branches'
  BY <1>1, <1>3 DEF Branches, Spawn, Collect, ReadDry
<1>4. ASSUME NEW r \in Runs,
             ReadCompiled(r) \/ Replay(r) \/ ProveNoir(r) \/ Stop(r) \/ Start(r)
      PROVE  Branches'
  BY <1>1, <1>4 DEF Branches, ReadCompiled, Replay, ProveNoir, Stop, Start
<1>5. ASSUME NEW r \in Runs, Child(r)
      PROVE  Branches'
  BY <1>5, ChildIsLocal DEF Branches, Running
<1>6. CASE EditPolicy \/ UNCHANGED vars
  BY <1>6 DEF Branches, EditPolicy, vars
<1>7. QED
  BY <1>2, <1>3, <1>4, <1>5, <1>6 DEF Next, Step, Fails, Killed

LEMMA ChildrenStep == TypeOK /\ Branches /\ Children /\ [Next]_vars => Children'
<1> SUFFICES ASSUME TypeOK, Branches, Children, [Next]_vars PROVE Children'
  OBVIOUS
<1>1. DOMAIN pc = Runs /\ DOMAIN child = Runs
  BY DEF TypeOK
<1>3. ASSUME NEW r \in Runs, NEW f \in FileNames, Open(r, f) \/ Fill(r, f)
      PROVE  Children'
  <2>1. child' = child /\ child[r] = "none"
    BY BeforeChildIs, <1>3 DEF Open, Fill, Children
  <2>2. /\ \A s \in Runs \ {r} : pc'[s] = pc[s]
        /\ pc'[r] \notin {"read compiled", "replay"}
        /\ pc'[r] = "read dry" => ~ByOpenVm(r)
        /\ cli' = cli
    BY <1>3, WritingLeads
  <2>3. QED
    BY <2>1, <2>2 DEF Children
<1>4. ASSUME NEW r \in Runs, Spawn(r)
      PROVE  Children'
  BY <1>1, BeforeChildIs, <1>4 DEF Children, Branches, Spawn
<1>10. ASSUME NEW r \in Runs, Collect(r)
      PROVE  Children'
  BY <1>1, BeforeChildIs, <1>10 DEF Children, Branches, Collect
<1>5. ASSUME NEW r \in Runs, ReadDry(r) \/ ReadCompiled(r)
      PROVE  Children'
  BY <1>1, BeforeChildIs, <1>5 DEF Children, ReadDry, ReadCompiled
<1>11. ASSUME NEW r \in Runs, Replay(r) \/ ProveNoir(r) \/ Stop(r)
      PROVE  Children'
  BY <1>1, BeforeChildIs, <1>11 DEF Children, Replay, ProveNoir, Stop, Ended
<1>6. ASSUME NEW r \in Runs, Start(r)
      PROVE  Children'
  BY <1>1, BeforeChildIs, <1>6 DEF Children, Start
<1>7. ASSUME NEW r \in Runs, Child(r)
      PROVE  Children'
  BY <1>7, ChildIsLocal DEF Children, Running
<1>8. CASE EditPolicy \/ UNCHANGED vars
  BY <1>8, BeforeChildIs DEF Children, EditPolicy, vars
<1>9. QED
  BY <1>3, <1>4, <1>5, <1>6, <1>7, <1>8, <1>10, <1>11 DEF Next, Step, Fails, Killed

(* To meet somebody, or an edit, takes nothing away from what is claimed. *)
LEMMA StillUndisturbed ==
  ASSUME NEW s \in Runs, UNCHANGED <<cli, disk, proofFile, childVars, view, artifacts>>,
         pc'[s] = pc[s], enforced'[s] = enforced[s], met[s] \subseteq met'[s],
         Undisturbed(s)
  PROVE  Undisturbed(s)'
<1>1. \A c : OwnClaim(s, c) => OwnClaim(s, c)'
  BY DEF OwnClaim
<1>2. OwnFiles(s)' = OwnFiles(s) /\ Active(s)' = Active(s)
  BY DEF OwnFiles, Active
<1>3. "run" \notin met'[s] => "run" \notin met[s]
  OBVIOUS
<1>4. OwnView(s) => OwnView(s)'
  BY <1>1 DEF OwnView
<1>5. OwnProof(s) => OwnProof(s)'
  BY <1>1 DEF OwnProof
<1>6. OwnReport(s) => OwnReport(s)'
  BY <1>1 DEF OwnReport
<1>7. QED
  BY <1>2, <1>3, <1>4, <1>5, <1>6 DEF Undisturbed

(* A run that starts among others meets them, and they meet it; and it     *)
(* meets the children that outlived their runs.                            *)
LEMMA StartInv ==
  ASSUME TypeOK, Children, Exclusive, PolicyKept, \A s \in Runs : Undisturbed(s),
         NEW r \in Runs, Start(r)
  PROVE  (Exclusive /\ PolicyKept /\ \A s \in Runs : Undisturbed(s))'
<1> DEFINE here == {s \in Runs \ {r} : Dir(s) = Dir(r)}
<1> DEFINE others == {s \in here : Active(s)}
<1> DEFINE orphans == {s \in here : Orphan(s)}
<1>1. /\ UNCHANGED <<cli, policyFile, disk, proofFile, childVars, view, artifacts>>
      /\ pc[r] = "start" /\ pc' = [pc EXCEPT ![r] = "program.lua"]
      /\ enforced' = [enforced EXCEPT ![r] = LoadedBy(r)]
      /\ \A s \in Runs :
           met'[s] = met[s]
                       \cup (IF s \in others \/ (s = r /\ others # {})
                             THEN {"run"} ELSE {})
                       \cup (IF s = r /\ orphans # {} THEN {"orphan"} ELSE {})
  BY DEF Start
<1>2. /\ pc'[r] = "program.lua" /\ enforced'[r] = LoadedBy(r) /\ Active(r)'
      /\ child[r] = "none"
      /\ \A s \in Runs \ {r} : /\ pc'[s] = pc[s] /\ enforced'[s] = enforced[s]
                               /\ Active(s)' = Active(s)
                               /\ Orphan(s)' = Orphan(s)
  BY <1>1, BeforeChildIs DEF TypeOK, Active, Ended, Orphan, Children
<1>6. /\ \A s \in Runs : met[s] \subseteq met'[s]
      /\ \A s \in others : "run" \in met'[s]
      /\ others # {} => "run" \in met'[r]
      /\ orphans # {} => "orphan" \in met'[r]
  BY <1>1
<1>3. Exclusive'
  <2> SUFFICES ASSUME NEW s \in Runs, NEW t \in Runs, s # t,
                      Active(s)', Dir(t) = Dir(s)
               PROVE  /\ Active(t)' => "run" \in met'[s]
                      /\ Orphan(t)' => "run" \in met'[s] \/ "orphan" \in met'[s]
    BY <1>1 DEF Exclusive
  <2>1. CASE s = r
    <3>1. t \in here /\ Active(t)' = Active(t) /\ Orphan(t)' = Orphan(t)
      BY <1>2, <2>1
    <3>2. /\ Active(t) => others # {}
          /\ Orphan(t) => orphans # {}
      BY <3>1
    <3>3. QED
      BY <1>6, <2>1, <3>1, <3>2
  <2>2. CASE t = r
    <3>1. s \in others
      BY <1>2, <2>2
    <3>2. QED
      BY <1>6, <3>1
  <2>3. CASE s # r /\ t # r
    BY <1>2, <1>6, <2>3 DEF Exclusive
  <2>4. QED
    BY <2>1, <2>2, <2>3
<1>4. PolicyKept'
  <2>1. \A s \in Runs : LoadedBy(s)' = LoadedBy(s)
    BY <1>1 DEF LoadedBy
  <2>2. QED
    BY <1>2, <1>6, <2>1 DEF PolicyKept
<1>5. ASSUME NEW s \in Runs PROVE Undisturbed(s)'
  <2>1. CASE s = r
    BY <1>1, <1>2, <2>1, FillingIs
       DEF Undisturbed, OwnFiles, OwnView, OwnProof, OwnReport, ToWrite1, ToWrite2,
           ToWrite3, FileNames
  <2>2. CASE s # r
    BY <1>1, <1>2, <1>6, <2>2, StillUndisturbed
  <2>3. QED
    BY <2>1, <2>2
<1>7. QED
  BY <1>3, <1>4, <1>5

(* A child that outlives its run was met by the others while both were     *)
(* active.                                                                 *)
LEMMA StepKeepsExclusive ==
  ASSUME TypeOK, Children, Exclusive, NEW r \in Runs, Step(r) \/ Killed(r)
  PROVE  Exclusive'
<1>1. /\ UNCHANGED <<cli, met>> /\ Active(r)
      /\ \A s \in Runs \ {r} : pc'[s] = pc[s] /\ child'[s] = child[s]
  BY StepIsLocal
<1>2. \A s \in Runs : Active(s)' => Active(s)
  BY <1>1 DEF Active
<1>3. \A s \in Runs \ {r} : Orphan(s)' => Orphan(s)
  BY <1>1 DEF Orphan, Active
<1>4. QED
  BY <1>1, <1>2, <1>3 DEF Exclusive

LEMMA ChildKeepsExclusive ==
  ASSUME TypeOK, Exclusive, NEW r \in Runs, Child(r)
  PROVE  Exclusive'
<1>1. \A s \in Runs : Active(s)' = Active(s) /\ (Orphan(s)' => Orphan(s))
  BY ChildIsLocal DEF Orphan, Active, Running
<1>2. QED
  BY <1>1, ChildIsLocal DEF Exclusive

LEMMA InvStep == TypeOK /\ Inv /\ [Next]_vars => Inv'
<1> SUFFICES ASSUME TypeOK, Inv, [Next]_vars PROVE Inv'
  OBVIOUS
<1>1. Branches' /\ Children'
  BY BranchesStep, ChildrenStep DEF Inv
<1>2. ASSUME NEW r \in Runs, Start(r) PROVE Inv'
  BY <1>1, <1>2, StartInv DEF Inv
<1>3. ASSUME NEW r \in Runs, Step(r) \/ Killed(r)
      PROVE  Inv'
  <2>1. /\ UNCHANGED <<cli, policyFile, enforced, met>> /\ Active(r)
        /\ \A s \in Runs \ {r} : pc'[s] = pc[s]
    BY <1>3, StepIsLocal
  <2>2. PolicyKept'
    BY <2>1 DEF Inv, PolicyKept, LoadedBy, Active
  <2>3. Exclusive'
    BY <1>3, StepKeepsExclusive DEF Inv
  <2>4. ASSUME NEW s \in Runs PROVE Undisturbed(s)'
    BY <1>3, OwnStepUndisturbed, OthersStayUndisturbed DEF Inv
  <2>5. QED
    BY <1>1, <2>2, <2>3, <2>4 DEF Inv
<1>4. ASSUME NEW r \in Runs, Child(r)
      PROVE  Inv'
  <2>1. PolicyKept'
    BY <1>4, ChildIsLocal DEF Inv, PolicyKept, LoadedBy, Active
  <2>2. Exclusive'
    BY <1>4, ChildKeepsExclusive DEF Inv
  <2>3. ASSUME NEW s \in Runs PROVE Undisturbed(s)'
    BY <1>4, OwnChildUndisturbed, OtherChildDisturbsNobody DEF Inv
  <2>4. QED
    BY <1>1, <2>1, <2>2, <2>3 DEF Inv
<1>5. CASE EditPolicy
  <2>1. /\ UNCHANGED <<cli, pc, enforced, disk, proofFile, childVars, view, artifacts>>
        /\ \A r \in Runs : met'[r] = IF Active(r) THEN met[r] \cup {"edit"} ELSE met[r]
    BY <1>5 DEF EditPolicy
  <2>2. \A r \in Runs : Undisturbed(r)'
    BY <2>1, StillUndisturbed DEF Inv
  <2>3. Exclusive'
    BY <2>1 DEF Inv, Exclusive, Active, Orphan
  <2>4. PolicyKept'
    BY <2>1 DEF PolicyKept, Active
  <2>5. QED
    BY <1>1, <2>2, <2>3, <2>4 DEF Inv
<1>6. CASE UNCHANGED vars
  <2>1. \A r \in Runs : Undisturbed(r)'
    BY <1>6, StillUndisturbed DEF vars, Inv
  <2>2. QED
    BY <1>1, <1>6, <2>1 DEF vars, Inv, Exclusive, PolicyKept, Active, Orphan, LoadedBy
<1>7. QED
  BY <1>2, <1>3, <1>4, <1>5, <1>6 DEF Next

LEMMA Invariant == Spec => [](TypeOK /\ Inv)
BY TypeInit, TypeStep, InvInit, InvStep, PTL DEF Spec

(* What a run that nobody disturbed reports is its own, and under OpenVM   *)
(* commits the policy it ran under (build_proof_artifacts_with_openvm,     *)
(* build_proof_artifacts_with_noir).                                       *)
THEOREM UndisturbedReportsAreTrue == Spec => []UndisturbedReportIsTrue
<1>1. TypeOK /\ Inv => UndisturbedReportIsTrue
  BY DEF Inv, Undisturbed, OwnReport, OwnClaim, UndisturbedReportIsTrue
<1>2. QED
  BY <1>1, Invariant, PTL

(* When the artifacts are returned the files they name are this run's,     *)
(* unless another run was active in the directory, and the proof file      *)
(* holds the proof that is reported, unless a child that outlived its run  *)
(* was at work there.                                                      *)
THEOREM ReportedFilesAreOwn == Spec => ReportedFilesAreOfTheRun
<1>1. ASSUME TypeOK, Inv, [Next]_vars, NEW r \in Runs,
             pc[r] # "done", pc'[r] = "done", "run" \notin met[r]
      PROVE  /\ \A f \in FileNames : disk[Dir(r)][f] = r
             /\ ByOpenVm(r) /\ "orphan" \notin met[r] =>
                  proofFile[Dir(r)][cli[r].backend] = artifacts'[r].proof
  <2>1. Replay(r) \/ ProveNoir(r)
    <3>1. ASSUME NEW s \in Runs, Start(s)
          PROVE  FALSE
      BY <1>1, <3>1 DEF Start, TypeOK
    <3>2. ASSUME NEW s \in Runs, s # r, Step(s) \/ Killed(s)
          PROVE  FALSE
      BY <1>1, <3>2, StepIsLocal
    <3>3. ASSUME NEW s \in Runs, Child(s)
          PROVE  FALSE
      BY <1>1, <3>3, ChildIsLocal
    <3>4. ASSUME NEW f \in FileNames, Open(r, f) \/ Fill(r, f)
          PROVE  FALSE
      BY <1>1, <3>4, WritingLeads
    <3>5. CASE Spawn(r) \/ Collect(r) \/ ReadDry(r) \/ ReadCompiled(r) \/ Stop(r)
      BY <1>1, <3>5 DEF Spawn, Collect, ReadDry, ReadCompiled, Stop, TypeOK
    <3>6. CASE EditPolicy \/ UNCHANGED vars
      BY <1>1, <3>6 DEF EditPolicy, vars
    <3>7. QED
      BY <1>1, <3>1, <3>2, <3>3, <3>4, <3>5, <3>6 DEF Next, Step, Fails, Killed
  <2>2. pc[r] \in {"replay", "noir"}
    BY <2>1 DEF Replay, ProveNoir
  <2>3. OwnFiles(r) /\ OwnProof(r)
    BY <1>1, <2>2 DEF Inv, Undisturbed, Active, Ended
  <2>4. \A f \in FileNames : disk[Dir(r)][f] = r
    BY <2>2, <2>3 DEF OwnFiles, ToWrite1, ToWrite2, ToWrite3, FileNames
  <2>5. ASSUME ByOpenVm(r), "orphan" \notin met[r]
        PROVE  proofFile[Dir(r)][cli[r].backend] = artifacts'[r].proof
    <3>1. Replay(r)
      BY <1>1, <2>1, <2>5 DEF ProveNoir, Inv, Branches
    <3>2. artifacts'[r].proof = artifacts[r].proof /\ pc[r] = "replay"
      BY <3>1 DEF Replay, TypeOK
    <3>3. child[r] = "proved"
      BY <1>1, <2>5, <3>2 DEF Inv, Children
    <3>4. QED
      BY <2>3, <2>5, <3>2, <3>3 DEF OwnProof
  <2>6. QED
    BY <2>4, <2>5
<1>2. TypeOK /\ Inv /\ [Next]_vars =>
        [\A r \in Runs :
           pc[r] # "done" /\ pc'[r] = "done" /\ "run" \notin met[r] =>
             /\ \A f \in FileNames : disk[Dir(r)][f] = r
             /\ ByOpenVm(r) /\ "orphan" \notin met[r] =>
                  proofFile[Dir(r)][cli[r].backend] = artifacts'[r].proof]_vars
  BY <1>1
<1>3. QED
  BY <1>2, Invariant, PTL DEF Spec, ReportedFilesAreOfTheRun
=============================================================================
