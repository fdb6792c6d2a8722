--------------------------- MODULE AutoUpdateProofs ---------------------------
(***************************************************************************)
(* The safety of redeploys, of the record of runs and of unattended        *)
(* updates: StackRedeploy, ActivityLog and AutoUpdateScheduler, one        *)
(* section each.                                                           *)
(***************************************************************************)
EXTENDS AutoUpdateScheduler, StackRedeploy, ActivityLog, FiniteSetTheorems, SequenceTheorems,
        TLAPS

-------------------------------------------------------------------------------
(***************************************************************************)
(* Redeploying a project: any number of jobs at once, over SSH and through *)
(* Portainer, in any world.                                                *)
(***************************************************************************)

\* Past the check no job is about the project Keepup runs in: an SSH job names
\* another one, and Portainer's entry, which can only be removed by then, is not
\* Keepup's.  What Portainer goes on with alone was put by such a job.
OwnSpared ==
    world.faults \cap {"ps", "endpoint"} = {} =>
        /\ running[Own] = 0 /\ Own \notin late
        /\ \A j \in Redeploys :
             /\ job[j].backend = "ssh" /\ job[j].step \in {"find", "ask", "pull", "up"}
                  => job[j].project # Own
             /\ job[j].backend = "portainer" /\ job[j].step \in {"read", "put"}
                  => Own \notin StackOf(job[j].id)

\* What a job pulled is at least as new as what was out when it was asked for, and
\* no other job pulls anything older.
PulledFresh ==
    /\ \A p \in Projects : pulled[p] <= latest
    /\ \A j \in Redeploys :
         /\ job[j].wanted <= latest
         /\ OverSsh(j, "up") => pulled[job[j].project] >= job[j].wanted

\* Over SSH the project is named by the request.
ProjectNamed ==
    \A j \in Redeploys : job[j].backend = "ssh" /\ job[j].step # "idle" => job[j].project \in Projects

\* Only a timeout leaves Portainer at work alone.
LateAfterTimeout == late # {} => "timeout" \in world.faults

RedeployInv ==
    /\ RedeployTypeOK /\ ProjectNamed /\ OwnSpared /\ PulledFresh /\ LateAfterTimeout
    /\ LastWordTrue

\* The name of a stack Portainer has is one of its projects.
LEMMA NameKnown ==
    ASSUME NEW id, listed \subseteq StackIds \X Projects
    PROVE  /\ StackOf(id) \subseteq Projects
           /\ NameOf(id) \in StackOf(id) \/ NameOf(id) = NoProject
           /\ StackOf(id) = {} => NameOf(id) = NoProject
<1>1. StackOf(id) \subseteq Projects
  BY DEF StackOf
<1>2. StackOf(id) # {} => NameOf(id) \in StackOf(id)
  BY <1>1 DEF NameOf
<1> QED BY <1>1, <1>2 DEF NameOf

\* A fresh start: every project runs the first images, no job is under way.
LEMMA RedeployInitInv == RedeployInit => RedeployInv
<1> SUFFICES ASSUME RedeployInit PROVE RedeployInv
  OBVIOUS
<1> USE ProjectsAssumption, BoundsAssumption DEF RedeployInit
<1>1. RedeployTypeOK
  <2>1. listed \subseteq StackIds \X Projects
    OBVIOUS
  <2>2. Idle \in Job
    BY DEF Idle, Job, Versions
  <2>3. world \in World
    OBVIOUS
  <2> QED BY <2>1, <2>2, <2>3 DEF RedeployTypeOK, Versions
<1>2. ProjectNamed /\ OwnSpared
  BY DEF ProjectNamed, OwnSpared, Idle
<1>3. PulledFresh /\ LateAfterTimeout /\ LastWordTrue
  BY DEF PulledFresh, LateAfterTimeout, LastWordTrue, OverSsh, Idle
<1> QED BY <1>1, <1>2, <1>3 DEF RedeployInv

\* A job moves on to its next step, or ends with its run recorded, and is well-formed.
LEMMA StepTyped ==
    ASSUME job \in [Redeploys -> Job], last \in [Projects -> {"none", "done", "error"}], ProjectNamed,
           NEW j \in Redeploys, job[j].step # "idle",
           NEW step \in {"check", "find", "ask", "pull", "up", "read", "put"}, Step(j, step)
    PROVE  /\ job' \in [Redeploys -> Job] /\ last' \in [Projects -> {"none", "done", "error"}]
           /\ ProjectNamed'
           /\ \A k \in Redeploys : k # j => job'[k] = job[k]
           /\ job'[j].step = step /\ job'[j].backend = job[j].backend
           /\ job'[j].project = job[j].project /\ job'[j].id = job[j].id
<1>1. job' = [job EXCEPT ![j].step = step] /\ last' = last
  BY DEF Step
<1>2. [job[j] EXCEPT !.step = step] \in Job
  BY DEF Job
<1> QED BY <1>1, <1>2 DEF ProjectNamed, Job

\* A job that ends is idle again, with its result on record.
LEMMA EndTyped ==
    ASSUME job \in [Redeploys -> Job], last \in [Projects -> {"none", "done", "error"}], ProjectNamed,
           MaxReleases \in Nat,
           NEW j \in Redeploys, NEW p, NEW result \in {"done", "error"}, End(j, p, result)
    PROVE  /\ job' \in [Redeploys -> Job] /\ last' \in [Projects -> {"none", "done", "error"}]
           /\ ProjectNamed'
           /\ \A k \in Redeploys : k # j => job'[k] = job[k]
           /\ job'[j].step = "idle"
<1>1. job' = [job EXCEPT ![j] = Idle] /\ Idle \in Job
  BY DEF End, Idle, Job, Versions
<1>2. last' \in [Projects -> {"none", "done", "error"}]
  BY DEF End, Recorded
<1> QED BY <1>1, <1>2 DEF ProjectNamed, Idle

\* Every step of every job, of Portainer and of the world around keeps the invariant.
LEMMA RedeployStepInv == RedeployInv /\ [RedeployNext]_redeployVars => RedeployInv'
<1> SUFFICES ASSUME RedeployInv, [RedeployNext]_redeployVars PROVE RedeployInv'
  OBVIOUS
<1> USE ProjectsAssumption, BoundsAssumption DEF RedeployInv, docker, around
<1>1. ASSUME Release PROVE RedeployInv'
  <2>1. RedeployTypeOK' /\ ProjectNamed'
    BY <1>1 DEF Release, RedeployTypeOK, ProjectNamed, OverSsh, Job, World, Versions
  <2>2. OwnSpared'
    BY <1>1 DEF Release, RedeployTypeOK, ProjectNamed, OwnSpared, OverSsh, ByPortainer,
       StackOf, Job
  <2>3. PulledFresh'
    BY <1>1 DEF Release, RedeployTypeOK, ProjectNamed, PulledFresh, OverSsh,
       ByPortainer, Job, Versions, World
  <2>4. LateAfterTimeout' /\ LastWordTrue'
    BY <1>1 DEF Release, RedeployTypeOK, ProjectNamed, LateAfterTimeout,
       LastWordTrue, OverSsh, Versions, Down
  <2> QED BY <2>1, <2>2, <2>3, <2>4
<1>2. ASSUME Connect PROVE RedeployInv'
  <2>1. RedeployTypeOK' /\ ProjectNamed'
    BY <1>2 DEF Connect, RedeployTypeOK, ProjectNamed, OverSsh, Job, World, Versions
  <2>2. OwnSpared'
    BY <1>2 DEF Connect, RedeployTypeOK, ProjectNamed, OwnSpared, OverSsh, ByPortainer,
       StackOf, Job
  <2>3. PulledFresh'
    BY <1>2 DEF Connect, RedeployTypeOK, ProjectNamed, PulledFresh, OverSsh,
       ByPortainer, Job, Versions, World
  <2>4. LateAfterTimeout' /\ LastWordTrue'
    BY <1>2 DEF Connect, RedeployTypeOK, ProjectNamed, LateAfterTimeout,
       LastWordTrue, OverSsh, Versions, Down
  <2> QED BY <2>1, <2>2, <2>3, <2>4
<1>3. ASSUME NEW s \in listed, Unlist(s) PROVE RedeployInv'
  <2>1. RedeployTypeOK' /\ ProjectNamed'
    BY <1>3 DEF Unlist, RedeployTypeOK, ProjectNamed, OverSsh, Job, World, Versions
  <2>2. OwnSpared'
    BY <1>3 DEF Unlist, RedeployTypeOK, ProjectNamed, OwnSpared, OverSsh, ByPortainer,
       StackOf, Job
  <2>3. PulledFresh'
    BY <1>3 DEF Unlist, RedeployTypeOK, ProjectNamed, PulledFresh, OverSsh,
       ByPortainer, Job, Versions, World
  <2>4. LateAfterTimeout' /\ LastWordTrue'
    BY <1>3 DEF Unlist, RedeployTypeOK, ProjectNamed, LateAfterTimeout,
       LastWordTrue, OverSsh, Versions, Down
  <2> QED BY <2>1, <2>2, <2>3, <2>4
<1>4. ASSUME NEW p \in Projects, LateEnds(p) PROVE RedeployInv'
  <2>1. RedeployTypeOK' /\ ProjectNamed'
    BY <1>4 DEF LateEnds, Fails, RedeployTypeOK, ProjectNamed, OverSsh, Job, World, Versions
  <2>2. OwnSpared'
    BY <1>4 DEF LateEnds, Fails, RedeployTypeOK, ProjectNamed, OwnSpared, OverSsh, ByPortainer,
       StackOf, Job
  <2>3. PulledFresh'
    BY <1>4 DEF LateEnds, Fails, RedeployTypeOK, ProjectNamed, PulledFresh, OverSsh,
       ByPortainer, Job, Versions, World
  <2>4. LateAfterTimeout' /\ LastWordTrue'
    BY <1>4 DEF LateEnds, Fails, RedeployTypeOK, ProjectNamed, LateAfterTimeout,
       LastWordTrue, OverSsh, Versions, Down
  <2> QED BY <2>1, <2>2, <2>3, <2>4
<1>5. ASSUME NEW j \in Redeploys, NEW p \in Projects, Request(j, "ssh", p, 0) PROVE RedeployInv'
  <2>1. RedeployTypeOK' /\ ProjectNamed'
    BY <1>5 DEF Request, Idle, RedeployTypeOK, ProjectNamed, OverSsh, Job, World, Versions
  <2>2. OwnSpared'
    BY <1>5 DEF Request, Idle, RedeployTypeOK, ProjectNamed, OwnSpared, OverSsh, ByPortainer,
       StackOf, Job
  <2>3. PulledFresh'
    BY <1>5 DEF Request, Idle, RedeployTypeOK, ProjectNamed, PulledFresh, OverSsh,
       ByPortainer, Job, Versions, World
  <2>4. LateAfterTimeout' /\ LastWordTrue'
    BY <1>5 DEF Request, Idle, RedeployTypeOK, ProjectNamed, LateAfterTimeout,
       LastWordTrue, OverSsh, Versions, Down
  <2> QED BY <2>1, <2>2, <2>3, <2>4
<1>6. ASSUME NEW j \in Redeploys, NEW id \in StackIds, Request(j, "portainer", NameOf(id), id) PROVE RedeployInv'
  <2>1. RedeployTypeOK' /\ ProjectNamed'
    BY <1>6, NameKnown DEF Request, Idle, RedeployTypeOK, ProjectNamed, OverSsh, Job, World,
         Versions
  <2>2. OwnSpared'
    BY <1>6, NameKnown DEF Request, Idle, RedeployTypeOK, ProjectNamed, OwnSpared, OverSsh,
         ByPortainer,
       StackOf, Job
  <2>3. PulledFresh'
    BY <1>6, NameKnown DEF Request, Idle, RedeployTypeOK, ProjectNamed, PulledFresh, OverSsh,
       ByPortainer, Job, Versions, World
  <2>4. LateAfterTimeout' /\ LastWordTrue'
    BY <1>6, NameKnown DEF Request, Idle, RedeployTypeOK, ProjectNamed, LateAfterTimeout,
       LastWordTrue, OverSsh, Versions, Down
  <2> QED BY <2>1, <2>2, <2>3, <2>4
<1>7. ASSUME NEW j \in Redeploys, Begin(j) PROVE RedeployInv'
  <2>1. RedeployTypeOK' /\ ProjectNamed'
    <3>1. Step(j, "check") \/ End(j, job[j].project, "error")
      BY <1>7 DEF Begin
    <3> QED BY <1>7, <3>1, StepTyped, EndTyped DEF Begin, RedeployTypeOK
  <2>2. OwnSpared'
    BY <1>7 DEF Begin, Step, End, Recorded, Idle, RedeployTypeOK, ProjectNamed, OwnSpared,
         OverSsh, ByPortainer,
       StackOf, Job
  <2>3. PulledFresh'
    BY <1>7 DEF Begin, Step, End, Recorded, Idle, RedeployTypeOK, ProjectNamed, PulledFresh,
         OverSsh,
       ByPortainer, Job, Versions, World
  <2>4. LateAfterTimeout' /\ LastWordTrue'
    BY <1>7 DEF Begin, Step, End, Recorded, Idle, RedeployTypeOK, ProjectNamed,
         LateAfterTimeout,
       LastWordTrue, OverSsh, Versions, Down
  <2> QED BY <2>1, <2>2, <2>3, <2>4
<1>8. ASSUME NEW j \in Redeploys, SelfCheckSsh(j) PROVE RedeployInv'
  <2>0. Step(j, "find") \/ End(j, Own, "error")
    BY <1>8 DEF SelfCheckSsh
  <2>1. RedeployTypeOK' /\ ProjectNamed'
    BY <1>8, <2>0, StepTyped, EndTyped DEF SelfCheckSsh, OverSsh, RedeployTypeOK
  <2>2. OwnSpared'
    <3>1. CASE End(j, Own, "error")
      BY <1>8, <3>1, EndTyped DEF SelfCheckSsh, RedeployTypeOK, OwnSpared, StackOf
    <3>2. CASE ~End(j, Own, "error")
      <4>1. Step(j, "find") /\ (~Fails("ps") => job[j].project # Own)
        BY <1>8, <3>2 DEF SelfCheckSsh
      <4> QED BY <1>8, <4>1, StepTyped DEF SelfCheckSsh, OverSsh, Fails, RedeployTypeOK,
      OwnSpared, StackOf
    <3> QED BY <3>1, <3>2
  <2>3. PulledFresh'
    BY <1>8 DEF SelfCheckSsh, Step, End, Recorded, Idle, Fails, RedeployTypeOK, ProjectNamed,
         PulledFresh, OverSsh,
       ByPortainer, Job, Versions, World
  <2>4. LateAfterTimeout' /\ LastWordTrue'
    BY <1>8 DEF SelfCheckSsh, Step, End, Recorded, Idle, Fails, RedeployTypeOK, ProjectNamed,
         LateAfterTimeout,
       LastWordTrue, OverSsh, Versions, Down
  <2> QED BY <2>1, <2>2, <2>3, <2>4
<1>9. ASSUME NEW j \in Redeploys, FindFile(j) PROVE RedeployInv'
  <2>1. RedeployTypeOK' /\ ProjectNamed'
    <3>1. PICK step \in {"ask", "pull"}, file \in BOOLEAN :
             job' = [job EXCEPT ![j].step = step, ![j].file = file] /\ last' = last
      BY <1>9 DEF FindFile
    <3>2. [job[j] EXCEPT !.step = step, !.file = file] \in Job
      <4>1. job[j] \in Job
        BY DEF RedeployTypeOK
      <4> QED BY <4>1 DEF Job
    <3> QED BY <1>9, <3>1, <3>2 DEF FindFile, OverSsh, RedeployTypeOK, ProjectNamed, Job
  <2>2. OwnSpared'
    BY <1>9 DEF FindFile, Fails, RedeployTypeOK, ProjectNamed, OwnSpared, OverSsh, ByPortainer,
       StackOf, Job
  <2>3. PulledFresh'
    BY <1>9 DEF FindFile, Fails, RedeployTypeOK, ProjectNamed, PulledFresh, OverSsh,
       ByPortainer, Job, Versions, World
  <2>4. LateAfterTimeout' /\ LastWordTrue'
    BY <1>9 DEF FindFile, Fails, RedeployTypeOK, ProjectNamed, LateAfterTimeout,
       LastWordTrue, OverSsh, Versions, Down
  <2> QED BY <2>1, <2>2, <2>3, <2>4
<1>10. ASSUME NEW j \in Redeploys, AskPortainer(j) PROVE RedeployInv'
  <2>1. RedeployTypeOK' /\ ProjectNamed'
    BY <1>10 DEF AskPortainer, End, Recorded, Idle, RedeployTypeOK, ProjectNamed, OverSsh,
         Job, World, Versions
  <2>2. OwnSpared'
    BY <1>10 DEF AskPortainer, End, Recorded, Idle, RedeployTypeOK, ProjectNamed, OwnSpared,
         OverSsh, ByPortainer,
       StackOf, Job
  <2>3. PulledFresh'
    BY <1>10 DEF AskPortainer, End, Recorded, Idle, RedeployTypeOK, ProjectNamed,
         PulledFresh, OverSsh,
       ByPortainer, Job, Versions, World
  <2>4. LateAfterTimeout' /\ LastWordTrue'
    BY <1>10 DEF AskPortainer, End, Recorded, Idle, RedeployTypeOK, ProjectNamed,
         LateAfterTimeout,
       LastWordTrue, OverSsh, Versions, Down
  <2> QED BY <2>1, <2>2, <2>3, <2>4
<1>11. ASSUME NEW j \in Redeploys, Pull(j) PROVE RedeployInv'
  <2>1. RedeployTypeOK' /\ ProjectNamed'
    <3>1. Step(j, "up") \/ End(j, job[j].project, "error")
      BY <1>11 DEF Pull
    <3>2. pulled' \in [Projects -> Versions]
      BY <1>11 DEF Pull, RedeployTypeOK
    <3> QED BY <1>11, <3>1, <3>2, StepTyped, EndTyped DEF Pull, OverSsh, RedeployTypeOK
  <2>2. OwnSpared'
    BY <1>11 DEF Pull, Step, End, Recorded, Idle, Fails, ComposeTarget, RedeployTypeOK,
         ProjectNamed, OwnSpared, OverSsh, ByPortainer,
       StackOf, Job
  <2>3. PulledFresh'
    BY <1>11 DEF Pull, Step, End, Recorded, Idle, Fails, ComposeTarget, RedeployTypeOK,
         ProjectNamed, PulledFresh, OverSsh,
       ByPortainer, Job, Versions, World
  <2>4. LateAfterTimeout' /\ LastWordTrue'
    BY <1>11 DEF Pull, Step, End, Recorded, Idle, Fails, ComposeTarget, RedeployTypeOK,
         ProjectNamed, LateAfterTimeout,
       LastWordTrue, OverSsh, Versions, Down
  <2> QED BY <2>1, <2>2, <2>3, <2>4
<1>12. ASSUME NEW j \in Redeploys, Up(j) PROVE RedeployInv'
  <2>1. RedeployTypeOK' /\ ProjectNamed'
    <3>1. End(j, job[j].project, "done") \/ End(j, job[j].project, "error")
      BY <1>12 DEF Up
    <3>2. running' \in [Projects -> Versions \cup {Down}]
      BY <1>12 DEF Up, OverSsh, ComposeTarget, RedeployTypeOK, ProjectNamed
    <3> QED BY <1>12, <3>1, <3>2, EndTyped DEF Up, RedeployTypeOK
  <2>2. OwnSpared'
    BY <1>12 DEF Up, End, Recorded, Idle, Fails, ComposeTarget, RedeployTypeOK, ProjectNamed,
         OwnSpared, OverSsh, ByPortainer,
       StackOf, Job
  <2>3. PulledFresh'
    BY <1>12 DEF Up, End, Recorded, Idle, Fails, ComposeTarget, RedeployTypeOK, ProjectNamed,
         PulledFresh, OverSsh,
       ByPortainer, Job, Versions, World
  <2>4. LateAfterTimeout' /\ LastWordTrue'
    BY <1>12 DEF Up, End, Recorded, Idle, Fails, ComposeTarget, RedeployTypeOK, ProjectNamed,
         LateAfterTimeout,
       LastWordTrue, OverSsh, Versions, Down
  <2> QED BY <2>1, <2>2, <2>3, <2>4
<1>13. ASSUME NEW j \in Redeploys, SshFails(j) PROVE RedeployInv'
  <2>1. RedeployTypeOK' /\ ProjectNamed'
    BY <1>13 DEF SshFails, End, Recorded, Idle, Fails, RedeployTypeOK, ProjectNamed, OverSsh,
         Job, World, Versions
  <2>2. OwnSpared'
    BY <1>13 DEF SshFails, End, Recorded, Idle, Fails, RedeployTypeOK, ProjectNamed,
         OwnSpared, OverSsh, ByPortainer,
       StackOf, Job
  <2>3. PulledFresh'
    BY <1>13 DEF SshFails, End, Recorded, Idle, Fails, RedeployTypeOK, ProjectNamed,
         PulledFresh, OverSsh,
       ByPortainer, Job, Versions, World
  <2>4. LateAfterTimeout' /\ LastWordTrue'
    BY <1>13 DEF SshFails, End, Recorded, Idle, Fails, RedeployTypeOK, ProjectNamed,
         LateAfterTimeout,
       LastWordTrue, OverSsh, Versions, Down
  <2> QED BY <2>1, <2>2, <2>3, <2>4
<1>14. ASSUME NEW j \in Redeploys, SelfCheckPortainer(j) PROVE RedeployInv'
  <2>0. Step(j, "read") \/ End(j, Own, "error")
    BY <1>14 DEF SelfCheckPortainer
  <2>1. RedeployTypeOK' /\ ProjectNamed'
    BY <1>14, <2>0, StepTyped, EndTyped DEF SelfCheckPortainer, ByPortainer, RedeployTypeOK
  <2>2. OwnSpared'
    <3>1. CASE End(j, Own, "error")
      BY <1>14, <3>1, EndTyped DEF SelfCheckPortainer, RedeployTypeOK, OwnSpared, StackOf
    <3>2. CASE ~End(j, Own, "error")
      <4>1. Step(j, "read") /\ (~Fails("endpoint") => Own \notin StackOf(job[j].id))
        BY <1>14, <3>2 DEF SelfCheckPortainer
      <4> QED BY <1>14, <4>1, StepTyped DEF SelfCheckPortainer, ByPortainer, Fails,
      RedeployTypeOK, OwnSpared, StackOf
    <3> QED BY <3>1, <3>2
  <2>3. PulledFresh'
    BY <1>14 DEF SelfCheckPortainer, Step, End, Recorded, Idle, Fails, RedeployTypeOK,
         ProjectNamed, PulledFresh, OverSsh,
       ByPortainer, Job, Versions, World
  <2>4. LateAfterTimeout' /\ LastWordTrue'
    BY <1>14 DEF SelfCheckPortainer, Step, End, Recorded, Idle, Fails, RedeployTypeOK,
         ProjectNamed, LateAfterTimeout,
       LastWordTrue, OverSsh, Versions, Down
  <2> QED BY <2>1, <2>2, <2>3, <2>4
<1>15. ASSUME NEW j \in Redeploys, ReadStack(j) PROVE RedeployInv'
  <2>1. RedeployTypeOK' /\ ProjectNamed'
    <3>1. Step(j, "put") \/ End(j, NoProject, "error")
      BY <1>15 DEF ReadStack
    <3> QED BY <1>15, <3>1, StepTyped, EndTyped DEF ReadStack, ByPortainer, RedeployTypeOK
  <2>2. OwnSpared'
    BY <1>15 DEF ReadStack, Step, End, Recorded, Idle, RedeployTypeOK, ProjectNamed,
         OwnSpared, OverSsh, ByPortainer,
       StackOf, Job
  <2>3. PulledFresh'
    BY <1>15 DEF ReadStack, Step, End, Recorded, Idle, RedeployTypeOK, ProjectNamed,
         PulledFresh, OverSsh,
       ByPortainer, Job, Versions, World
  <2>4. LateAfterTimeout' /\ LastWordTrue'
    BY <1>15 DEF ReadStack, Step, End, Recorded, Idle, RedeployTypeOK, ProjectNamed,
         LateAfterTimeout,
       LastWordTrue, OverSsh, Versions, Down
  <2> QED BY <2>1, <2>2, <2>3, <2>4
<1>16. ASSUME NEW j \in Redeploys, PutStack(j) PROVE RedeployInv'
  <2>1. RedeployTypeOK' /\ ProjectNamed'
    <3>1. End(j, NameOf(job[j].id), "done") \/ End(j, NameOf(job[j].id), "error")
      BY <1>16 DEF PutStack
    <3>2. pulled' \in [Projects -> Versions] /\ running' \in [Projects -> Versions \cup {Down}]
      BY <1>16 DEF PutStack, RedeployTypeOK
    <3>3. late' \subseteq Projects
      BY <1>16, NameKnown DEF PutStack, RedeployTypeOK
    <3> QED BY <1>16, <3>1, <3>2, <3>3, EndTyped DEF PutStack, RedeployTypeOK
  <2>2. OwnSpared'
    BY <1>16, NameKnown DEF PutStack, End, Recorded, Idle, Fails, RedeployTypeOK,
         ProjectNamed, OwnSpared, OverSsh, ByPortainer,
       StackOf, Job
  <2>3. PulledFresh'
    BY <1>16, NameKnown DEF PutStack, End, Recorded, Idle, Fails, RedeployTypeOK,
         ProjectNamed, PulledFresh, OverSsh,
       ByPortainer, Job, Versions, World
  <2>4. LateAfterTimeout' /\ LastWordTrue'
    BY <1>16, NameKnown DEF PutStack, End, Recorded, Idle, Fails, RedeployTypeOK,
         ProjectNamed, LateAfterTimeout,
       LastWordTrue, OverSsh, Versions, Down
  <2> QED BY <2>1, <2>2, <2>3, <2>4
<1>17. ASSUME UNCHANGED redeployVars PROVE RedeployInv'
  BY <1>17 DEF redeployVars, RedeployTypeOK, ProjectNamed, OwnSpared, PulledFresh,
     LateAfterTimeout, LastWordTrue, StackOf, OverSsh
<1> QED
  BY <1>1, <1>2, <1>3, <1>4, <1>5, <1>6, <1>7, <1>8, <1>9, <1>10, <1>11, <1>12, <1>13, <1>14,
       <1>15, <1>16, <1>17 DEF RedeployNext

\* The inductive invariant holds in every reachable state.
THEOREM RedeployInvariance == RedeploySpec => []RedeployInv
<1> QED BY RedeployInitInv, RedeployStepInv, PTL DEF RedeploySpec

\* The type of the jobs, the images and Portainer's stacks.
THEOREM RedeployTypeCorrect == RedeploySpec => []RedeployTypeOK
<1>1. RedeployInv => RedeployTypeOK
  BY DEF RedeployInv
<1> QED BY <1>1, RedeployInvariance, PTL

\* Keepup's own project is never redeployed while `docker ps` and the endpoint answer.
THEOREM OwnUntouchedHolds == RedeploySpec => []OwnUntouched
<1>1. RedeployInv => OwnUntouched
  BY DEF RedeployInv, OwnSpared, OwnUntouched
<1> QED BY <1>1, RedeployInvariance, PTL

\* The log never says of a project that is down that it was updated.
THEOREM LastWordTrueHolds == RedeploySpec => []LastWordTrue
<1>1. RedeployInv => LastWordTrue
  BY DEF RedeployInv
<1> QED BY <1>1, RedeployInvariance, PTL

\* A run reported as done has brought its project to what was out when it was asked
\* for: only the job's own last step ends it, and by then what it starts is fresh.
THEOREM DoneIsFreshHolds == RedeploySpec => DoneIsFresh
<1> DEFINE Target(j) == IF job[j].backend = "ssh" THEN job[j].project ELSE NameOf(job[j].id)
           Fresh ==
             \A j \in Redeploys :
               job[j].step \in {"up", "put"} /\ job'[j].step = "idle" /\ Target(j) # NoProject
                 => (last'[Target(j)] = "done" => running'[Target(j)] >= job[j].wanted)
<1>1. RedeployInv /\ [RedeployNext]_redeployVars => [Fresh]_redeployVars
  <2> SUFFICES ASSUME RedeployInv, RedeployNext,
                      NEW j \in Redeploys, job[j].step \in {"up", "put"}, job'[j].step = "idle",
                      Target(j) # NoProject, last'[Target(j)] = "done"
               PROVE  running'[Target(j)] >= job[j].wanted
    OBVIOUS
  <2> USE ProjectsAssumption, BoundsAssumption DEF RedeployInv
  <2>1. CASE Up(j)
    BY <2>1 DEF Up, End, Recorded, OverSsh, ComposeTarget, RedeployTypeOK, ProjectNamed,
         PulledFresh,
       Job, Versions
  <2>2. CASE PutStack(j)
    BY <2>2, NameKnown DEF PutStack, ByPortainer, End, Recorded, RedeployTypeOK, PulledFresh,
         Job,
       Versions
  <2>3. Up(j) \/ PutStack(j)
    <3> USE DEF RedeployTypeOK
    <3>1. CASE Release \/ Connect \/ (\E s \in listed : Unlist(s)) \/ \E p \in Projects : LateEnds(p)
      BY <3>1 DEF Release, Connect, Unlist, LateEnds
    <3>2. ASSUME NEW k \in Redeploys,
                 \/ \E p \in Projects : Request(k, "ssh", p, 0)
                 \/ \E id \in StackIds : Request(k, "portainer", NameOf(id), id)
          PROVE  FALSE
      BY <3>2 DEF Request
    <3>3. ASSUME NEW k \in Redeploys,
                 \/ Begin(k) \/ SelfCheckSsh(k) \/ FindFile(k) \/ AskPortainer(k) \/ SshFails(k)
                 \/ SelfCheckPortainer(k) \/ ReadStack(k) \/ Pull(k)
          PROVE  FALSE
      <4>1. k # j => job'[j] = job[j]
        BY <3>3 DEF Begin, SelfCheckSsh, FindFile, AskPortainer, SshFails, SelfCheckPortainer,
           ReadStack, Pull, Step, End
      <4> QED BY <3>3, <4>1 DEF Begin, SelfCheckSsh, FindFile, AskPortainer, SshFails,
             SelfCheckPortainer, ReadStack, Pull, OverSsh, ByPortainer
    <3>4. ASSUME NEW k \in Redeploys, Up(k) \/ PutStack(k) PROVE Up(j) \/ PutStack(j)
      <4>1. k # j => job'[j] = job[j]
        BY <3>4 DEF Up, PutStack, End
      <4> QED BY <3>4, <4>1
    <3> QED BY <3>1, <3>2, <3>3, <3>4 DEF RedeployNext
  <2> QED BY <2>1, <2>2, <2>3
<1> QED BY <1>1, RedeployInvariance, PTL DEF RedeploySpec, DoneIsFresh

-------------------------------------------------------------------------------
(***************************************************************************)
(* The record of runs: any limits, any legacy log, any faults, a crash     *)
(* between any two disk operations.                                        *)
(***************************************************************************)

OwnIds(s) == \A i, j \in DOMAIN s : s[i].id = s[j].id => i = j

\* What the index lists was recorded, under ids that were drawn, each once.
IndexSound ==
    /\ IsFiniteSet(recorded) /\ Listed(index) \subseteq recorded
    /\ OwnIds(index) /\ \A i \in DOMAIN index : index[i].id < nextId

\* The record under way: its id is new to the index until it is saved, and what it
\* says of its output is true.
CurSound ==
    /\ pc \in {"output", "save"} => cur \in RunRecord
    /\ cur # NoRecord => cur.id < nextId
    /\ pc \in {"output", "migrate", "save_merged", "rename", "save"} => cur.id \notin IdsOf(index)
    /\ pc \in {"migrate", "save_merged", "rename", "save"} /\ cur.out => cur.id \in files

\* The import under way: one record for every entry, none of them saved yet.
BatchSound ==
    pc = "save_merged" =>
        /\ OwnIds(batch)
        /\ \A k \in DOMAIN batch : /\ batch[k].id < nextId /\ batch[k].id # cur.id
                                   /\ batch[k].id \notin IdsOf(index)
                                   /\ batch[k].out => batch[k].id \in files
        /\ \A e \in Legacy : \E k \in DOMAIN batch : batch[k].src = e

\* What is about to be deleted is no longer listed.
DroppedUnlisted == pc = "delete" => dropped \cap IdsOf(index) = {}

\* The legacy log is moved away after its entries were saved.
ImportedFirst ==
    pc = "rename" /\ legacy = "present" => \A e \in Legacy : \E r \in recorded : r.src = e

LogInv ==
    /\ LogTypeOK /\ IndexSound /\ CurSound /\ BatchSound
    /\ DroppedUnlisted /\ ImportedFirst /\ OutputKept /\ HistoryKept

-------------------------------------------------------------------------------
\* A list whose records have their own ids is no longer than a set that holds them.
LEMMA ListedCount ==
    ASSUME NEW s \in Seq(RunRecord), OwnIds(s), NEW T, IsFiniteSet(T), Listed(s) \subseteq T
    PROVE  Len(s) <= Cardinality(T)
<1>1. Len(s) \in Nat /\ DOMAIN s = 1..Len(s)
  OBVIOUS
<1>2. s \in Injection(1..Len(s), T)
  BY <1>1 DEF Injection, IsInjective, Listed, OwnIds
<1>3. Cardinality(1..Len(s)) <= Cardinality(T)
  BY <1>2, FS_Injection
<1>4. Cardinality(1..Len(s)) = Len(s)
  BY <1>1, FS_Interval
<1> QED BY <1>3, <1>4

\* An increasing map from as many positions as are kept reaches all that are kept.
LEMMA IncreasingOnto ==
    ASSUME NEW m \in Nat, NEW K \in SUBSET (1..m), NEW p \in [1..Cardinality(K) -> K], Increasing(p)
    PROVE  /\ Cardinality(K) \in Nat
           /\ \A i, j \in DOMAIN p : p[i] = p[j] => i = j
           /\ \A k \in K : \E i \in DOMAIN p : p[i] = k
<1>1. IsFiniteSet(1..m)
  BY FS_Interval
<1>2. IsFiniteSet(K)
  BY <1>1, FS_Subset
<1>3. Cardinality(K) \in Nat
  BY <1>2, FS_CardinalityType
<1>4. \A i, j \in DOMAIN p : p[i] = p[j] => i = j
  <2> SUFFICES ASSUME NEW i \in 1..Cardinality(K), NEW j \in 1..Cardinality(K), i < j
               PROVE  p[i] # p[j]
    BY <1>3
  <2>1. p[i] < p[j] /\ p[i] \in 1..m /\ p[j] \in 1..m
    BY DEF Increasing
  <2> QED BY <2>1
<1>5. p \in Injection(1..Cardinality(K), K)
  BY <1>4 DEF Injection, IsInjective
<1>6. Cardinality(1..Cardinality(K)) = Cardinality(K)
  BY <1>3, FS_Interval
<1>7. p \in Surjection(1..Cardinality(K), K)
  BY <1>2, <1>5, <1>6, FS_Injection
<1> QED BY <1>3, <1>4, <1>7 DEF Surjection

\* The records of a list at the positions p names.
Picked(s, p) == [i \in DOMAIN p |-> s[p[i]]]

\* The index that is saved: what is kept of the records, each once.
LEMMA PrunedIndex ==
    ASSUME NEW s \in Seq(RunRecord), OwnIds(s), NEW K \in SUBSET DOMAIN s,
           NEW p \in [1..Cardinality(K) -> K], Increasing(p)
    PROVE  /\ Picked(s, p) \in Seq(RunRecord) /\ OwnIds(Picked(s, p))
           /\ Listed(Picked(s, p)) = {s[k] : k \in K}
<1> USE DEF Picked
<1> DEFINE new == Picked(s, p)
<1>1. Len(s) \in Nat /\ DOMAIN s = 1..Len(s)
  OBVIOUS
<1>2. /\ Cardinality(K) \in Nat
      /\ \A i, j \in DOMAIN p : p[i] = p[j] => i = j
      /\ \A k \in K : \E i \in DOMAIN p : p[i] = k
  BY <1>1, IncreasingOnto
<1>3. new \in [1..Cardinality(K) -> RunRecord]
  BY <1>1
<1>4. new \in Seq(RunRecord)
  BY <1>2, <1>3
<1>5. OwnIds(new)
  BY <1>2 DEF OwnIds
<1>6. Listed(new) = {s[k] : k \in K}
  BY <1>2 DEF Listed
<1> QED BY <1>4, <1>5, <1>6

\* Two lists of records whose ids differ, one after the other.
LEMMA JoinedList ==
    ASSUME NEW s \in Seq(RunRecord), NEW t \in Seq(RunRecord), OwnIds(s), OwnIds(t),
           \A k \in DOMAIN s : s[k].id \notin IdsOf(t)
    PROVE  /\ s \o t \in Seq(RunRecord) /\ OwnIds(s \o t)
           /\ Listed(s \o t) = Listed(s) \cup Listed(t)
<1>1. /\ s \o t \in Seq(RunRecord) /\ Len(s \o t) = Len(s) + Len(t)
      /\ \A i \in 1 .. Len(s) + Len(t) : (s \o t)[i] = IF i <= Len(s) THEN s[i] ELSE t[i - Len(s)]
  BY ConcatProperties
<1>2. /\ Len(s) \in Nat /\ Len(t) \in Nat /\ DOMAIN s = 1..Len(s) /\ DOMAIN t = 1..Len(t)
      /\ DOMAIN (s \o t) = 1 .. Len(s) + Len(t)
  BY <1>1
<1>3. OwnIds(s \o t)
  <2> SUFFICES ASSUME NEW i \in DOMAIN (s \o t), NEW j \in DOMAIN (s \o t), i < j
               PROVE  (s \o t)[i].id # (s \o t)[j].id
    BY <1>2 DEF OwnIds
  <2>1. CASE j <= Len(s)
    BY <1>1, <1>2, <2>1 DEF OwnIds
  <2>2. CASE i > Len(s)
    <3>1. (s \o t)[i] = t[i - Len(s)] /\ (s \o t)[j] = t[j - Len(s)]
      BY <1>1, <1>2, <2>2
    <3>2. i - Len(s) \in DOMAIN t /\ j - Len(s) \in DOMAIN t /\ i - Len(s) # j - Len(s)
      BY <1>2, <2>2
    <3> QED BY <3>1, <3>2 DEF OwnIds
  <2>3. CASE i <= Len(s) /\ j > Len(s)
    <3>1. (s \o t)[i] = s[i] /\ (s \o t)[j] = t[j - Len(s)]
      BY <1>1, <1>2, <2>3
    <3>2. i \in DOMAIN s /\ j - Len(s) \in DOMAIN t
      BY <1>2, <2>3
    <3> QED BY <3>1, <3>2 DEF IdsOf
  <2> QED BY <1>2, <2>1, <2>2, <2>3
<1>4. Listed(s \o t) \subseteq Listed(s) \cup Listed(t)
  <2> SUFFICES ASSUME NEW i \in DOMAIN (s \o t) PROVE (s \o t)[i] \in Listed(s) \cup Listed(t)
    BY DEF Listed
  <2>1. CASE i <= Len(s)
    BY <1>1, <1>2, <2>1 DEF Listed
  <2>2. CASE i > Len(s)
    <3>1. (s \o t)[i] = t[i - Len(s)] /\ i - Len(s) \in DOMAIN t
      BY <1>1, <1>2, <2>2
    <3> QED BY <3>1 DEF Listed
  <2> QED BY <1>2, <2>1, <2>2
<1>5. Listed(s) \subseteq Listed(s \o t)
  <2> SUFFICES ASSUME NEW i \in DOMAIN s PROVE s[i] \in Listed(s \o t)
    BY DEF Listed
  <2>1. (s \o t)[i] = s[i] /\ i \in DOMAIN (s \o t)
    BY <1>1, <1>2
  <2> QED BY <2>1 DEF Listed
<1>6. Listed(t) \subseteq Listed(s \o t)
  <2> SUFFICES ASSUME NEW i \in DOMAIN t PROVE t[i] \in Listed(s \o t)
    BY DEF Listed
  <2>1. (s \o t)[i + Len(s)] = t[i] /\ i + Len(s) \in DOMAIN (s \o t)
    BY <1>1, <1>2
  <2> QED BY <2>1 DEF Listed
<1> QED BY <1>1, <1>3, <1>4, <1>5, <1>6

\* The merged index: sorting loses no record and lists none twice.
LEMMA SortedList ==
    ASSUME NEW s \in Seq(RunRecord), OwnIds(s), now \in Int, \A e \in RunRecord : Stamp(e) \in Int,
           NEW p \in Surjection(DOMAIN s, DOMAIN s), NewestFirst(p, s)
    PROVE  /\ Picked(s, p) \in Seq(RunRecord) /\ OwnIds(Picked(s, p))
           /\ Listed(Picked(s, p)) = Listed(s)
<1> USE DEF Picked
<1> DEFINE new == Picked(s, p)
<1>1. Len(s) \in Nat /\ DOMAIN s = 1..Len(s)
  OBVIOUS
<1>2. p \in [DOMAIN s -> DOMAIN s] /\ \A k \in DOMAIN s : \E i \in DOMAIN s : p[i] = k
  BY DEF Surjection
<1>3. new \in [1..Len(s) -> RunRecord]
  BY <1>1, <1>2
<1>4. new \in Seq(RunRecord)
  BY <1>1, <1>3
<1>5. \A i, j \in DOMAIN s : i < j => p[i] # p[j]
  <2> SUFFICES ASSUME NEW i \in DOMAIN s, NEW j \in DOMAIN s, i < j, p[i] = p[j] PROVE FALSE
    OBVIOUS
  <2>1. p[i] \in 1..Len(s) /\ s[p[i]] \in RunRecord
    BY <1>1, <1>2
  <2>2. Stamp(s[p[i]]) \in Int
    BY <2>1
  <2>3. Stamp(s[p[i]]) > Stamp(s[p[i]]) \/ p[i] < p[i]
    BY DEF NewestFirst
  <2> HIDE DEF new
  <2> QED BY <2>1, <2>2, <2>3
<1>6. OwnIds(new)
  <2>0. DOMAIN new = DOMAIN s /\ \A i \in DOMAIN s : new[i] = s[p[i]]
    BY <1>2
  <2> HIDE DEF new
  <2> SUFFICES ASSUME NEW i \in DOMAIN s, NEW j \in DOMAIN s, i < j PROVE s[p[i]].id # s[p[j]].id
    BY <1>1, <2>0 DEF OwnIds
  <2>1. p[i] # p[j] /\ p[i] \in DOMAIN s /\ p[j] \in DOMAIN s
    BY <1>2, <1>5
  <2> QED BY <2>1 DEF OwnIds
<1>7. Listed(new) = Listed(s)
  BY <1>2 DEF Listed
<1> QED BY <1>4, <1>6, <1>7

\* Time stamps are days, also those that could not be read.
LEMMA StampTyped == ASSUME now \in 0..MaxDay, NEW e \in RunRecord PROVE Stamp(e) \in 0..MaxDay
BY DEF Stamp, RunRecord

\* An imported record says that it has output only if its output was written.
LEMMA OutField ==
    ASSUME NEW a, NEW b, NEW c, NEW x, NEW W
    PROVE  [id |-> a, src |-> b, at |-> c, out |-> x \in W].out => x \in W
OBVIOUS

\* The records of a list have ids.
LEMMA RecordIds ==
    ASSUME NEW s \in Seq(RunRecord)
    PROVE  \A i \in DOMAIN s : s[i] \in RunRecord /\ s[i].id \in Ids /\ s[i].id \in Nat \ {0}
<1>1. \A i \in DOMAIN s : s[i] \in RunRecord
  OBVIOUS
<1> QED BY <1>1 DEF RunRecord, Ids

\* Writing output files and deleting them.
LEMMA WriteFiles ==
    ASSUME LogTypeOK, NEW ids \in SUBSET Ids, Write(ids)
    PROVE  /\ files' = files \cup ids /\ files' \subseteq Ids
           /\ \A f \in files' : output'[f] \in 0..MaxDay
BY DEF LogTypeOK, Write, files

\* Deleting outputs takes exactly those away.
LEMMA UnlinkFiles ==
    ASSUME LogTypeOK, NEW ids, Unlink(ids)
    PROVE  /\ files' = files \ ids /\ files' \subseteq Ids
           /\ \A f \in files' : output'[f] \in 0..MaxDay
BY DEF LogTypeOK, Unlink, files

\* A fresh log: nothing recorded, nothing under way.
LEMMA LogInitInv == LogInit => LogInv
<1> SUFFICES ASSUME LogInit PROVE LogInv
  OBVIOUS
<1> USE LimitsAssumption, ClockAssumption DEF LogInit
<1>1. LogTypeOK
  BY DEF LogTypeOK, files, Ids
<1>2. IndexSound
  BY FS_EmptySet DEF IndexSound, Listed, OwnIds
<1>3. CurSound /\ BatchSound /\ DroppedUnlisted /\ ImportedFirst
  BY DEF CurSound, BatchSound, DroppedUnlisted, ImportedFirst
<1>4. OutputKept /\ HistoryKept
  BY DEF OutputKept, HistoryKept, Listed
<1> QED BY <1>1, <1>2, <1>3, <1>4 DEF LogInv

\* Every disk operation, crash and passing day keeps the invariant.
LEMMA LogStepInv == LogInv /\ [LogNext]_logVars => LogInv'
<1> SUFFICES ASSUME LogInv, [LogNext]_logVars PROVE LogInv'
  OBVIOUS
<1> USE LimitsAssumption, ClockAssumption, LegacyAssumption DEF LogInv, disk
<1>1. ASSUME NEW at \in 0..now, RecordRun(at) PROVE LogInv'
  <2>1. LogTypeOK'
    BY <1>1 DEF RecordRun, LogTypeOK, files, RunRecord, NoRecord, Ids, AfterLoad
  <2>2. IndexSound'
    BY <1>1, RecordIds DEF RecordRun, LogTypeOK, IndexSound, OwnIds, Listed
  <2>3. CurSound'
    BY <1>1, RecordIds DEF RecordRun, LogTypeOK, IndexSound, CurSound, RunRecord, NoRecord,
         NoId, Ids, IdsOf,
       AfterLoad, files
  <2>4. BatchSound' /\ DroppedUnlisted' /\ ImportedFirst'
    BY <1>1 DEF RecordRun, BatchSound, DroppedUnlisted, ImportedFirst, IdsOf, OwnIds,
       AfterLoad, files
  <2>5. OutputKept'
    BY <1>1 DEF RecordRun, OutputKept, DroppedUnlisted, Listed, IdsOf, files
  <2>6. HistoryKept'
    BY <1>1 DEF RecordRun, HistoryKept, Listed, Stamp, LogTypeOK, RunRecord
  <2> QED BY <2>1, <2>2, <2>3, <2>4, <2>5, <2>6
<1>2. ASSUME WriteOutput PROVE LogInv'
  <2>0. PICK ok \in BOOLEAN :
          Write(IF ok THEN {cur.id} ELSE {}) /\ cur' = [cur EXCEPT !.out = ok]
    BY <1>2 DEF WriteOutput, Succeeds
  <2>00. cur \in RunRecord
    BY <1>2 DEF WriteOutput, CurSound
  <2>a. /\ files' = files \cup (IF ok THEN {cur.id} ELSE {}) /\ files' \subseteq Ids
        /\ \A f \in files' : output'[f] \in 0..MaxDay
    BY <2>0, <2>00, WriteFiles DEF RunRecord
  <2>b. cur' \in RunRecord /\ cur'.id = cur.id /\ cur'.out = ok
    BY <2>0, <2>00 DEF RunRecord
  <2>1. LogTypeOK'
    BY <1>2, <2>a, <2>b DEF WriteOutput, LogTypeOK, RunRecord, NoRecord, Ids, AfterLoad
  <2>2. IndexSound'
    BY <1>2, <2>a, <2>b, RecordIds DEF WriteOutput, LogTypeOK, IndexSound, OwnIds, Listed
  <2>3. CurSound'
    BY <1>2, <2>a, <2>b, RecordIds DEF WriteOutput, LogTypeOK, IndexSound, CurSound,
         RunRecord, NoRecord, NoId, Ids, IdsOf,
       AfterLoad
  <2>4. BatchSound' /\ DroppedUnlisted' /\ ImportedFirst'
    BY <1>2, <2>a, <2>b DEF WriteOutput, BatchSound, DroppedUnlisted, ImportedFirst, IdsOf,
         OwnIds,
       AfterLoad
  <2>5. OutputKept'
    BY <1>2, <2>a, <2>b DEF WriteOutput, OutputKept, DroppedUnlisted, Listed, IdsOf
  <2>6. HistoryKept'
    BY <1>2, <2>a, <2>b DEF WriteOutput, HistoryKept, Listed, Stamp, LogTypeOK, RunRecord
  <2> QED BY <2>1, <2>2, <2>3, <2>4, <2>5, <2>6
<1>3. ASSUME ReadIndex PROVE LogInv'
  <2>1. LogTypeOK'
    BY <1>3 DEF ReadIndex, LogTypeOK, files, RunRecord, NoRecord, Ids, AfterLoad
  <2>2. IndexSound'
    BY <1>3, RecordIds DEF ReadIndex, LogTypeOK, IndexSound, OwnIds, Listed
  <2>3. CurSound'
    BY <1>3, RecordIds DEF ReadIndex, LogTypeOK, IndexSound, CurSound, RunRecord, NoRecord,
         NoId, Ids, IdsOf,
       AfterLoad, files
  <2>4. BatchSound' /\ DroppedUnlisted' /\ ImportedFirst'
    BY <1>3 DEF ReadIndex, BatchSound, DroppedUnlisted, ImportedFirst, IdsOf, OwnIds,
       AfterLoad, files
  <2>5. OutputKept'
    BY <1>3 DEF ReadIndex, OutputKept, DroppedUnlisted, Listed, IdsOf, files
  <2>6. HistoryKept'
    BY <1>3 DEF ReadIndex, HistoryKept, Listed, Stamp, LogTypeOK, RunRecord
  <2> QED BY <2>1, <2>2, <2>3, <2>4, <2>5, <2>6
<1>4. ASSUME Migrate PROVE LogInv'
  <2> DEFINE n == Cardinality(Legacy)
             ids == nextId..(nextId + n - 1)
  <2>1. CASE /\ legacy = "garbled" \/ Legacy = {}
             /\ batch' = <<>> /\ pc' = "rename" /\ UNCHANGED <<output, nextId>>
    <3>1. LogTypeOK'
      BY <1>4, <2>1 DEF Migrate, LogTypeOK, files
    <3>2. IndexSound'
      BY <1>4, <2>1 DEF Migrate, IndexSound, OwnIds, Listed
    <3>3. CurSound'
      BY <1>4, <2>1 DEF Migrate, CurSound, IdsOf, files
    <3>4. BatchSound' /\ DroppedUnlisted' /\ ImportedFirst'
      BY <1>4, <2>1 DEF Migrate, BatchSound, DroppedUnlisted, ImportedFirst
    <3>5. OutputKept'
      BY <1>4, <2>1 DEF Migrate, OutputKept, Listed, files
    <3>6. HistoryKept'
      BY <1>4, <2>1 DEF Migrate, HistoryKept, Listed, Stamp
    <3> QED BY <3>1, <3>2, <3>3, <3>4, <3>5, <3>6
  <2>2. CASE ~(/\ legacy = "garbled" \/ Legacy = {}
               /\ batch' = <<>> /\ pc' = "rename" /\ UNCHANGED <<output, nextId>>)
    <3>1. n \in Nat
      BY FS_CardinalityType
    <3>2. /\ nextId + n \in 1..(MaxIds + 1) /\ nextId' = nextId + n /\ pc' = "save_merged"
          /\ UNCHANGED <<faults, now, index, legacy, cur, dropped, returned, recorded>>
      BY <1>4, <2>2 DEF Migrate
    <3>3. PICK written \in SUBSET ids, order \in [ids -> Legacy] :
            /\ \A e \in Legacy : \E i \in ids : order[i] = e
            /\ Write(written)
            /\ batch' = [k \in 1..n |->
                           [id |-> nextId + k - 1, src |-> order[nextId + k - 1],
                            at |-> LegacyAt[order[nextId + k - 1]], out |-> nextId + k - 1 \in written]]
      BY <1>4, <2>2 DEF Migrate, Effective
    <3>4. ids \subseteq Ids /\ nextId \in Nat \ {0}
      BY <3>1, <3>2 DEF LogTypeOK, Ids
    <3>5. /\ files' = files \cup written /\ files' \subseteq Ids
          /\ \A f \in files' : output'[f] \in 0..MaxDay
      BY <3>3, <3>4, WriteFiles
    <3>6. ASSUME NEW k \in 1..n
          PROVE  /\ nextId + k - 1 \in ids
                 /\ batch'[k].id = nextId + k - 1 /\ batch'[k].src = order[nextId + k - 1]
                 /\ batch'[k].out => batch'[k].id \in written
                 /\ batch'[k] \in RunRecord
      <4>1. nextId + k - 1 \in ids
        BY <3>1, <3>4
      <4>2. order[nextId + k - 1] \in Legacy /\ LegacyAt[order[nextId + k - 1]] \in 0..MaxDay \cup {Garbled}
        BY <4>1
      <4>3. batch'[k] = [id |-> nextId + k - 1, src |-> order[nextId + k - 1],
                         at |-> LegacyAt[order[nextId + k - 1]], out |-> nextId + k - 1 \in written]
        BY <3>3
      <4>4. nextId + k - 1 \in Ids /\ (nextId + k - 1 \in written) \in BOOLEAN
        BY <3>4, <4>1
      <4>5. batch'[k] \in RunRecord
        BY <4>2, <4>3, <4>4 DEF RunRecord
      <4>6. batch'[k].id = nextId + k - 1 /\ batch'[k].src = order[nextId + k - 1]
        BY <4>3
      <4>7. batch'[k].out => nextId + k - 1 \in written
        <5> DEFINE rec == [id |-> nextId + k - 1, src |-> order[nextId + k - 1],
                           at |-> LegacyAt[order[nextId + k - 1]], out |-> nextId + k - 1 \in written]
        <5>1. rec.out => nextId + k - 1 \in written
          BY OutField
        <5> HIDE DEF rec
        <5>2. batch'[k] = rec
          BY <4>3 DEF rec
        <5> QED BY <5>1, <5>2
      <4>8. batch'[k].out => batch'[k].id \in written
        BY <4>6, <4>7
      <4> QED BY <4>1, <4>5, <4>6, <4>8
    <3>7. batch' \in Seq(RunRecord) /\ DOMAIN batch' = 1..n
      <4>1. batch' \in [1..n -> RunRecord]
        BY <3>3, <3>6
      <4> QED BY <3>1, <4>1
    <3>8. LogTypeOK'
      BY <3>2, <3>5, <3>7 DEF LogTypeOK
    <3>9. IndexSound'
      <4>1. \A i \in DOMAIN index : index[i].id < nextId + n
        BY <3>1, <3>4, RecordIds DEF LogTypeOK, IndexSound
      <4> QED BY <3>2, <4>1 DEF IndexSound, OwnIds, Listed
    <3>10. CurSound'
      BY <1>4, <3>1, <3>2, <3>5 DEF Migrate, LogTypeOK, CurSound, IdsOf, RunRecord, Ids
    <3>11. BatchSound'
      <4>1. OwnIds(batch)'
        BY <3>1, <3>4, <3>6, <3>7 DEF OwnIds
      <4>2. ASSUME NEW k \in 1..n
            PROVE  /\ batch'[k].id < nextId' /\ batch'[k].id # cur'.id
                   /\ batch'[k].id \notin IdsOf(index)'
                   /\ batch'[k].out => batch'[k].id \in files'
        <5>1. batch'[k].id >= nextId /\ batch'[k].id < nextId + n
          BY <3>1, <3>4, <3>6
        <5>2. cur.id < nextId /\ cur.id \in Int
          BY <3>4 DEF CurSound, LogTypeOK, NoRecord, NoId, RunRecord, Ids
        <5>3. \A i \in DOMAIN index : index[i].id < nextId /\ index[i].id \in Int
          BY RecordIds DEF IndexSound, LogTypeOK
        <5>4. batch'[k].id \in Int
          BY <3>4, <3>6
        <5>5. batch'[k].id \notin IdsOf(index)'
          BY <3>2, <3>4, <5>1, <5>3, <5>4 DEF IdsOf
        <5> QED BY <3>2, <3>4, <3>5, <3>6, <5>1, <5>2, <5>4, <5>5
      <4>3. ASSUME NEW e \in Legacy PROVE \E k \in 1..n : batch'[k].src = e
        <5>1. PICK i \in ids : order[i] = e
          BY <3>3
        <5>2. i - nextId + 1 \in 1..n /\ nextId + (i - nextId + 1) - 1 = i
          BY <3>1, <3>4
        <5> QED BY <3>6, <5>1, <5>2
      <4> QED BY <3>7, <4>1, <4>2, <4>3 DEF BatchSound
    <3>12. DroppedUnlisted' /\ ImportedFirst'
      BY <3>2 DEF DroppedUnlisted, ImportedFirst
    <3>13. OutputKept'
      BY <3>2, <3>5 DEF OutputKept, Listed
    <3>14. HistoryKept'
      BY <3>2 DEF HistoryKept, Listed, Stamp
    <3> QED BY <3>8, <3>9, <3>10, <3>11, <3>12, <3>13, <3>14
  <2> QED BY <2>1, <2>2
<1>5. ASSUME SaveMerged PROVE LogInv'
  <2>1. CASE index' = index /\ recorded' = recorded /\ pc' = AfterLoad
    <3>1. LogTypeOK'
      BY <1>5, <2>1 DEF SaveMerged, LogTypeOK, files, AfterLoad
    <3>2. IndexSound'
      BY <1>5, <2>1 DEF SaveMerged, IndexSound, OwnIds, Listed
    <3>3. CurSound'
      BY <1>5, <2>1 DEF SaveMerged, CurSound, LogTypeOK, IdsOf, files, AfterLoad
    <3>4. BatchSound' /\ DroppedUnlisted' /\ ImportedFirst'
      BY <1>5, <2>1 DEF SaveMerged, BatchSound, DroppedUnlisted, ImportedFirst, AfterLoad
    <3>5. OutputKept'
      BY <1>5, <2>1 DEF SaveMerged, OutputKept, Listed, files
    <3>6. HistoryKept'
      BY <1>5, <2>1 DEF SaveMerged, HistoryKept, Listed, Stamp
    <3> QED BY <3>1, <3>2, <3>3, <3>4, <3>5, <3>6
  <2>2. CASE ~(index' = index /\ recorded' = recorded /\ pc' = AfterLoad)
    <3> DEFINE m == batch \o index
    <3>1. /\ pc = "save_merged" /\ pc' = "rename" /\ recorded' = recorded \cup Listed(batch)
          /\ batch' = <<>>
          /\ UNCHANGED <<faults, now, output, legacy, nextId, cur, dropped, returned>>
      BY <1>5, <2>2 DEF SaveMerged
    <3>2. PICK p \in Surjection(DOMAIN m, DOMAIN m) :
            NewestFirst(p, m) /\ index' = [i \in DOMAIN m |-> m[p[i]]]
      BY <1>5, <2>2 DEF SaveMerged
    <3>3. m \in Seq(RunRecord) /\ OwnIds(m) /\ Listed(m) = Listed(batch) \cup Listed(index)
      BY <3>1, JoinedList DEF LogTypeOK, IndexSound, BatchSound
    <3> HIDE DEF m
    <3>4. \A e \in RunRecord : Stamp(e) \in Int
      BY StampTyped DEF LogTypeOK
    <3>5. index' \in Seq(RunRecord) /\ OwnIds(index)' /\ Listed(index)' = Listed(m)
      <4>1. index' = Picked(m, p)
        BY <3>2 DEF Picked, Surjection
      <4>2. Picked(m, p) \in Seq(RunRecord) /\ OwnIds(Picked(m, p)) /\ Listed(Picked(m, p)) = Listed(m)
        BY <3>2, <3>3, <3>4, SortedList DEF LogTypeOK
      <4> QED BY <4>1, <4>2 DEF OwnIds, Listed
    <3>6. Listed(index)' = Listed(batch) \cup Listed(index)
      BY <3>3, <3>5
    <3>7. IdsOf(index)' = IdsOf(batch) \cup IdsOf(index)
      <4>1. /\ IdsOf(index)' = {e.id : e \in Listed(index)'} /\ IdsOf(index) = {e.id : e \in Listed(index)}
            /\ IdsOf(batch) = {e.id : e \in Listed(batch)}
        BY DEF IdsOf, Listed
      <4> QED BY <3>6, <4>1
    <3>8. batch \in Seq(RunRecord) /\ Listed(batch) \subseteq RunRecord /\ IsFiniteSet(Listed(batch))
      <4>1. batch \in Seq(RunRecord) /\ DOMAIN batch = 1..Len(batch) /\ Len(batch) \in Nat
        BY DEF LogTypeOK
      <4>2. batch \in Surjection(1..Len(batch), Listed(batch))
        BY <4>1 DEF Surjection, Listed
      <4>3. IsFiniteSet(1..Len(batch))
        BY <4>1, FS_Interval
      <4> QED BY <4>1, <4>2, <4>3, FS_Surjection DEF Listed
    <3>9. LogTypeOK'
      BY <3>1, <3>5, <3>8 DEF LogTypeOK, files
    <3>10. IndexSound'
      <4>1. IsFiniteSet(recorded')
        BY <3>1, <3>8, FS_Union DEF IndexSound
      <4>2. Listed(index)' \subseteq recorded'
        BY <3>1, <3>6 DEF IndexSound
      <4>3. \A e \in Listed(index)' : e.id < nextId'
        BY <3>1, <3>6 DEF IndexSound, BatchSound, Listed
      <4> QED BY <3>5, <4>1, <4>2, <4>3 DEF IndexSound, Listed
    <3>11. CurSound'
      <4>1. cur.id \notin IdsOf(batch) /\ cur.id \notin IdsOf(index)
        BY <3>1 DEF BatchSound, CurSound, IdsOf
      <4>2. cur'.id \notin IdsOf(index)'
        BY <3>1, <3>7, <4>1
      <4> QED BY <3>1, <4>2 DEF CurSound, files
    <3>12. BatchSound' /\ DroppedUnlisted'
      BY <3>1 DEF BatchSound, DroppedUnlisted
    <3>13. ImportedFirst'
      BY <3>1 DEF BatchSound, ImportedFirst, Listed
    <3>14. OutputKept'
      <4>1. \A e \in Listed(batch) : e.out => e.id \in files
        BY <3>1 DEF BatchSound, Listed
      <4> QED BY <3>1, <3>6, <4>1 DEF OutputKept, files
    <3>15. HistoryKept'
      <4> SUFFICES ASSUME "corruption" \notin faults, Cardinality(recorded') <= MaxEntries
                   PROVE  \A e \in recorded' : Stamp(e) >= now - MaxAge => e \in Listed(index)'
        BY <3>1 DEF HistoryKept, Stamp
      <4>1. Cardinality(recorded) <= MaxEntries
        <5>1. IsFiniteSet(recorded') /\ recorded \subseteq recorded'
          BY <3>1, <3>10 DEF IndexSound
        <5>2. Cardinality(recorded) <= Cardinality(recorded') /\ IsFiniteSet(recorded)
          BY <5>1, FS_Subset
        <5> QED BY <5>1, <5>2, FS_CardinalityType
      <4> QED BY <3>1, <3>6, <4>1 DEF HistoryKept
    <3> QED BY <3>9, <3>10, <3>11, <3>12, <3>13, <3>14, <3>15
  <2> QED BY <2>1, <2>2
<1>6. ASSUME RenameLegacy PROVE LogInv'
  <2>1. LogTypeOK'
    BY <1>6 DEF RenameLegacy, LogTypeOK, files, RunRecord, NoRecord, Ids, AfterLoad
  <2>2. IndexSound'
    BY <1>6, RecordIds DEF RenameLegacy, LogTypeOK, IndexSound, OwnIds, Listed
  <2>3. CurSound'
    BY <1>6, RecordIds DEF RenameLegacy, LogTypeOK, IndexSound, CurSound, RunRecord,
         NoRecord, NoId, Ids, IdsOf,
       AfterLoad, files
  <2>4. BatchSound' /\ DroppedUnlisted' /\ ImportedFirst'
    BY <1>6 DEF RenameLegacy, BatchSound, DroppedUnlisted, ImportedFirst, IdsOf, OwnIds,
       AfterLoad, files
  <2>5. OutputKept'
    BY <1>6 DEF RenameLegacy, OutputKept, DroppedUnlisted, Listed, IdsOf, files
  <2>6. HistoryKept'
    BY <1>6 DEF RenameLegacy, HistoryKept, Listed, Stamp, LogTypeOK, RunRecord
  <2> QED BY <2>1, <2>2, <2>3, <2>4, <2>5, <2>6
<1>7. ASSUME SaveIndex PROVE LogInv'
  <2>1. CASE cur' = NoRecord /\ pc' = "idle" /\ UNCHANGED <<index, dropped, recorded>>
    <3>1. LogTypeOK'
      BY <1>7, <2>1 DEF SaveIndex, LogTypeOK, files
    <3>2. IndexSound'
      BY <1>7, <2>1 DEF SaveIndex, IndexSound, OwnIds, Listed
    <3>3. CurSound'
      BY <1>7, <2>1 DEF SaveIndex, CurSound
    <3>4. BatchSound' /\ DroppedUnlisted' /\ ImportedFirst'
      BY <2>1 DEF BatchSound, DroppedUnlisted, ImportedFirst
    <3>5. OutputKept'
      BY <1>7, <2>1 DEF SaveIndex, OutputKept, Listed, files
    <3>6. HistoryKept'
      BY <1>7, <2>1 DEF SaveIndex, HistoryKept, Listed, Stamp
    <3> QED BY <3>1, <3>2, <3>3, <3>4, <3>5, <3>6
  <2>2. CASE ~(cur' = NoRecord /\ pc' = "idle" /\ UNCHANGED <<index, dropped, recorded>>)
    <3> DEFINE entries == <<cur>> \o index
               K == Kept(entries, cur.id)
    <3>1. /\ pc = "save" /\ pc' = "delete" /\ recorded' = recorded \cup {cur} /\ batch' = <<>>
          /\ dropped' = {entries[i].id : i \in DOMAIN entries \ K}
          /\ UNCHANGED <<faults, now, output, legacy, nextId, cur, returned>>
      BY <1>7, <2>2 DEF SaveIndex
    <3>2. PICK p \in [1..Cardinality(K) -> K] :
            Increasing(p) /\ index' = [i \in DOMAIN p |-> entries[p[i]]]
      BY <1>7, <2>2 DEF SaveIndex
    <3>3. cur \in RunRecord /\ <<cur>> \in Seq(RunRecord) /\ cur.id \notin IdsOf(index)
      BY <3>1 DEF CurSound
    <3>4. entries \in Seq(RunRecord) /\ OwnIds(entries) /\ Listed(entries) = {cur} \cup Listed(index)
      <4>1. OwnIds(<<cur>>) /\ Listed(<<cur>>) = {cur}
        BY DEF OwnIds, Listed
      <4>2. \A k \in DOMAIN <<cur>> : <<cur>>[k].id \notin IdsOf(index)
        BY <3>3
      <4> QED BY <3>3, <4>1, <4>2, JoinedList DEF LogTypeOK, IndexSound
    <3>5. K \subseteq DOMAIN entries
      BY DEF Kept
    <3> HIDE DEF entries
    <3> HIDE DEF K
    <3>6. index' \in Seq(RunRecord) /\ OwnIds(index)' /\ Listed(index)' = {entries[k] : k \in K}
      <4>1. index' = Picked(entries, p)
        BY <3>2 DEF Picked
      <4>2. /\ Picked(entries, p) \in Seq(RunRecord) /\ OwnIds(Picked(entries, p))
            /\ Listed(Picked(entries, p)) = {entries[k] : k \in K}
        BY <3>2, <3>4, <3>5, PrunedIndex
      <4> QED BY <4>1, <4>2 DEF OwnIds, Listed
    <3>8. Listed(index)' \subseteq {cur} \cup Listed(index)
      BY <3>4, <3>5, <3>6 DEF Listed
    <3>9. LogTypeOK'
      <4>1. \A i \in DOMAIN entries : entries[i].id \in Ids
        BY <3>4, RecordIds
      <4>2. dropped' \subseteq Ids
        BY <3>1, <4>1
      <4> QED BY <3>1, <3>3, <3>6, <4>2 DEF LogTypeOK, files
    <3>10. IndexSound'
      <4>1. IsFiniteSet(recorded')
        BY <3>1, FS_AddElement DEF IndexSound
      <4>2. Listed(index)' \subseteq recorded'
        BY <3>1, <3>8 DEF IndexSound
      <4>3. \A e \in {cur} \cup Listed(index) : e.id < nextId
        BY <3>3 DEF IndexSound, CurSound, Listed, NoRecord, RunRecord, NoId, Ids
      <4> QED BY <3>1, <3>6, <3>8, <4>1, <4>2, <4>3 DEF IndexSound, Listed
    <3>11. CurSound' /\ BatchSound' /\ ImportedFirst'
      BY <3>1 DEF CurSound, BatchSound, ImportedFirst
    <3>12. DroppedUnlisted'
      <4> SUFFICES ASSUME NEW i \in DOMAIN entries \ K, NEW k \in DOMAIN index',
                          entries[i].id = index'[k].id
                   PROVE  FALSE
        BY <3>1 DEF DroppedUnlisted, IdsOf
      <4>1. PICK l \in K : index'[k] = entries[l]
        BY <3>6 DEF Listed
      <4> QED BY <3>4, <3>5, <4>1 DEF OwnIds
    <3>13. OutputKept'
      BY <3>1, <3>8 DEF OutputKept, CurSound, Listed, files
    <3>14. HistoryKept'
      <4> SUFFICES ASSUME "corruption" \notin faults, Cardinality(recorded') <= MaxEntries,
                          NEW e \in recorded', Stamp(e) >= now - MaxAge
                   PROVE  e \in Listed(index)'
        BY <3>1 DEF HistoryKept, Stamp
      <4>1. IsFiniteSet(recorded') /\ IsFiniteSet(recorded) /\ recorded \subseteq recorded'
        BY <3>1, <3>10 DEF IndexSound
      <4>2. Cardinality(recorded) <= MaxEntries
        <5>1. Cardinality(recorded) <= Cardinality(recorded')
          BY <4>1, FS_Subset
        <5> QED BY <4>1, <5>1, FS_CardinalityType
      <4>3. e \in Listed(entries)
        BY <3>1, <3>4, <4>2 DEF HistoryKept
      <4>4. PICK i \in DOMAIN entries : entries[i] = e
        BY <4>3 DEF Listed
      <4>5. Len(entries) <= MaxEntries
        <5>1. Listed(entries) \subseteq recorded'
          BY <3>1, <3>4 DEF IndexSound
        <5>2. Len(entries) <= Cardinality(recorded')
          BY <3>4, <4>1, <5>1, ListedCount
        <5> QED BY <3>4, <4>1, <5>2, FS_CardinalityType
      <4>6. i <= MaxEntries
        BY <3>4, <4>5
      <4>7. i \in K
        BY <4>4, <4>6 DEF K, Kept
      <4> QED BY <3>6, <4>4, <4>7
    <3> QED BY <3>9, <3>10, <3>11, <3>12, <3>13, <3>14
  <2> QED BY <2>1, <2>2
<1>8. ASSUME DeleteOutputFiles PROVE LogInv'
  <2>0. PICK gone \in SUBSET (dropped \cap files) : Unlink(gone)
    BY <1>8 DEF DeleteOutputFiles, Effective
  <2>a. /\ files' = files \ gone /\ files' \subseteq Ids
        /\ \A f \in files' : output'[f] \in 0..MaxDay
    BY <2>0, UnlinkFiles
  <2>1. LogTypeOK'
    BY <1>8, <2>a DEF DeleteOutputFiles, LogTypeOK, RunRecord, NoRecord, Ids, AfterLoad
  <2>2. IndexSound'
    BY <1>8, <2>a, RecordIds DEF DeleteOutputFiles, LogTypeOK, IndexSound, OwnIds, Listed
  <2>3. CurSound'
    BY <1>8, <2>a, RecordIds DEF DeleteOutputFiles, LogTypeOK, IndexSound, CurSound,
         RunRecord, NoRecord, NoId, Ids, IdsOf,
       AfterLoad
  <2>4. BatchSound' /\ DroppedUnlisted' /\ ImportedFirst'
    BY <1>8, <2>a DEF DeleteOutputFiles, BatchSound, DroppedUnlisted, ImportedFirst, IdsOf,
         OwnIds,
       AfterLoad
  <2>5. OutputKept'
    BY <1>8, <2>a DEF DeleteOutputFiles, OutputKept, DroppedUnlisted, Listed, IdsOf
  <2>6. HistoryKept'
    BY <1>8, <2>a DEF DeleteOutputFiles, HistoryKept, Listed, Stamp, LogTypeOK, RunRecord
  <2> QED BY <2>1, <2>2, <2>3, <2>4, <2>5, <2>6
<1>9. ASSUME SweepAgedOrphans PROVE LogInv'
  <2>0. PICK gone \in SUBSET (files \ IdsOf(index)) : Unlink(gone)
    BY <1>9 DEF SweepAgedOrphans, Effective
  <2>a. /\ files' = files \ gone /\ files' \subseteq Ids
        /\ \A f \in files' : output'[f] \in 0..MaxDay
    BY <2>0, UnlinkFiles
  <2>1. LogTypeOK'
    BY <1>9, <2>a DEF SweepAgedOrphans, LogTypeOK, RunRecord, NoRecord, Ids, AfterLoad
  <2>2. IndexSound'
    BY <1>9, <2>a, RecordIds DEF SweepAgedOrphans, LogTypeOK, IndexSound, OwnIds, Listed
  <2>3. CurSound'
    BY <1>9, <2>a, RecordIds DEF SweepAgedOrphans, LogTypeOK, IndexSound, CurSound,
         RunRecord, NoRecord, NoId, Ids, IdsOf,
       AfterLoad
  <2>4. BatchSound' /\ DroppedUnlisted' /\ ImportedFirst'
    BY <1>9, <2>a DEF SweepAgedOrphans, BatchSound, DroppedUnlisted, ImportedFirst, IdsOf,
         OwnIds,
       AfterLoad
  <2>5. OutputKept'
    BY <1>9, <2>a DEF SweepAgedOrphans, OutputKept, DroppedUnlisted, Listed, IdsOf
  <2>6. HistoryKept'
    BY <1>9, <2>a DEF SweepAgedOrphans, HistoryKept, Listed, Stamp, LogTypeOK, RunRecord
  <2> QED BY <2>1, <2>2, <2>3, <2>4, <2>5, <2>6
<1>10. ASSUME Crash PROVE LogInv'
  <2>1. LogTypeOK'
    BY <1>10 DEF Crash, LogTypeOK, files, RunRecord, NoRecord, Ids, AfterLoad
  <2>2. IndexSound'
    BY <1>10, RecordIds DEF Crash, LogTypeOK, IndexSound, OwnIds, Listed
  <2>3. CurSound'
    BY <1>10, RecordIds DEF Crash, LogTypeOK, IndexSound, CurSound, RunRecord, NoRecord,
         NoId, Ids, IdsOf,
       AfterLoad, files
  <2>4. BatchSound' /\ DroppedUnlisted' /\ ImportedFirst'
    BY <1>10 DEF Crash, BatchSound, DroppedUnlisted, ImportedFirst, IdsOf, OwnIds,
       AfterLoad, files
  <2>5. OutputKept'
    BY <1>10 DEF Crash, OutputKept, DroppedUnlisted, Listed, IdsOf, files
  <2>6. HistoryKept'
    BY <1>10 DEF Crash, HistoryKept, Listed, Stamp, LogTypeOK, RunRecord
  <2> QED BY <2>1, <2>2, <2>3, <2>4, <2>5, <2>6
<1>11. ASSUME IndexCorrupted PROVE LogInv'
  <2>1. LogTypeOK'
    BY <1>11 DEF IndexCorrupted, LogTypeOK, files, RunRecord, NoRecord, Ids, AfterLoad
  <2>2. IndexSound'
    BY <1>11, RecordIds DEF IndexCorrupted, LogTypeOK, IndexSound, OwnIds, Listed
  <2>3. CurSound'
    BY <1>11, RecordIds DEF IndexCorrupted, LogTypeOK, IndexSound, CurSound, RunRecord,
         NoRecord, NoId, Ids, IdsOf,
       AfterLoad, files
  <2>4. BatchSound' /\ DroppedUnlisted' /\ ImportedFirst'
    BY <1>11 DEF IndexCorrupted, BatchSound, DroppedUnlisted, ImportedFirst, IdsOf, OwnIds,
       AfterLoad, files
  <2>5. OutputKept'
    BY <1>11 DEF IndexCorrupted, OutputKept, DroppedUnlisted, Listed, IdsOf, files
  <2>6. HistoryKept'
    BY <1>11 DEF IndexCorrupted, HistoryKept, Listed, Stamp, LogTypeOK, RunRecord
  <2> QED BY <2>1, <2>2, <2>3, <2>4, <2>5, <2>6
<1>12. ASSUME NextDay PROVE LogInv'
  <2>1. LogTypeOK'
    BY <1>12 DEF NextDay, LogTypeOK, files, RunRecord, NoRecord, Ids, AfterLoad
  <2>2. IndexSound'
    BY <1>12, RecordIds DEF NextDay, LogTypeOK, IndexSound, OwnIds, Listed
  <2>3. CurSound'
    BY <1>12, RecordIds DEF NextDay, LogTypeOK, IndexSound, CurSound, RunRecord, NoRecord,
         NoId, Ids, IdsOf,
       AfterLoad, files
  <2>4. BatchSound' /\ DroppedUnlisted' /\ ImportedFirst'
    BY <1>12 DEF NextDay, BatchSound, DroppedUnlisted, ImportedFirst, IdsOf, OwnIds,
       AfterLoad, files
  <2>5. OutputKept'
    BY <1>12 DEF NextDay, OutputKept, DroppedUnlisted, Listed, IdsOf, files
  <2>6. HistoryKept'
    BY <1>12 DEF NextDay, HistoryKept, Listed, Stamp, LogTypeOK, RunRecord
  <2> QED BY <2>1, <2>2, <2>3, <2>4, <2>5, <2>6
<1>13. ASSUME UNCHANGED logVars PROVE LogInv'
  BY <1>13 DEF logVars, LogTypeOK, files, IndexSound, OwnIds, Listed, CurSound, IdsOf,
       BatchSound,
     DroppedUnlisted, ImportedFirst, OutputKept, HistoryKept, Stamp
<1> QED
  BY <1>1, <1>2, <1>3, <1>4, <1>5, <1>6, <1>7, <1>8, <1>9, <1>10, <1>11, <1>12,
       <1>13 DEF LogNext

\* The inductive invariant holds in every reachable state.
THEOREM LogInvariance == LogSpec => []LogInv
<1> QED BY LogInitInv, LogStepInv, PTL DEF LogSpec

\* The type of the index, the output files and the call under way.
THEOREM LogTypeCorrect == LogSpec => []LogTypeOK
<1>1. LogInv => LogTypeOK
  BY DEF LogInv
<1> QED BY <1>1, LogInvariance, PTL

\* No crash, failing disk, pruning or sweep takes the output of a listed run.
THEOREM OutputKeptHolds == LogSpec => []OutputKept
<1>1. LogInv => OutputKept
  BY DEF LogInv
<1> QED BY <1>1, LogInvariance, PTL

\* What is within both limits stays in the index.
THEOREM HistoryKeptHolds == LogSpec => []HistoryKept
<1>1. LogInv => HistoryKept
  BY DEF LogInv
<1> QED BY <1>1, LogInvariance, PTL

\* Only the output of what was just pruned, or of an aged orphan, is deleted.
THEOREM OrphansAgeHolds == LogSpec => OrphansAge
<1> DEFINE Aged ==
      \A f \in files \ DOMAIN output' :
          \/ pc = "delete" /\ f \in dropped
          \/ f \notin IdsOf(index) /\ output[f] < now - MaxAge
<1>1. LogInv /\ [LogNext]_logVars => [Aged]_logVars
  <2> SUFFICES ASSUME LogInv, LogNext, NEW f \in files, f \notin DOMAIN output'
               PROVE  \/ pc = "delete" /\ f \in dropped
                      \/ f \notin IdsOf(index) /\ output[f] < now - MaxAge
    OBVIOUS
  <2>1. CASE \/ \E at \in 0..now : RecordRun(at)
             \/ ReadIndex \/ SaveMerged \/ RenameLegacy \/ SaveIndex
             \/ Crash \/ IndexCorrupted \/ NextDay
    <3>1. output' = output
      BY <2>1 DEF RecordRun, ReadIndex, SaveMerged, RenameLegacy, SaveIndex, Crash,
           IndexCorrupted,
         NextDay, disk
    <3> QED BY <3>1 DEF files
  <2>2. CASE WriteOutput \/ Migrate
    <3>1. output' = output \/ \E ids : Write(ids)
      BY <2>2 DEF WriteOutput, Migrate
    <3> QED BY <3>1 DEF files, Write
  <2>3. CASE DeleteOutputFiles
    <3>1. PICK gone \in SUBSET (dropped \cap files) : Unlink(gone)
      BY <2>3 DEF DeleteOutputFiles, Effective
    <3> QED BY <2>3, <3>1 DEF DeleteOutputFiles, Unlink
  <2>4. CASE SweepAgedOrphans
    <3> DEFINE aged == {g \in files \ IdsOf(index) : output[g] < now - MaxAge}
    <3>1. PICK gone \in SUBSET aged : Unlink(gone)
      BY <2>4 DEF SweepAgedOrphans, Effective
    <3> QED BY <3>1 DEF Unlink
  <2> QED BY <2>1, <2>2, <2>3, <2>4 DEF LogNext
<1> QED BY <1>1, LogInvariance, PTL DEF LogSpec, OrphansAge

\* A legacy log that could be read is given up only after all of it was imported.
THEOREM LegacyImportedHolds == LogSpec => LegacyImported
<1> DEFINE Imported ==
      legacy = "present" /\ legacy' = "gone" => \A e \in Legacy : \E r \in recorded : r.src = e
<1>1. LogInv /\ [LogNext]_logVars => [Imported]_logVars
  <2> SUFFICES ASSUME LogInv, LogNext, legacy = "present", legacy' = "gone"
               PROVE  \A e \in Legacy : \E r \in recorded : r.src = e
    OBVIOUS
  <2>1. RenameLegacy
    BY DEF LogNext, RecordRun, WriteOutput, ReadIndex, Migrate, SaveMerged, SaveIndex,
       DeleteOutputFiles, SweepAgedOrphans, Crash, IndexCorrupted, NextDay, disk
  <2> QED BY <2>1 DEF RenameLegacy, LogInv, ImportedFirst
<1> QED BY <1>1, LogInvariance, PTL DEF LogSpec, LegacyImported

-------------------------------------------------------------------------------
(***************************************************************************)
(* Unattended updates: any set of hosts and stacks, any interleaving of    *)
(* admin requests, job firings and run steps, and any number of restarts   *)
(* and factory resets.                                                     *)
(***************************************************************************)
USE HostsAssumption, StacksAssumption

\* The part of SchedulesKept about hosts, and the whole of it when no two stacks
\* share a job id.
IdsTellApart == \A p, q \in Stacks : StackJobId[p] = StackJobId[q] => p = q

Scheduled == (up => osEnabled \subseteq osJob) /\ (IdsTellApart => SchedulesKept)

IInv ==
    /\ TypeOK /\ Scheduled /\ RedeployWanted /\ OwnJob
    /\ FreshRun /\ RebootAfterSuccess /\ FailureTold

\* A fresh install has no schedule, no job and no run.
LEMMA InitIInv == Init => IInv
<1> SUFFICES ASSUME Init PROVE IInv
  OBVIOUS
<1>1. TypeOK
  BY DEF Init, TypeOK, Jobs
<1>2. Scheduled /\ RedeployWanted /\ OwnJob
  BY DEF Init, Scheduled, SchedulesKept, RedeployWanted, OwnJob
<1>3. FreshRun /\ RebootAfterSuccess /\ FailureTold
  BY DEF Init, FreshRun, RebootAfterSuccess, FailureTold, Jobs
<1> QED BY <1>1, <1>2, <1>3 DEF IInv

\* Every request, firing, run step, stop and start keeps the invariant.
LEMMA StepIInv == IInv /\ [Next]_vars => IInv'
<1> SUFFICES ASSUME IInv, [Next]_vars PROVE IInv'
  OBVIOUS
<1> USE DEF IInv, config, jobs, runs
<1>1. ASSUME NEW h \in Hosts, AddHost(h) PROVE IInv'
  <2>1. TypeOK'
    BY <1>1 DEF AddHost, TypeOK, Jobs, Entry
  <2>2. Scheduled' /\ RedeployWanted' /\ OwnJob'
    BY <1>1 DEF AddHost, TypeOK, Scheduled, SchedulesKept, RedeployWanted, OwnJob, IdsTellApart
  <2>3. FreshRun' /\ RebootAfterSuccess' /\ FailureTold'
    BY <1>1 DEF AddHost, TypeOK, FreshRun, RebootAfterSuccess, FailureTold, Jobs
  <2> QED BY <2>1, <2>2, <2>3
<1>2. ASSUME NEW h \in Hosts, DeleteHost(h) PROVE IInv'
  <2>1. TypeOK'
    BY <1>2 DEF DeleteHost, TypeOK, Jobs, Entry
  <2>2. Scheduled' /\ RedeployWanted' /\ OwnJob'
    BY <1>2 DEF DeleteHost, TypeOK, Scheduled, SchedulesKept, RedeployWanted, OwnJob,
         IdsTellApart
  <2>3. FreshRun' /\ RebootAfterSuccess' /\ FailureTold'
    BY <1>2 DEF DeleteHost, TypeOK, FreshRun, RebootAfterSuccess, FailureTold, Jobs
  <2> QED BY <2>1, <2>2, <2>3
<1>3. ASSUME NEW h \in Hosts, SaveSudoPassword(h) PROVE IInv'
  <2>1. TypeOK'
    BY <1>3 DEF SaveSudoPassword, TypeOK, Jobs, Entry
  <2>2. Scheduled' /\ RedeployWanted' /\ OwnJob'
    BY <1>3 DEF SaveSudoPassword, TypeOK, Scheduled, SchedulesKept, RedeployWanted, OwnJob,
         IdsTellApart
  <2>3. FreshRun' /\ RebootAfterSuccess' /\ FailureTold'
    BY <1>3 DEF SaveSudoPassword, TypeOK, FreshRun, RebootAfterSuccess, FailureTold, Jobs
  <2> QED BY <2>1, <2>2, <2>3
<1>4. ASSUME NEW h \in Hosts, NEW g \in Hosts, UpdateHost(h, g) PROVE IInv'
  <2>1. TypeOK'
    BY <1>4 DEF UpdateHost, TypeOK, Jobs, Entry
  <2>2. Scheduled' /\ RedeployWanted' /\ OwnJob'
    BY <1>4 DEF UpdateHost, TypeOK, Scheduled, SchedulesKept, RedeployWanted, OwnJob,
         IdsTellApart
  <2>3. FreshRun' /\ RebootAfterSuccess' /\ FailureTold'
    BY <1>4 DEF UpdateHost, TypeOK, FreshRun, RebootAfterSuccess, FailureTold, Jobs
  <2> QED BY <2>1, <2>2, <2>3
<1>5. ASSUME NEW h \in Hosts, NEW enabled \in BOOLEAN, NEW reboot \in BOOLEAN, SaveHostAutoUpdate(h, enabled, reboot) PROVE IInv'
  <2>1. TypeOK'
    BY <1>5 DEF SaveHostAutoUpdate, ApplyHostSchedule, TypeOK, Jobs, Entry
  <2>2. Scheduled' /\ RedeployWanted' /\ OwnJob'
    BY <1>5 DEF SaveHostAutoUpdate, ApplyHostSchedule, TypeOK, Scheduled, SchedulesKept,
         RedeployWanted, OwnJob, IdsTellApart
  <2>3. FreshRun' /\ RebootAfterSuccess' /\ FailureTold'
    BY <1>5 DEF SaveHostAutoUpdate, ApplyHostSchedule, TypeOK, FreshRun, RebootAfterSuccess,
         FailureTold, Jobs
  <2> QED BY <2>1, <2>2, <2>3
<1>6. ASSUME NEW p \in Stacks, NEW enabled \in BOOLEAN, SaveStackAutoUpdate(p, enabled) PROVE IInv'
  <2>1. TypeOK'
    BY <1>6 DEF SaveStackAutoUpdate, ApplyStackSchedule, TypeOK, Jobs, Entry
  <2>2. Scheduled' /\ RedeployWanted' /\ OwnJob'
    BY <1>6 DEF SaveStackAutoUpdate, ApplyStackSchedule, TypeOK, Scheduled, SchedulesKept,
         RedeployWanted, OwnJob, IdsTellApart
  <2>3. FreshRun' /\ RebootAfterSuccess' /\ FailureTold'
    BY <1>6 DEF SaveStackAutoUpdate, ApplyStackSchedule, TypeOK, FreshRun,
         RebootAfterSuccess, FailureTold, Jobs
  <2> QED BY <2>1, <2>2, <2>3
<1>7. ASSUME NEW set \in BOOLEAN, SavePortainer(set) PROVE IInv'
  <2>1. TypeOK'
    BY <1>7 DEF SavePortainer, TypeOK, Jobs, Entry
  <2>2. Scheduled' /\ RedeployWanted' /\ OwnJob'
    BY <1>7 DEF SavePortainer, TypeOK, Scheduled, SchedulesKept, RedeployWanted, OwnJob,
         IdsTellApart
  <2>3. FreshRun' /\ RebootAfterSuccess' /\ FailureTold'
    BY <1>7 DEF SavePortainer, TypeOK, FreshRun, RebootAfterSuccess, FailureTold, Jobs
  <2> QED BY <2>1, <2>2, <2>3
<1>8. ASSUME FactoryReset PROVE IInv'
  <2>1. TypeOK'
    BY <1>8 DEF FactoryReset, TypeOK, Jobs, Entry
  <2>2. Scheduled' /\ RedeployWanted' /\ OwnJob'
    BY <1>8 DEF FactoryReset, TypeOK, Scheduled, SchedulesKept, RedeployWanted, OwnJob,
         IdsTellApart
  <2>3. FreshRun' /\ RebootAfterSuccess' /\ FailureTold'
    BY <1>8 DEF FactoryReset, TypeOK, FreshRun, RebootAfterSuccess, FailureTold, Jobs
  <2> QED BY <2>1, <2>2, <2>3
<1>9. ASSUME Stop PROVE IInv'
  <2>1. TypeOK'
    BY <1>9 DEF Stop, TypeOK, Jobs, Entry
  <2>2. Scheduled' /\ RedeployWanted' /\ OwnJob'
    BY <1>9 DEF Stop, TypeOK, Scheduled, SchedulesKept, RedeployWanted, OwnJob, IdsTellApart
  <2>3. FreshRun' /\ RebootAfterSuccess' /\ FailureTold'
    BY <1>9 DEF Stop, TypeOK, FreshRun, RebootAfterSuccess, FailureTold, Jobs
  <2> QED BY <2>1, <2>2, <2>3
<1>10. ASSUME Startup PROVE IInv'
  <2>1. TypeOK'
    BY <1>10 DEF Startup, ApplyAllSchedules, TypeOK, Jobs, Entry
  <2>2. Scheduled' /\ RedeployWanted' /\ OwnJob'
    BY <1>10 DEF Startup, ApplyAllSchedules, TypeOK, Scheduled, SchedulesKept,
         RedeployWanted, OwnJob, IdsTellApart
  <2>3. FreshRun' /\ RebootAfterSuccess' /\ FailureTold'
    BY <1>10 DEF Startup, ApplyAllSchedules, TypeOK, FreshRun, RebootAfterSuccess,
         FailureTold, Jobs
  <2> QED BY <2>1, <2>2, <2>3
<1>11. ASSUME NEW h \in Hosts, FireOs(h) PROVE IInv'
  <2>1. TypeOK'
    BY <1>11 DEF FireOs, Goto, TypeOK, Jobs, Entry
  <2>2. Scheduled' /\ RedeployWanted' /\ OwnJob'
    BY <1>11 DEF FireOs, Goto, TypeOK, Scheduled, SchedulesKept, RedeployWanted, OwnJob,
         IdsTellApart
  <2>3. FreshRun' /\ RebootAfterSuccess' /\ FailureTold'
    BY <1>11 DEF FireOs, Goto, TypeOK, FreshRun, RebootAfterSuccess, FailureTold, Jobs
  <2> QED BY <2>1, <2>2, <2>3
<1>12. ASSUME NEW j \in JobIds, FireStack(j) PROVE IInv'
  <2>1. TypeOK'
    BY <1>12 DEF FireStack, Goto, Unserved, TypeOK, Jobs, Entry
  <2>2. Scheduled' /\ RedeployWanted' /\ OwnJob'
    BY <1>12 DEF FireStack, Goto, Unserved, TypeOK, Scheduled, SchedulesKept, RedeployWanted,
         OwnJob, IdsTellApart
  <2>3. FreshRun' /\ RebootAfterSuccess' /\ FailureTold'
    BY <1>12 DEF FireStack, Goto, Unserved, TypeOK, FreshRun, RebootAfterSuccess,
         FailureTold, Jobs
  <2> QED BY <2>1, <2>2, <2>3
<1>13. ASSUME NEW h \in Hosts, Upgrade(h) PROVE IInv'
  <2>1. TypeOK'
    BY <1>13 DEF Upgrade, Goto, Record, FailOs, TypeOK, Jobs, Entry
  <2>2. Scheduled' /\ RedeployWanted' /\ OwnJob'
    BY <1>13 DEF Upgrade, Goto, Record, FailOs, TypeOK, Scheduled, SchedulesKept,
         RedeployWanted, OwnJob, IdsTellApart
  <2>3. FreshRun' /\ RebootAfterSuccess' /\ FailureTold'
    BY <1>13 DEF Upgrade, Goto, Record, FailOs, TypeOK, FreshRun, RebootAfterSuccess,
         FailureTold, Jobs
  <2> QED BY <2>1, <2>2, <2>3
<1>14. ASSUME NEW h \in Hosts, CheckReboot(h) PROVE IInv'
  <2>1. TypeOK'
    BY <1>14 DEF CheckReboot, Goto, Record, FailOs, TypeOK, Jobs, Entry
  <2>2. Scheduled' /\ RedeployWanted' /\ OwnJob'
    BY <1>14 DEF CheckReboot, Goto, Record, FailOs, TypeOK, Scheduled, SchedulesKept,
         RedeployWanted, OwnJob, IdsTellApart
  <2>3. FreshRun' /\ RebootAfterSuccess' /\ FailureTold'
    BY <1>14 DEF CheckReboot, Goto, Record, FailOs, TypeOK, FreshRun, RebootAfterSuccess,
         FailureTold, Jobs
  <2> QED BY <2>1, <2>2, <2>3
<1>15. ASSUME NEW h \in Hosts, Reboot(h) PROVE IInv'
  <2>1. TypeOK'
    BY <1>15 DEF Reboot, Goto, Record, FailOs, TypeOK, Jobs, Entry
  <2>2. Scheduled' /\ RedeployWanted' /\ OwnJob'
    BY <1>15 DEF Reboot, Goto, Record, FailOs, TypeOK, Scheduled, SchedulesKept,
         RedeployWanted, OwnJob, IdsTellApart
  <2>3. FreshRun' /\ RebootAfterSuccess' /\ FailureTold'
    BY <1>15 DEF Reboot, Goto, Record, FailOs, TypeOK, FreshRun, RebootAfterSuccess,
         FailureTold, Jobs
  <2> QED BY <2>1, <2>2, <2>3
<1>16. ASSUME NEW j \in JobIds, Redeploy(j) PROVE IInv'
  <2>1. TypeOK'
    BY <1>16 DEF Redeploy, Goto, Record, TypeOK, Jobs, Entry
  <2>2. Scheduled' /\ RedeployWanted' /\ OwnJob'
    BY <1>16 DEF Redeploy, Goto, Record, TypeOK, Scheduled, SchedulesKept, RedeployWanted,
         OwnJob, IdsTellApart
  <2>3. FreshRun' /\ RebootAfterSuccess' /\ FailureTold'
    BY <1>16 DEF Redeploy, Goto, Record, TypeOK, FreshRun, RebootAfterSuccess, FailureTold, Jobs
  <2> QED BY <2>1, <2>2, <2>3
<1>17. ASSUME UNCHANGED vars PROVE IInv'
  BY <1>17 DEF vars, TypeOK, Scheduled, SchedulesKept, RedeployWanted, OwnJob, FreshRun,
     RebootAfterSuccess, FailureTold
<1> QED
  BY <1>1, <1>2, <1>3, <1>4, <1>5, <1>6, <1>7, <1>8, <1>9, <1>10, <1>11, <1>12, <1>13, <1>14,
       <1>15, <1>16, <1>17 DEF Next, Admin, RunStep

\* The inductive invariant holds in every reachable state.
THEOREM Invariance == Spec => []IInv
<1> QED BY InitIInv, StepIInv, PTL DEF Spec

\* Type correctness of the configuration, the job store and the runs.
THEOREM TypeCorrect == Spec => []TypeOK
<1>1. IInv => TypeOK
  BY DEF IInv
<1> QED BY <1>1, Invariance, PTL

\* No schedule that is on ever lacks its job, provided _stack_job_id tells the
\* stacks apart.
THEOREM SchedulesKeptHolds == ASSUME IdsTellApart PROVE Spec => []SchedulesKept
<1>1. IInv => SchedulesKept
  BY IdsTellApart DEF IInv, Scheduled
<1> QED BY <1>1, Invariance, PTL

\* Short of a factory reset, every registered stack job has its schedule on.
THEOREM RedeployWantedHolds == Spec => []RedeployWanted
<1>1. IInv => RedeployWanted
  BY DEF IInv
<1> QED BY <1>1, Invariance, PTL

\* A host whose upgrade failed is never rebooted by the run that failed.
THEOREM RebootAfterSuccessHolds == Spec => []RebootAfterSuccess
<1>1. IInv => RebootAfterSuccess
  BY DEF IInv
<1> QED BY <1>1, Invariance, PTL

\* A failed or skipped run that is in the activity log was also notified.
THEOREM FailureToldHolds == Spec => []FailureTold
<1>1. IInv => FailureTold
  BY DEF IInv
<1> QED BY <1>1, Invariance, PTL

\* A run that ends with the process still up has left an entry.
THEOREM RunsRecordedHolds == Spec => RunsRecorded
<1> DEFINE RunLeavesEntry ==
      \A r \in Jobs : run[r] # "idle" /\ run'[r] = "idle" /\ up' => entry'[r] # {}
<1>1. IInv /\ [Next]_vars => [RunLeavesEntry]_vars
  <2> SUFFICES ASSUME IInv, Next PROVE RunLeavesEntry
    OBVIOUS
  <2> USE DEF IInv, TypeOK, Jobs
  <2>1. CASE Admin
    BY <2>1 DEF Admin, AddHost, DeleteHost, UpdateHost, SaveSudoPassword, SaveHostAutoUpdate,
                SaveStackAutoUpdate, SavePortainer, FactoryReset, runs
  <2>2. CASE Stop \/ Startup
    BY <2>2 DEF Stop, Startup, runs
  <2>3. ASSUME NEW g \in Hosts, FireOs(g) PROVE RunLeavesEntry
    BY <2>3 DEF FireOs, Goto
  <2>4. ASSUME NEW j \in JobIds, FireStack(j) PROVE RunLeavesEntry
    BY <2>4 DEF FireStack, Goto
  <2>5. ASSUME NEW r \in Jobs, RunStep(r) PROVE RunLeavesEntry
    <3>1. \A q \in Jobs : q # r => run'[q] = run[q]
      BY <2>5 DEF RunStep, Upgrade, CheckReboot, Reboot, Redeploy, FailOs, Goto
    <3>2. CASE r \in Hosts /\ (Upgrade(r) \/ Reboot(r))
      <4>1. \E x : entry'[r] = entry[r] \cup {x}
        BY <3>2 DEF Upgrade, Reboot, FailOs, Record
      <4> QED BY <3>1, <4>1
    <3>3. CASE r \in Hosts /\ CheckReboot(r)
      <4>1. entry[r] # {}
        BY <3>3 DEF CheckReboot, RebootAfterSuccess
      <4>2. entry'[r] = entry[r] \/ \E x : entry'[r] = entry[r] \cup {x}
        BY <3>3 DEF CheckReboot, FailOs, Record
      <4> QED BY <3>1, <4>1, <4>2
    <3>4. CASE r \in JobIds /\ Redeploy(r)
      <4>1. \E x : entry'[r] = entry[r] \cup {x}
        BY <3>4 DEF Redeploy, Record
      <4> QED BY <3>1, <4>1
    <3> QED BY <2>5, <3>2, <3>3, <3>4 DEF RunStep
  <2> QED BY <2>1, <2>2, <2>3, <2>4, <2>5 DEF Next
<1> QED BY <1>1, Invariance, PTL DEF Spec, RunsRecorded
===============================================================================
