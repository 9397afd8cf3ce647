------------------------- MODULE ImageUploadProofs -------------------------
(***************************************************************************)
(* What TLAPS proves of ImageUpload, for any number of uploads.            *)
(***************************************************************************)
EXTENDS ImageUpload, TLAPS

\* No upload has arrived, no container runs.
LEMMA InitInv == Init => UploadInv
BY DEF Init, UploadInv, TypeOK, VolumeHeld, CalledOnce, AnswerKept, ClearUnlessHalted,
       NoBoxLeftRunning, HaltedNotRun, Steps, CallSteps, Answers, Boxes

\* Every step of the backend's handler, of sandbox-runner's, of the containers and
\* of the kill switch keeps the invariant.
LEMMA StepInv == UploadInv /\ [Next]_vars => UploadInv'
<1> SUFFICES ASSUME UploadInv, [Next]_vars
             PROVE  UploadInv'
  OBVIOUS
<1> USE DEF UploadInv, TypeOK, VolumeHeld, CalledOnce, AnswerKept, ClearUnlessHalted,
            NoBoxLeftRunning, HaltedNotRun
<1> USE DEF Steps, CallSteps, Answers, Boxes, backend, runner
<1>1. ASSUME NEW u \in Uploads, Handle(u)
      PROVE  UploadInv'
  <2>1. CASE Receive(u)
    BY <2>1 DEF Receive, Return, Goto
  <2>2. CASE Post(u)
    BY <2>2 DEF Post, Goto
  <2>3. CASE TakeAnswer(u)
    BY <2>3 DEF TakeAnswer, Return, Goto
  <2>4. CASE GiveUp(u)
    BY <2>4 DEF GiveUp, Return
  <2>5. CASE Check(u)
    BY <2>5 DEF Check, Return, Goto
  <2>6. CASE Run(u)
    BY <2>6 DEF Run, Return
  <2> QED
    BY <1>1, <2>1, <2>2, <2>3, <2>4, <2>5, <2>6 DEF Handle
<1>2. ASSUME NEW u \in Uploads, Ocr(u)
      PROVE  UploadInv'
  <2>1. CASE Authorize(u)
    BY <2>1 DEF Authorize, To, End
  <2>2. CASE CreateVolume(u)
    BY <2>2 DEF CreateVolume, To, End
  <2>3. CASE Chown(u)
    BY <2>3 DEF Chown, To, End
  <2>4. CASE StartBox(u)
    BY <2>4 DEF StartBox, Started, Stray, To, End
  <2>5. CASE WaitReturns(u)
    BY <2>5 DEF WaitReturns, To, End
  <2>6. CASE WaitFails(u)
    BY <2>6 DEF WaitFails, Stray, To, End
  <2>7. CASE Read(u)
    BY <2>7 DEF Read, To, End
  <2>8. CASE Cleanup(u)
    BY <2>8 DEF Cleanup, To, InUse
  <2> QED
    BY <1>2, <2>1, <2>2, <2>3, <2>4, <2>5, <2>6, <2>7, <2>8 DEF Ocr
<1>3. ASSUME NEW u \in Uploads, BoxEnds(u)
      PROVE  UploadInv'
  BY <1>3 DEF BoxEnds
<1>4. ASSUME NEW u \in Uploads, BoxRemoved(u)
      PROVE  UploadInv'
  BY <1>4 DEF BoxRemoved
<1>5. ASSUME NEW u \in Uploads, Switch(u)
      PROVE  UploadInv'
  BY <1>5 DEF Switch
<1>6. CASE Crash
  BY <1>6 DEF Crash
<1>7. CASE UNCHANGED vars
  BY <1>7 DEF vars
<1> QED
  BY <1>1, <1>2, <1>3, <1>4, <1>5, <1>6, <1>7 DEF Next

\* The strengthened invariant holds in every reachable state.
THEOREM Invariance == Spec => []UploadInv
BY InitInv, StepInv, PTL DEF Spec

\* The types hold in every reachable state; in particular a container that the
\* daemon has not removed still has its volume.
THEOREM TypeCorrect == Spec => []TypeOK
BY Invariance, PTL DEF UploadInv

\* No container outlives the call of run_ocr it was started for, unless Docker did
\* not answer its start or its kill, or the process died.
THEOREM BoxesEnd == Spec => []NoBoxLeftRunning
BY Invariance, PTL DEF UploadInv

\* start_run_from_image sees a halt that came while the image was in the sandbox
\* and stands when its text is back.
THEOREM HaltsSeen == Spec => []HaltedNotRun
BY Invariance, PTL DEF UploadInv
=============================================================================
