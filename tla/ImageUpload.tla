----------------------------- MODULE ImageUpload -----------------------------
(***************************************************************************)
(* An invoice image on its way into the payment graph: backend's           *)
(* /runs/from-image asks sandbox-runner for the text, sandbox-runner asks  *)
(* policy-service, gives the image a scratch volume and a container of its *)
(* own, waits for it, reads the text from the volume and removes it.       *)
(* The backend's handler blocks its event loop from the saved file to the  *)
(* end of the run, so one image is handled at a time; but it gives up on   *)
(* sandbox-runner after a while, which goes on with the image it was       *)
(* given.  Containers end, and are removed, by themselves.  What the graph *)
(* does with the text is InvoiceRun's matter.                              *)
(***************************************************************************)
EXTENDS Naturals

CONSTANTS
    Uploads     \* the images, one invoice each

VARIABLES
    pc,         \* the step of the backend's handler
    halted,     \* the invoices ensure_not_halted finds halted: none while
                \* control-plane cannot be reached
    ran,        \* what the graph was run on, "none" before
    call,       \* the step of sandbox-runner's handler
    answer,     \* what it answers
    volume,     \* uploads whose scratch volume exists
    box,        \* the container of each upload
    crashed,    \* sandbox-runner has died once: bound of the model
    clear,      \* history: uploads that were not halted at some moment since
                \* their text came back
    stray       \* history: uploads whose container Docker started, or was
                \* told to kill, without a word to sandbox-runner

backend == <<pc, ran, clear>>
runner == <<call, answer, volume, crashed>>
vars == <<backend, runner, box, halted, stray>>

Steps == {"new", "reading", "asking", "answered", "checked", "returned"}

\* The steps of run_ocr; "gone" is a call that ended with the process.
CallSteps == {"none", "authorize", "volume", "chown", "start", "wait", "read", "cleanup",
              "done", "gone"}

\* An answer with status 200 is "text" or "empty": success, or not.
Answers == {"none", "text", "empty", "error"}

\* A container is "running", has exited with its status, or is "removed".
Boxes == {"none", "running", "succeeded", "failed", "removed"}

TypeOK ==
    /\ pc \in [Uploads -> Steps]
    /\ halted \subseteq Uploads
    /\ ran \in [Uploads -> {"none", "text", "empty"}]
    /\ call \in [Uploads -> CallSteps]
    /\ answer \in [Uploads -> Answers]
    /\ volume \subseteq Uploads
    /\ box \in [Uploads -> Boxes]
    /\ \A u \in Uploads : box[u] \in {"running", "succeeded", "failed"} => u \in volume
    /\ crashed \in BOOLEAN
    /\ clear \subseteq Uploads
    /\ stray \subseteq Uploads

Init ==
    /\ pc = [u \in Uploads |-> "new"]
    /\ halted = {}
    /\ ran = [u \in Uploads |-> "none"]
    /\ call = [u \in Uploads |-> "none"]
    /\ answer = [u \in Uploads |-> "none"]
    /\ volume = {}
    /\ box = [u \in Uploads |-> "none"]
    /\ crashed = FALSE
    /\ clear = {}
    /\ stray = {}

-----------------------------------------------------------------------------
(* start_run_from_image *)

Blocking(u) == pc[u] \in {"asking", "answered", "checked"}

\* The event loop runs no other handler while one blocks it.
LoopFree == \A u \in Uploads : ~Blocking(u)

Return(u) == pc' = [pc EXCEPT ![u] = "returned"]

Goto(u, step) == pc' = [pc EXCEPT ![u] = step]

\* The handler checks the session, then awaits the body of the request.
Receive(u) ==
    /\ pc[u] = "new"
    /\ LoopFree
    /\ IF u \in halted THEN Return(u) ELSE Goto(u, "reading")
    /\ UNCHANGED <<ran, clear, runner, box, halted, stray>>

\* The file is written and its path posted to sandbox-runner.
Post(u) ==
    /\ pc[u] = "reading"
    /\ LoopFree
    /\ Goto(u, "asking")
    /\ call' = [call EXCEPT ![u] = "authorize"]
    /\ UNCHANGED <<ran, clear, answer, volume, crashed, box, halted, stray>>

TakeAnswer(u) ==
    /\ pc[u] = "asking"
    /\ call[u] = "done"
    /\ IF answer[u] = "error"
       THEN Return(u) /\ UNCHANGED clear
       ELSE Goto(u, "answered") /\ clear' = clear \cup ({u} \ halted)
    /\ UNCHANGED <<ran, runner, box, halted, stray>>

\* Deviation: only a broken connection ends the wait, not the time it takes.
GiveUpOnCrash(u) ==
    /\ pc[u] = "asking"
    /\ call[u] = "gone"
    /\ Return(u)
    /\ UNCHANGED <<ran, clear, runner, box, halted, stray>>

\* The call takes more than its timeout, or its connection breaks.
GiveUp(u) ==
    /\ pc[u] = "asking"
    /\ Return(u)
    /\ UNCHANGED <<ran, clear, runner, box, halted, stray>>

\* Deviation: the session is not looked at again after the sandbox.
CheckNothing(u) ==
    /\ pc[u] = "answered"
    /\ Goto(u, "checked")
    /\ UNCHANGED <<ran, clear, runner, box, halted, stray>>

\* _run_pipeline checks the session again.
Check(u) ==
    /\ pc[u] = "answered"
    /\ IF u \in halted THEN Return(u) ELSE Goto(u, "checked")
    /\ UNCHANGED <<ran, clear, runner, box, halted, stray>>

\* The graph is invoked with whatever text came back.
Run(u) ==
    /\ pc[u] = "checked"
    /\ ran' = [ran EXCEPT ![u] = answer[u]]
    /\ Return(u)
    /\ UNCHANGED <<clear, runner, box, halted, stray>>

-----------------------------------------------------------------------------
(* run_ocr *)

To(u, step) == call' = [call EXCEPT ![u] = step]

End(u, step, result) ==
    /\ To(u, step)
    /\ answer' = [answer EXCEPT ![u] = result]

\* A denial, or no answer of policy-service, is a 403.
Authorize(u) ==
    /\ call[u] = "authorize"
    /\ \/ To(u, "volume") /\ UNCHANGED answer
       \/ End(u, "done", "error")
    /\ UNCHANGED <<backend, volume, crashed, box, halted, stray>>

\* Nothing is cleaned up after a failure here: the try block begins below.
CreateVolume(u) ==
    /\ call[u] = "volume"
    /\ \/ To(u, "chown") /\ volume' = volume \cup {u} /\ UNCHANGED answer
       \/ End(u, "done", "error") /\ UNCHANGED volume
    /\ UNCHANGED <<backend, crashed, box, halted, stray>>

Chown(u) ==
    /\ call[u] = "chown"
    /\ \/ To(u, "start") /\ UNCHANGED answer
       \/ End(u, "cleanup", "error")
    /\ UNCHANGED <<backend, volume, crashed, box, halted, stray>>

Started(u) == box' = [box EXCEPT ![u] = "running"]

Stray(u) == stray' = stray \cup {u}

\* The call may raise although the daemon did start the container.
StartBox(u) ==
    /\ call[u] = "start"
    /\ \/ To(u, "wait") /\ Started(u) /\ UNCHANGED <<answer, stray>>
       \/ End(u, "cleanup", "error") /\ UNCHANGED <<box, stray>>
       \/ End(u, "cleanup", "error") /\ Started(u) /\ Stray(u)
    /\ UNCHANGED <<backend, volume, crashed, halted>>

\* The container's status decides whether there is an output to read.
WaitReturns(u) ==
    /\ call[u] = "wait"
    /\ \/ box[u] = "succeeded" /\ To(u, "read") /\ UNCHANGED answer
       \/ box[u] = "failed" /\ End(u, "cleanup", "empty")
    /\ UNCHANGED <<backend, volume, crashed, box, halted, stray>>

\* Deviation: the container is left to itself when waiting for it fails.
WaitFailsNoKill(u) ==
    /\ call[u] = "wait"
    /\ End(u, "cleanup", "error")
    /\ UNCHANGED <<backend, volume, crashed, box, halted, stray>>

\* The hard timeout, a lost connection to Docker, or a container that was removed
\* before anyone waited.  kill ends a running one, unless it raises itself, as it
\* does for one that is not running; the caller gets an error either way.
WaitFails(u) ==
    /\ call[u] = "wait"
    /\ \/ box' = [box EXCEPT ![u] = IF @ = "running" THEN "failed" ELSE @] /\ UNCHANGED stray
       \/ box[u] = "running" /\ Stray(u) /\ UNCHANGED box
    /\ End(u, "cleanup", "error")
    /\ UNCHANGED <<backend, volume, crashed, halted>>

Read(u) ==
    /\ call[u] = "read"
    /\ End(u, "cleanup", "text") \/ End(u, "cleanup", "error")
    /\ UNCHANGED <<backend, volume, crashed, box, halted, stray>>

InUse(u) == box[u] \in {"running", "succeeded", "failed"}

\* Deviation: the volume goes whether or not a container still has it.
CleanupAlways(u) ==
    /\ call[u] = "cleanup"
    /\ To(u, "done")
    /\ volume' = volume \ {u}
    /\ UNCHANGED <<backend, answer, crashed, box, halted, stray>>

\* The removal is tried once; Docker refuses it while a container has the
\* volume.  A refusal is ignored, a lost connection is not: it raises from the
\* finally block, in place of the answer.
Cleanup(u) ==
    /\ call[u] = "cleanup"
    /\ To(u, "done")
    /\ \/ ~InUse(u) /\ volume' = volume \ {u}
       \/ UNCHANGED volume
    /\ answer' \in {answer, [answer EXCEPT ![u] = "error"]}
    /\ UNCHANGED <<backend, crashed, box, halted, stray>>

\* The process dies with all its calls; volumes and containers stay.
Crash ==
    /\ ~crashed
    /\ crashed' = TRUE
    /\ call' = [u \in Uploads |-> IF call[u] \in {"none", "done"} THEN call[u] ELSE "gone"]
    /\ UNCHANGED <<backend, answer, volume, box, halted, stray>>

-----------------------------------------------------------------------------
(* The containers and the kill switch *)

\* The text is written, or Landlock, the image or a limit ended it.
BoxEnds(u) ==
    /\ box[u] = "running"
    /\ \E status \in {"succeeded", "failed"} : box' = [box EXCEPT ![u] = status]
    /\ UNCHANGED <<backend, runner, halted, stray>>

\* --rm: the daemon removes it some time later.
BoxRemoved(u) ==
    /\ box[u] \in {"succeeded", "failed"}
    /\ box' = [box EXCEPT ![u] = "removed"]
    /\ UNCHANGED <<backend, runner, halted, stray>>

Switch(u) ==
    /\ halted' = IF u \in halted THEN halted \ {u} ELSE halted \cup {u}
    /\ clear' = IF u \in halted /\ pc[u] = "answered" THEN clear \cup {u} ELSE clear
    /\ UNCHANGED <<pc, ran, runner, box, stray>>

Handle(u) == Receive(u) \/ Post(u) \/ TakeAnswer(u) \/ GiveUp(u) \/ Check(u) \/ Run(u)

Ocr(u) ==
    \/ Authorize(u) \/ CreateVolume(u) \/ Chown(u) \/ StartBox(u)
    \/ WaitReturns(u) \/ WaitFails(u) \/ Read(u) \/ Cleanup(u)

Next ==
    \/ \E u \in Uploads : Handle(u) \/ Ocr(u) \/ BoxEnds(u) \/ BoxRemoved(u) \/ Switch(u)
    \/ Crash

Spec == Init /\ [][Next]_vars

\* The event loop serves every handler that is ready, again and again, and a
\* handler's calls end with an answer or a timeout.  Nothing is assumed of
\* sandbox-runner.
FairSpec == Spec /\ \A u \in Uploads : SF_vars(Handle(u))

-----------------------------------------------------------------------------
(* Properties *)

\* The hard timeout holds: no call that has ended leaves a container running,
\* whatever failed in it, but for two cases in which the caller is told of an
\* error: Docker started the container and its answer was lost, or did not
\* carry out the kill.  A sandbox-runner that died left its containers too.
NoBoxLeftRunning ==
    \A u \in Uploads : box[u] = "running" =>
        call[u] \in {"wait", "gone"} \/ (u \in stray /\ answer[u] = "error")

\* A halt that comes at any time while the image is in the sandbox, and stands
\* when the text is back and until the session is looked at again, is seen: the
\* invoice is not run.
HaltedNotRun == \A u \in Uploads : ran[u] # "none" => u \in clear

\* Every upload returns, although they wait for each other and sandbox-runner
\* may hang, die or answer too late.
EveryUploadReturns == \A u \in Uploads : pc[u] # "new" ~> pc[u] = "returned"

(***************************************************************************)
(* The inductive invariant behind the safety properties: an image is given *)
(* to the sandbox once, its volume is there before its container, a call   *)
(* ends with an answer that does not change any more, and an upload whose  *)
(* text is back and that is not clear yet is halted now.                   *)
(***************************************************************************)
VolumeHeld == \A u \in Uploads : call[u] \in {"chown", "start"} => u \in volume

CalledOnce == \A u \in Uploads : pc[u] \in {"new", "reading"} => call[u] = "none"

AnswerKept ==
    \A u \in Uploads :
        /\ call[u] \in {"cleanup", "done"} => answer[u] # "none"
        /\ pc[u] \in {"answered", "checked"} => call[u] = "done" /\ answer[u] # "error"
        /\ u \in stray => call[u] \in {"cleanup", "done", "gone"} /\ answer[u] = "error"

ClearUnlessHalted ==
    \A u \in Uploads :
        /\ pc[u] = "answered" => u \in halted \cup clear
        /\ pc[u] = "checked" => u \in clear

UploadInv ==
    /\ TypeOK
    /\ VolumeHeld
    /\ CalledOnce
    /\ AnswerKept
    /\ ClearUnlessHalted
    /\ NoBoxLeftRunning
    /\ HaltedNotRun
=============================================================================
