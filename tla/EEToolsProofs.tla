--------------------------- MODULE EEToolsProofs ---------------------------
(* Theorems about ee-tools, for any files, any number of jobs and any      *)
(* number of lines: the types, the inputs that hold still while a job      *)
(* reads them, the job a cancellation reaches, the log and the image.      *)
EXTENDS EETools, TLAPS

Place == {"none", "begin", "read", "check", "parse", "publish", "work", "finish",
          "returning", "ended"}

Message == {"none", "no file selected", "cannot read", "cancelled", "cannot parse"}

Job == [no : Nat, kind : Kind \union {"none"}, at : Place, path : File \union {NoFile, Torn},
        said : Nat, cancelled : BOOLEAN]

(* The records' types, of which ToolsTypeOK has but some fields. *)
RecordTypes ==
  /\ job \in Job
  /\ pending \in [image : Loadable \union {NoFile}, error : Message]
  /\ next \in [kind : Kind \union {"none"}, back : {"events", "closing"}]

(* A job about to be started is within the bound, and nothing cancels it;  *)
(* in a frame that shows no job, none runs.                                *)
DrawsFrame == loop \in {"frame", "assigning", "assigned"}
WindowInv ==
  /\ loop \in {"dropping", "joining"} => job.no < MaxJobs
  /\ loop = "joining" => next.kind \in Kind /\ ~cancel
  /\ (DrawsFrame /\ ~shownBusy) => ~busy

(* The flag is set on request only. *)
CancelInv == (cancel => asked) /\ CancelReachesOneJob

ToolsInv == ToolsTypeOK /\ RecordTypes /\ WindowInv /\ CancelInv

-----------------------------------------------------------------------------

LEMMA InitInv == ToolsInit => ToolsInv
<1> SUFFICES ASSUME ToolsInit PROVE ToolsInv
  OBVIOUS
<1>1. ~Running /\ ~busy /\ job.no = 0 /\ ~job.cancelled
  BY DEF ToolsInit, FreshState, Running
<1>2. 0 \in 0..MaxJobs
  BY JobAssumption
<1>3. {quit, shownBusy, options, ready, busy, cancel, asked} \subseteq BOOLEAN
  BY DEF ToolsInit, FreshState
<1>4. ToolsTypeOK
  BY <1>1, <1>2, <1>3 DEF ToolsInit, FreshState, ToolsTypeOK, NoResult
<1>5. job \in Job
  BY DEF ToolsInit, FreshState, Job, Place
<1>6. pending \in [image : Loadable \union {NoFile}, error : Message]
  BY DEF ToolsInit, FreshState, NoResult, Message
<1>7. next \in [kind : Kind \union {"none"}, back : {"events", "closing"}]
  BY DEF ToolsInit, FreshState
<1>8. WindowInv /\ CancelInv
  BY <1>1 DEF ToolsInit, FreshState, WindowInv, DrawsFrame, CancelInv, CancelReachesOneJob
<1> QED
  BY <1>4, <1>5, <1>6, <1>7, <1>8 DEF ToolsInv, RecordTypes

(* Worker::start, up to the join: what its caller's state must be. *)
LEMMA PrepareInv ==
  ASSUME ToolsInv, NEW kind \in Kind, NEW back \in {"events", "closing"}, Prepare(kind, back),
         job.no < MaxJobs, path' \in File \union {NoFile, Torn}, options' \in BOOLEAN,
         image' \in Loadable \union {NoFile}, pending' \in [image : Loadable \union {NoFile}, error : Message],
         ready' \in BOOLEAN, UNCHANGED <<quit, shownBusy, rangeVars, threadVars, asked>>
  PROVE  ToolsInv'
BY DEF ToolsInv, ToolsTypeOK, RecordTypes, WindowInv, DrawsFrame, CancelInv, CancelReachesOneJob,
       Running, Prepare, threadVars, rangeVars

LEMMA StartLoadInv ==
  ASSUME ToolsInv, NEW back \in {"events", "closing"}, StartLoad(back), job.no < MaxJobs,
         path' \in File \union {NoFile, Torn},
         UNCHANGED <<quit, shownBusy, rangeVars, options, threadVars, asked>>
  PROVE  ToolsInv'
<1>1. CASE busy
  BY <1>1 DEF StartLoad, ToolsInv, ToolsTypeOK, RecordTypes, WindowInv, DrawsFrame, CancelInv,
     CancelReachesOneJob, Running, threadVars, loadVars, rangeVars
<1>2. CASE ~busy
  <2>1. /\ Prepare("load", back)
        /\ image' = NoFile
        /\ pending' = NoResult
        /\ ready' = FALSE
    BY <1>2 DEF StartLoad
  <2>2. options' \in BOOLEAN
    BY DEF ToolsInv, ToolsTypeOK
  <2> QED
    BY <2>1, <2>2, PrepareInv DEF Kind, NoResult, Message
<1> QED
  BY <1>1, <1>2

LEMMA StartToolInv ==
  ASSUME ToolsInv, NEW kind \in Kind, NEW back \in {"events", "closing"}, StartTool(kind, back),
         job.no < MaxJobs, UNCHANGED <<quit, shownBusy, inputVars, loadVars, threadVars, asked>>
  PROVE  ToolsInv'
<1>1. CASE busy \/ image = NoFile
  BY <1>1 DEF StartTool, ToolsInv, ToolsTypeOK, RecordTypes, WindowInv, DrawsFrame, CancelInv,
     CancelReachesOneJob, Running, threadVars, loadVars, inputVars
<1>2. CASE ~(busy \/ image = NoFile)
  BY <1>2, PrepareInv DEF StartTool, loadVars, inputVars, rangeVars, ToolsInv, ToolsTypeOK, RecordTypes
<1> QED
  BY <1>1, <1>2

LEMMA AfterFrameType == AfterFrame \in {"events", "closing"}
BY DEF AfterFrame

(* The window's thread. *)
LEMMA LoopStepInv ==
  ASSUME ToolsInv, LoopStep
  PROVE  ToolsInv'
<1> USE DEF ToolsInv, ToolsTypeOK, RecordTypes, WindowInv, DrawsFrame, CancelInv, CancelReachesOneJob,
            Running, frameVars, inputVars, loadVars, logVars, threadVars, cancelVars
<1>1. CASE DroppedFile
  <2>1. path' \in File \union {NoFile, Torn}
    BY <1>1 DEF DroppedFile
  <2> QED
    BY <1>1, <2>1, StartLoadInv DEF DroppedFile
<1>2. CASE DrainSwap
  BY <1>2 DEF DrainSwap
<1>3. CASE DrainAppend
  BY <1>3 DEF DrainAppend
<1>4. CASE Commit
  <2>1. NoResult \in [image : Loadable \union {NoFile}, error : Message]
    BY DEF NoResult, Message
  <2>2. /\ pending' \in [image : Loadable \union {NoFile}, error : Message]
        /\ {image', pending'.image} \subseteq Loadable \union {NoFile}
        /\ ready' \in BOOLEAN
    BY <1>4, <2>1 DEF Commit, Taken
  <2>3. loop' = "look" /\ UNCHANGED <<frameVars, inputVars, threadVars, cancelVars>>
    BY <1>4 DEF Commit
  <2> QED
    BY <2>2, <2>3
<1>5. CASE Look
  BY <1>5 DEF Look
<1>6. CASE StartWorker
  <2>1. job' \in Job /\ job'.at = "begin" /\ job'.no = job.no + 1 /\ ~job'.cancelled
    BY <1>6 DEF StartWorker, Job, Place
  <2>2. job.no \in 0..MaxJobs /\ job.no < MaxJobs /\ loop' \in {"events", "closing"} /\ ~cancel'
    BY <1>6 DEF StartWorker
  <2>3. ToolsTypeOK'
    <3>1. job'.no \in 0..MaxJobs
      BY <2>1, <2>2, JobAssumption
    <3>2. busy' /\ Running' /\ busy' \in BOOLEAN /\ asked' \in BOOLEAN
      BY <1>6, <2>1 DEF StartWorker
    <3> QED
      BY <1>6, <2>2, <3>1, <3>2 DEF StartWorker
  <2> QED
    BY <1>6, <2>1, <2>2, <2>3 DEF StartWorker
<1>7. CASE Closing
  BY <1>7 DEF Closing
<1>8. CASE LeaveLoop
  BY <1>8 DEF LeaveLoop, Job, Place
<1>9. CASE AssignRange
  BY <1>9 DEF AssignRange
<1> QED
  BY <1>1, <1>2, <1>3, <1>4, <1>5, <1>6, <1>7, <1>8, <1>9 DEF LoopStep

LEMMA UserStepInv ==
  ASSUME ToolsInv, UserStep
  PROVE  ToolsInv'
<1> USE AfterFrameType
    DEF ToolsInv, ToolsTypeOK, RecordTypes, WindowInv, DrawsFrame, CancelInv, CancelReachesOneJob,
        Running, frameVars, inputVars, rangeVars, InFrame, loadVars, logVars, threadVars, cancelVars
<1>1. CASE DropFile
  BY <1>1 DEF DropFile, MayStart
<1>2. CASE CloseWindow
  BY <1>2 DEF CloseWindow
<1>3. CASE AddImport
  BY <1>3 DEF AddImport
<1>4. CASE NoInput
  BY <1>4 DEF NoInput
<1>5. CASE TypePath
  BY <1>5 DEF TypePath
<1>6. CASE SetOption
  BY <1>6 DEF SetOption
<1>7. CASE PressLoad
  BY <1>7, StartLoadInv DEF PressLoad, MayStart
<1>8. ASSUME NEW kind \in Kind \ {"load"}, PressTool(kind) PROVE ToolsInv'
  BY <1>8, StartToolInv DEF PressTool, MayStart
<1>9. CASE PressCancel
  BY <1>9 DEF PressCancel
<1>10. CASE PressQuit
  BY <1>10 DEF PressQuit
<1>11. CASE ShowRange
  <2>1. text' \in Text /\ range' \in Text \union {Torn}
    BY <1>11 DEF ShowRange, Assign
  <2> QED
    BY <1>11, <2>1 DEF ShowRange
<1> QED
  BY <1>1, <1>2, <1>3, <1>4, <1>5, <1>6, <1>7, <1>8, <1>9, <1>10, <1>11 DEF UserStep

-----------------------------------------------------------------------------
(* The worker's thread. *)

(* What a step of a job may do: it stays the job it was and is not done,   *)
(* and it gives up if the flag is set.                                     *)
JobGoesOn ==
  /\ Running /\ Running'
  /\ job' \in Job
  /\ job'.no = job.no
  /\ job'.cancelled => (job.cancelled \/ cancel)
  /\ pending' \in [image : Loadable \union {NoFile}, error : Message]
  /\ ready' \in BOOLEAN

LEMMA SayingGoesOn ==
  ASSUME job \in Job, Running, NEW where \in {"read", "check", "publish", "work", "finish"},
         SayAndGoto(where)
  PROVE  job' \in Job /\ Running' /\ job'.no = job.no /\ job'.cancelled = job.cancelled
<1>1. job' = [job EXCEPT !.at = where, !.said = job.said + 1]
  BY DEF SayAndGoto
<1>2. job.said + 1 \in Nat
  BY DEF Job
<1>3. where \in Place
  BY DEF Place
<1>4. job' \in Job
  BY <1>1, <1>2, <1>3 DEF Job
<1>5. job'.at = where /\ job'.no = job.no /\ job'.cancelled = job.cancelled
  BY <1>1 DEF Job
<1> QED
  BY <1>4, <1>5 DEF Running

LEMMA GoingGoesOn ==
  ASSUME job \in Job, Running, NEW where \in {"check", "parse", "publish", "finish"}, Goto(where)
  PROVE  job' \in Job /\ Running' /\ job'.no = job.no /\ job'.cancelled = job.cancelled
BY DEF Goto, Job, Place, Running

LEMMA JobStepGoesOn ==
  ASSUME ToolsInv, JobStep
  PROVE  JobGoesOn
<1>1. /\ job \in Job
      /\ pending \in [image : Loadable \union {NoFile}, error : Message]
      /\ ready \in BOOLEAN
      /\ path \in File \union {NoFile, Torn}
  BY DEF ToolsInv, ToolsTypeOK, RecordTypes
<1>2. \A why \in Message : Failed(why) \in [image : Loadable \union {NoFile}, error : Message]
  BY DEF Failed
<1>3. NoResult \in [image : Loadable \union {NoFile}, error : Message]
  BY DEF NoResult, Message
<1>4. CASE BeginLoad
  <2>1. Running
    BY <1>4 DEF BeginLoad, At, Running
  <2>2. PICK p \in PathsRead :
          IF p = NoFile
          THEN pending' = Failed("no file selected") /\ Goto("publish")
          ELSE pending' = NoResult /\ job' = [job EXCEPT !.at = "read", !.path = p]
    BY <1>4 DEF BeginLoad
  <2>3. p \in File \union {NoFile, Torn}
    BY <1>1 DEF PathsRead
  <2>4. CASE p = NoFile
    BY <1>1, <1>2, <1>4, <2>1, <2>2, <2>4, GoingGoesOn DEF BeginLoad, JobGoesOn, Message
  <2>5. CASE p # NoFile
    <3>1. job' = [job EXCEPT !.at = "read", !.path = p]
      BY <2>2, <2>5
    <3>2. job' \in Job
      BY <1>1, <2>3, <3>1 DEF Job, Place
    <3>3. job'.at = "read" /\ job'.no = job.no /\ job'.cancelled = job.cancelled
      BY <1>1, <3>1 DEF Job
    <3>4. Running'
      BY <3>3 DEF Running
    <3> QED
      BY <1>1, <1>3, <1>4, <2>1, <2>2, <2>5, <3>2, <3>3, <3>4 DEF BeginLoad, JobGoesOn
  <2> QED
    BY <2>4, <2>5
<1>5. CASE ReadFile
  BY <1>1, <1>2, <1>5, SayingGoesOn, GoingGoesOn DEF ReadFile, At, Running, JobGoesOn, Message
<1>6. CASE CheckCancelled
  <2>1. Running
    BY <1>6 DEF CheckCancelled, At, Running
  <2>2. CASE cancel
    <3>1. job' = [job EXCEPT !.at = "publish", !.cancelled = TRUE]
      BY <1>6, <2>2 DEF CheckCancelled
    <3>2. job' \in Job
      BY <1>1, <3>1 DEF Job, Place
    <3>3. job'.at = "publish" /\ job'.no = job.no
      BY <1>1, <3>1 DEF Job
    <3>4. Running'
      BY <3>3 DEF Running
    <3> QED
      BY <1>1, <1>2, <1>6, <2>1, <2>2, <3>2, <3>3, <3>4 DEF CheckCancelled, JobGoesOn, Message
  <2>3. CASE ~cancel
    BY <1>1, <1>6, <2>1, <2>3, GoingGoesOn DEF CheckCancelled, JobGoesOn
  <2> QED
    BY <2>2, <2>3
<1>7. CASE Parse
  <2>1. Running
    BY <1>7 DEF Parse, At, Running
  <2>2. CASE job.path \in Loadable
    <3>1. pending' \in [image : Loadable \union {NoFile}, error : Message]
      <4>1. pending' = [image |-> job.path, error |-> "none"]
        BY <1>7, <2>2 DEF Parse
      <4>2. "none" \in Message
        BY DEF Message
      <4> QED
        BY <2>2, <4>1, <4>2
    <3> QED
      BY <1>1, <1>7, <2>1, <2>2, <3>1, SayingGoesOn DEF Parse, JobGoesOn
  <2>3. CASE job.path \notin Loadable
    BY <1>1, <1>2, <1>7, <2>1, <2>3, GoingGoesOn DEF Parse, JobGoesOn, Message
  <2> QED
    BY <2>2, <2>3
<1>8. CASE Publish
  BY <1>1, <1>8, GoingGoesOn DEF Publish, Published, At, Running, JobGoesOn
<1>9. CASE BeginTool
  BY <1>1, <1>9, SayingGoesOn DEF BeginTool, At, Running, JobGoesOn
<1>10. CASE Work
  BY <1>1, <1>10, SayingGoesOn DEF Work, At, Running, JobGoesOn
<1>11. CASE PollCancel
  <2>1. Running
    BY <1>11 DEF PollCancel, At, Running
  <2>2. CASE cancel
    <3>1. job' = [job EXCEPT !.at = "finish", !.said = job.said + 1, !.cancelled = TRUE]
      BY <1>11, <2>2 DEF PollCancel
    <3>2. job.said + 1 \in Nat /\ "finish" \in Place
      BY <1>1 DEF Job, Place
    <3>3. job' \in Job /\ job'.at = "finish" /\ job'.no = job.no
      BY <1>1, <3>1, <3>2 DEF Job
    <3>4. Running'
      BY <3>3 DEF Running
    <3> QED
      BY <1>1, <1>11, <2>1, <2>2, <3>3, <3>4 DEF PollCancel, JobGoesOn
  <2>3. CASE ~cancel
    BY <1>1, <1>11, <2>1, <2>3, GoingGoesOn DEF PollCancel, JobGoesOn
  <2> QED
    BY <2>2, <2>3
<1> QED
  BY <1>4, <1>5, <1>6, <1>7, <1>8, <1>9, <1>10, <1>11 DEF JobStep

LEMMA JobStepInv ==
  ASSUME ToolsInv, JobStep
  PROVE  ToolsInv'
<1>1. JobGoesOn
  BY JobStepGoesOn
<1>2. UNCHANGED <<loop, frameVars, inputVars, image, error, chunk, printed, busy, cancelVars>>
  BY DEF JobStep
<1>3. ToolsTypeOK'
  BY <1>1, <1>2 DEF ToolsInv, ToolsTypeOK, RecordTypes, JobGoesOn, frameVars, inputVars, cancelVars
<1>4. RecordTypes' /\ WindowInv'
  BY <1>1, <1>2 DEF ToolsInv, RecordTypes, WindowInv, DrawsFrame, JobGoesOn, frameVars, cancelVars
<1>5. CancelInv'
  BY <1>1, <1>2 DEF ToolsInv, CancelInv, CancelReachesOneJob, JobGoesOn, cancelVars
<1> QED
  BY <1>3, <1>4, <1>5 DEF ToolsInv

(* A worker's step that ends the job: the rest of the state stays. *)
LEMMA JobEndsInv ==
  ASSUME ToolsInv, NEW place \in {"returning", "ended"}, Goto(place), busy' = FALSE,
         UNCHANGED <<loop, frameVars, inputVars, loadVars, logVars, cancelVars>>
  PROVE  ToolsInv'
<1>1. job \in Job
  BY DEF ToolsInv, RecordTypes
<1>2. job' = [job EXCEPT !.at = place] /\ place \in Place
  BY DEF Goto, Place
<1>3. /\ job' \in Job /\ job'.at = place /\ job'.no = job.no
      /\ job'.cancelled = job.cancelled
  BY <1>1, <1>2 DEF Job
<1>4. ~Running'
  BY <1>3 DEF Running
<1>5. ToolsTypeOK'
  BY <1>3, <1>4 DEF ToolsInv, ToolsTypeOK, frameVars, inputVars, loadVars, cancelVars
<1>6. RecordTypes'
  BY <1>3 DEF ToolsInv, RecordTypes, frameVars, loadVars
<1>7. WindowInv'
  <2>1. WindowInv /\ job'.no = job.no /\ ~busy'
    BY <1>3 DEF ToolsInv
  <2>2. UNCHANGED <<loop, shownBusy, next, cancel>>
    BY DEF frameVars, cancelVars
  <2> QED
    BY <2>1, <2>2 DEF WindowInv, DrawsFrame
<1>8. CancelInv'
  BY <1>3 DEF ToolsInv, CancelInv, CancelReachesOneJob, cancelVars
<1> QED
  BY <1>5, <1>6, <1>7, <1>8 DEF ToolsInv

LEMMA WorkerStepInv ==
  ASSUME ToolsInv, WorkerStep
  PROVE  ToolsInv'
<1>1. CASE Finish
  BY <1>1, JobEndsInv DEF Finish
<1>2. CASE Return
  <2>1. ~Running
    BY <1>2 DEF Return, At, Running
  <2>2. busy' = FALSE
    BY <1>2, <2>1 DEF Return, ToolsInv, ToolsTypeOK
  <2> QED
    BY <1>2, <2>2, JobEndsInv DEF Return
<1> QED
  BY <1>1, <1>2, JobStepInv DEF WorkerStep

LEMMA NextInv == ToolsInv /\ [ToolsNext]_toolsVars => ToolsInv'
<1> SUFFICES ASSUME ToolsInv, [ToolsNext]_toolsVars PROVE ToolsInv'
  OBVIOUS
<1>1. CASE UNCHANGED toolsVars
  BY <1>1 DEF toolsVars, ToolsInv, ToolsTypeOK, RecordTypes, WindowInv, DrawsFrame, CancelInv,
     CancelReachesOneJob, Running, frameVars, inputVars, loadVars, logVars, threadVars, cancelVars
<1> QED
  BY <1>1, LoopStepInv, UserStepInv, WorkerStepInv DEF ToolsNext

THEOREM ToolsInvariant == ToolsSpec => []ToolsInv
BY InitInv, NextInv, PTL DEF ToolsSpec

-----------------------------------------------------------------------------

(* Worker::start and the thread it starts keep every variable's type, and  *)
(* busy is set for as long as a job is not done.                           *)
THEOREM ToolsTypeCorrect == ToolsSpec => []ToolsTypeOK
BY ToolsInvariant, PTL DEF ToolsInv

(* Worker::request_cancel and start: a press of Cancel is for the job that *)
(* ran when it was pressed; no later job gives up because of it.           *)
THEOREM CancellationIsForOneJob == ToolsSpec => []CancelReachesOneJob
BY ToolsInvariant, PTL DEF ToolsInv, CancelInv

(* What the boxes of the Disassemble tab hold is what was assigned last,   *)
(* except while a frame that may edit them assigns.                        *)
RangeInv == range # text => loop = "assigning" /\ ~shownBusy

LEMMA RangeInit == ToolsInit => RangeInv
BY DEF ToolsInit, FreshState, RangeInv

(* What a tool's run reads is neither changed nor half assigned.           *)
Held ==
  (Running /\ job.kind # "load") => range # Torn /\ UNCHANGED <<image, options, range>>

LEMMA RangeNext ==
  ASSUME ToolsInv, RangeInv, [ToolsNext]_toolsVars
  PROVE  RangeInv' /\ (Running => UNCHANGED range)
<1>0. Running => ~(DrawsFrame /\ ~shownBusy)
  BY DEF ToolsInv, ToolsTypeOK, WindowInv
<1>1. CASE ShowRange
  <2>1. CASE shownBusy
    <3>1. text' = text /\ range = text /\ range' = range /\ loop' = "assigning"
      BY <1>1, <2>1 DEF ShowRange, Assign, RangeInv
    <3> QED
      BY <3>1 DEF RangeInv
  <2>2. CASE ~shownBusy
    <3>1. loop' = "assigning" /\ ~shownBusy' /\ ~Running
      BY <1>0, <1>1, <2>2 DEF ShowRange, frameVars, DrawsFrame
    <3> QED
      BY <3>1 DEF RangeInv
  <2> QED
    BY <2>1, <2>2
<1>2. CASE AssignRange
  <2>1. range' = text /\ text' = text /\ loop = "assigning"
    BY <1>2 DEF AssignRange
  <2>2. Running => range = text
    BY <1>0, <2>1 DEF RangeInv, DrawsFrame
  <2> QED
    BY <2>1, <2>2 DEF RangeInv
<1>3. CASE UNCHANGED rangeVars /\ (UNCHANGED <<loop, shownBusy>> \/ loop # "assigning")
  BY <1>3 DEF RangeInv, rangeVars
<1>4. CASE LoopStep /\ ~AssignRange
  <2>1. UNCHANGED rangeVars /\ loop # "assigning"
    BY <1>4 DEF LoopStep, DroppedFile, DrainSwap, DrainAppend, Commit, Look, StartWorker, Closing, LeaveLoop,
       inputVars, rangeVars
  <2> QED
    BY <1>3, <2>1
<1>5. CASE UserStep /\ ~ShowRange
  <2>1. UNCHANGED rangeVars /\ loop # "assigning"
    BY <1>5 DEF UserStep, DropFile, CloseWindow, AddImport, NoInput, TypePath, SetOption, PressLoad,
       PressTool, PressCancel, PressQuit, InFrame, inputVars, rangeVars
  <2> QED
    BY <1>3, <2>1
<1>6. CASE WorkerStep \/ UNCHANGED toolsVars
  <2>1. UNCHANGED <<rangeVars, loop, shownBusy>>
    BY <1>6 DEF WorkerStep, JobStep, Finish, Return, toolsVars, frameVars, inputVars, rangeVars
  <2> QED
    BY <1>3, <2>1
<1> QED
  BY <1>1, <1>2, <1>4, <1>5, <1>6 DEF ToolsNext

(* run_gui: what the jobs read without a lock, the image, the options and  *)
(* what the Disassemble tab assigns in every frame, no step changes while  *)
(* such a job runs, nor does it find one half assigned: the tab's boxes    *)
(* are disabled in every frame that a job runs in, so what it assigns then *)
(* is what was there.                                                      *)
THEOREM InputsHoldStill == ToolsSpec => InputsHeld
<1>1. ToolsInv /\ RangeInv /\ [ToolsNext]_toolsVars => Held
  <2> SUFFICES ASSUME ToolsInv, RangeInv, [ToolsNext]_toolsVars, Running
               PROVE  range # Torn /\ UNCHANGED <<image, options, range>>
    BY DEF Held
  <2>1. busy
    BY DEF ToolsInv, ToolsTypeOK
  <2>2. ~(DrawsFrame /\ ~shownBusy)
    BY <2>1 DEF ToolsInv, WindowInv
  <2>3. UNCHANGED <<image, options>>
    <3>1. CASE LoopStep
      BY <2>1, <3>1 DEF LoopStep, DroppedFile, DrainSwap, DrainAppend, Commit, Look, AssignRange,
         StartWorker, Closing, LeaveLoop, StartLoad, inputVars, loadVars
    <3>2. CASE UserStep
      BY <2>1, <2>2, <3>2 DEF UserStep, DropFile, CloseWindow, AddImport, ShowRange, NoInput, TypePath,
         SetOption, PressLoad, PressTool, PressCancel, PressQuit, InFrame, DrawsFrame, inputVars, loadVars
    <3>3. CASE WorkerStep
      BY <3>3 DEF WorkerStep, JobStep, Finish, Return, inputVars, loadVars
    <3>4. CASE UNCHANGED toolsVars
      BY <3>4 DEF toolsVars, inputVars, loadVars
    <3> QED
      BY <3>1, <3>2, <3>3, <3>4 DEF ToolsNext
  <2>4. UNCHANGED range
    BY RangeNext
  <2>5. range # Torn
    <3>1. range = text /\ text \in Text
      BY <2>2 DEF RangeInv, DrawsFrame, ToolsInv, ToolsTypeOK
    <3> QED
      BY <3>1, TextAssumption
  <2> QED
    BY <2>3, <2>4, <2>5
<1>2. ToolsSpec => []RangeInv
  BY RangeInit, RangeNext, ToolsInvariant, PTL DEF ToolsSpec
<1> QED
  BY <1>1, <1>2, ToolsInvariant, PTL DEF ToolsSpec, InputsHeld, Held

-----------------------------------------------------------------------------
(* The log.  The window takes lines off the queue's front and the job puts *)
(* them at its end; an earlier job's lines are gone when the next starts,  *)
(* as the queue is cleared before and nobody logs in between.              *)

LogLine == [job : 0..job.no, line : Nat]

LogInv ==
  /\ printed \in LogLine /\ chunk \in Seq(LogLine) /\ logq \in Seq(LogLine)
  /\ loop # "drain" => chunk = <<>>
  /\ loop = "joining" => logq = <<>> /\ ~Running
  /\ Running => InWindow <= job.said /\ LogComplete

OnTheWay(c, q) == c \o q

LEMMA LinesSeq ==
  ASSUME NEW no \in Nat, NEW m \in Nat, NEW k \in Nat, m <= k
  PROVE  /\ Lines(no, m, k) \in Seq([job : Nat, line : Nat])
         /\ Len(Lines(no, m, k)) = k - m
         /\ \A i \in 1..(k - m) : Lines(no, m, k)[i] = [job |-> no, line |-> m + i]
<1>1. k - m \in Nat /\ \A i \in 1..(k - m) : [job |-> no, line |-> m + i] \in [job : Nat, line : Nat]
  OBVIOUS
<1>2. Lines(no, m, k) \in [1..(k - m) -> [job : Nat, line : Nat]]
  BY <1>1 DEF Lines
<1> QED BY <1>1, <1>2 DEF Lines

(* A sequence that has the length and the elements of Lines is that. *)
LEMMA LinesAre ==
  ASSUME NEW no \in Nat, NEW m \in Nat, NEW k \in Nat, m <= k, NEW q \in Seq(LogLine),
         Len(q) = k - m, \A i \in 1..(k - m) : q[i] = [job |-> no, line |-> m + i]
  PROVE  q = Lines(no, m, k)
<1>1. q = [i \in 1..(k - m) |-> q[i]]
  OBVIOUS
<1> QED BY <1>1 DEF Lines

(* A line is added behind the others. *)
LEMMA OneMoreLine ==
  ASSUME NEW c \in Seq(LogLine), NEW q \in Seq(LogLine), NEW l \in LogLine,
         NEW no \in Nat, NEW m \in Nat, NEW k \in Nat, m <= k,
         OnTheWay(c, q) = Lines(no, m, k), l = [job |-> no, line |-> k + 1]
  PROVE  OnTheWay(c, Append(q, l)) = Lines(no, m, k + 1)
<1> DEFINE A == c \o Append(q, l)
<1>1. /\ Len(c \o q) = k - m
      /\ \A i \in 1..(k - m) : (c \o q)[i] = [job |-> no, line |-> m + i]
  <2>1. /\ Len(Lines(no, m, k)) = k - m
        /\ \A i \in 1..(k - m) : Lines(no, m, k)[i] = [job |-> no, line |-> m + i]
    BY LinesSeq
  <2> QED BY <2>1 DEF OnTheWay
<1>2. /\ A \in Seq(LogLine)
      /\ Len(c \o q) = Len(c) + Len(q)
      /\ Len(A) = Len(c) + Len(q) + 1
      /\ \A i \in 1..(Len(c) + Len(q)) : A[i] = (c \o q)[i]
      /\ A[Len(c) + Len(q) + 1] = l
  OBVIOUS
<1>3. Len(A) = k + 1 - m
  BY <1>1, <1>2
<1> HIDE DEF A
<1>4. \A i \in 1..(k + 1 - m) : A[i] = [job |-> no, line |-> m + i]
  <2> TAKE i \in 1..(k + 1 - m)
  <2>1. CASE i \in 1..(k - m)
    BY <1>1, <1>2, <2>1
  <2>2. CASE i = k + 1 - m
    <3>1. m + i = k + 1
      BY <2>2
    <3> QED BY <1>1, <1>2, <1>3, <2>2, <3>1
  <2> QED BY <2>1, <2>2
<1>5. A = [i \in 1..(k + 1 - m) |-> A[i]]
  BY <1>2, <1>3
<1>6. A = Lines(no, m, k + 1)
  BY <1>4, <1>5 DEF Lines
<1> QED BY <1>6 DEF A, OnTheWay

(* The first lines are moved: the others follow the last of them. *)
LEMMA LinesMoved ==
  ASSUME NEW c \in Seq(LogLine), NEW q \in Seq(LogLine), c # <<>>,
         NEW no \in Nat, NEW m \in Nat, NEW k \in Nat, m <= k,
         OnTheWay(c, q) = Lines(no, m, k)
  PROVE  /\ Last(c) = [job |-> no, line |-> m + Len(c)]
         /\ m + Len(c) \in Nat /\ m + Len(c) <= k
         /\ q = Lines(no, m + Len(c), k)
<1>1. /\ Len(c \o q) = k - m
      /\ \A i \in 1..(k - m) : (c \o q)[i] = [job |-> no, line |-> m + i]
  <2>1. /\ Len(Lines(no, m, k)) = k - m
        /\ \A i \in 1..(k - m) : Lines(no, m, k)[i] = [job |-> no, line |-> m + i]
    BY LinesSeq
  <2> QED BY <2>1 DEF OnTheWay
<1>2. /\ Len(c \o q) = Len(c) + Len(q)
      /\ Len(c) \in Nat /\ Len(q) \in Nat /\ Len(c) # 0
      /\ \A i \in 1..Len(c) : (c \o q)[i] = c[i]
      /\ \A i \in 1..Len(q) : (c \o q)[Len(c) + i] = q[i]
  OBVIOUS
<1>3. Last(c) = [job |-> no, line |-> m + Len(c)]
  <2>1. Len(c) \in 1..Len(c) /\ Len(c) \in 1..(k - m)
    BY <1>1, <1>2
  <2> QED BY <1>1, <1>2, <2>1 DEF Last
<1>4. m + Len(c) \in Nat /\ m + Len(c) <= k /\ Len(q) = k - (m + Len(c))
  <2>1. \A a, b \in Nat : a + b = k - m => m + a \in Nat /\ m + a <= k /\ b = k - (m + a)
    OBVIOUS
  <2>2. Len(c) + Len(q) = k - m
    BY <1>1, <1>2
  <2> QED BY <1>2, <2>1, <2>2
<1>5. \A i \in 1..(k - (m + Len(c))) : q[i] = [job |-> no, line |-> m + Len(c) + i]
  <2> TAKE i \in 1..(k - (m + Len(c)))
  <2>1. Len(c) + i \in 1..(k - m) /\ m + (Len(c) + i) = m + Len(c) + i /\ i \in 1..Len(q)
    BY <1>2, <1>4
  <2> QED BY <1>1, <1>2, <2>1
<1>6. q = Lines(no, m + Len(c), k)
  BY <1>4, <1>5, LinesAre
<1> QED BY <1>3, <1>4, <1>6

LEMMA LogInit == ToolsInit => LogInv
<1> SUFFICES ASSUME ToolsInit PROVE LogInv
  OBVIOUS
<1>1. ~Running /\ printed = [job |-> 0, line |-> 0] /\ job.no = 0
  BY DEF ToolsInit, FreshState, Running
<1> QED BY <1>1 DEF ToolsInit, FreshState, LogInv, LogLine

(* A step that neither logs nor moves lines, nor starts a job. *)
LEMMA LogKept ==
  ASSUME LogInv, UNCHANGED logVars, job'.no = job.no, loop # "drain", loop' # "joining",
         Running' => Running /\ job'.said = job.said
  PROVE  LogInv'
BY DEF LogInv, LogLine, logVars, LogComplete, InWindow, Lines

(* Worker::start: the queue is cleared while no job runs. *)
LEMMA LogCleared ==
  ASSUME LogInv, UNCHANGED <<chunk, printed, job>>, loop # "drain",
         (loop' # "joining" /\ UNCHANGED logq) \/ (logq' = <<>> /\ ~Running)
  PROVE  LogInv'
BY DEF LogInv, LogLine, LogComplete, InWindow, Lines, Running

LEMMA LogLoop ==
  ASSUME ToolsInv, LogInv, LoopStep
  PROVE  LogInv'
<1>0. job.no \in Nat /\ job.said \in Nat
  BY DEF ToolsInv, RecordTypes, Job
<1>1. CASE DroppedFile
  <2>1. loop # "drain" /\ UNCHANGED <<chunk, printed, job>>
    BY <1>1 DEF DroppedFile, threadVars
  <2>2. (loop' # "joining" /\ UNCHANGED logq) \/ (logq' = <<>> /\ ~Running)
    BY <1>1 DEF DroppedFile, StartLoad, Prepare, ToolsInv, ToolsTypeOK
  <2> QED BY <2>1, <2>2, LogCleared
<1>2. CASE DrainSwap
  <2>1. chunk = <<>> /\ chunk' = logq /\ logq' = <<>> /\ loop' = "drain" /\ UNCHANGED <<printed, job>>
    BY <1>2 DEF DrainSwap, LogInv, threadVars
  <2>2. chunk \o logq = logq /\ chunk' \o logq' = logq
    BY <2>1 DEF LogInv
  <2> QED BY <2>1, <2>2 DEF LogInv, LogLine, LogComplete, InWindow, Lines, Running
<1>3. CASE DrainAppend
  <2>1. /\ chunk' = <<>> /\ loop' = "commit" /\ UNCHANGED <<logq, job>>
        /\ printed' = IF chunk = <<>> THEN printed ELSE Last(chunk)
    BY <1>3 DEF DrainAppend, threadVars
  <2>2. chunk' \o logq' = logq
    BY <2>1 DEF LogInv
  <2>3. CASE chunk = <<>>
    <3>1. chunk \o logq = logq
      BY <2>3 DEF LogInv
    <3> QED BY <2>1, <2>2, <2>3, <3>1 DEF LogInv, LogLine, LogComplete, InWindow, Lines, Running
  <2>4. CASE chunk # <<>>
    <3>1. printed' = Last(chunk) /\ printed' \in LogLine
      BY <2>1, <2>4 DEF LogInv, Last
    <3>2. ASSUME Running
          PROVE  InWindow' <= job.said /\ chunk' \o logq' = Lines(job.no, InWindow', job.said)
      <4>1. InWindow \in Nat /\ InWindow <= job.said /\ OnTheWay(chunk, logq) = Lines(job.no, InWindow, job.said)
        BY <3>2 DEF OnTheWay, LogInv, LogComplete, InWindow, LogLine
      <4>2. /\ Last(chunk) = [job |-> job.no, line |-> InWindow + Len(chunk)]
            /\ InWindow + Len(chunk) <= job.said
            /\ logq = Lines(job.no, InWindow + Len(chunk), job.said)
        <5>1. chunk \in Seq(LogLine) /\ logq \in Seq(LogLine)
          BY DEF LogInv
        <5> QED BY <1>0, <2>4, <4>1, <5>1, LinesMoved
      <4>3. InWindow' = InWindow + Len(chunk)
        BY <2>1, <3>1, <4>2 DEF InWindow
      <4> QED BY <2>2, <4>2, <4>3
    <3> QED BY <2>1, <3>1, <3>2 DEF LogInv, LogLine, LogComplete, Lines, Running
  <2> QED BY <2>3, <2>4
<1>4. CASE StartWorker
  <2>1. /\ logq = <<>> /\ chunk = <<>> /\ printed.job # job.no + 1 /\ printed \in [job : 0..job.no, line : Nat]
    BY <1>0, <1>4 DEF StartWorker, LogInv, LogLine
  <2>2. /\ job'.no = job.no + 1 /\ job'.said = 0 /\ loop' \in {"events", "closing"}
        /\ UNCHANGED logVars
    BY <1>4 DEF StartWorker, ToolsInv, RecordTypes
  <2>3. printed' \in LogLine' /\ InWindow' = 0
    BY <1>0, <2>1, <2>2 DEF LogLine, InWindow, logVars
  <2>4. Lines(job'.no, 0, 0) = <<>> /\ chunk' \o logq' = <<>>
    BY <2>1, <2>2 DEF Lines, logVars
  <2>5. LogComplete'
    BY <2>2, <2>3, <2>4 DEF LogComplete
  <2> QED BY <2>1, <2>2, <2>3, <2>5 DEF LogInv, logVars
<1>5. CASE Commit \/ Look \/ AssignRange \/ Closing
  BY <1>5, LogKept DEF Commit, Look, AssignRange, Closing, threadVars, Running
<1>6. CASE LeaveLoop
  BY <1>6, LogKept DEF LeaveLoop, Running, ToolsInv, RecordTypes, Job
<1> QED BY <1>1, <1>2, <1>3, <1>4, <1>5, <1>6 DEF LoopStep

LEMMA LogUser ==
  ASSUME ToolsInv, LogInv, UserStep
  PROVE  LogInv'
<1>1. CASE \/ DropFile \/ CloseWindow \/ AddImport \/ ShowRange
          \/ NoInput \/ TypePath \/ SetOption \/ PressCancel \/ PressQuit
  BY <1>1, AfterFrameType, LogKept
  DEF DropFile, CloseWindow, AddImport, ShowRange, InFrame, NoInput, TypePath, SetOption, PressCancel, PressQuit,
      threadVars, Running
<1>2. CASE PressLoad
  <2>1. loop # "drain" /\ UNCHANGED <<chunk, printed, job>>
    BY <1>2 DEF PressLoad, InFrame, threadVars
  <2>2. (loop' # "joining" /\ UNCHANGED logq) \/ (logq' = <<>> /\ ~Running)
    BY <1>2, AfterFrameType DEF PressLoad, StartLoad, Prepare, ToolsInv, ToolsTypeOK
  <2> QED BY <2>1, <2>2, LogCleared
<1>3. ASSUME NEW kind \in Kind \ {"load"}, PressTool(kind) PROVE LogInv'
  <2>1. loop # "drain" /\ UNCHANGED <<chunk, printed, job>>
    BY <1>3 DEF PressTool, threadVars
  <2>2. (loop' # "joining" /\ UNCHANGED logq) \/ (logq' = <<>> /\ ~Running)
    BY <1>3, AfterFrameType DEF PressTool, StartTool, Prepare, ToolsInv, ToolsTypeOK
  <2> QED BY <2>1, <2>2, LogCleared
<1> QED BY <1>1, <1>2, <1>3 DEF UserStep

(* A job's step logs one line, or none. *)
Says ==
  /\ job'.said = job.said + 1
  /\ logq' = Append(logq, [job |-> job.no, line |-> job.said + 1])
SaysNothing == job'.said = job.said /\ logq' = logq

LEMMA JobSays ==
  ASSUME ToolsInv, JobStep
  PROVE  Says \/ SaysNothing
<1>1. job \in Job
  BY DEF ToolsInv, RecordTypes
<1>2. \A where : SayAndGoto(where) => Says
  BY <1>1 DEF SayAndGoto, Says, Job
<1>3. \A where : Goto(where) => job'.said = job.said
  BY <1>1 DEF Goto, Job
<1>4. CASE BeginLoad
  <2>1. PICK p \in PathsRead : Goto("publish") \/ job' = [job EXCEPT !.at = "read", !.path = p]
    BY <1>4 DEF BeginLoad
  <2>2. job'.said = job.said
    BY <1>1, <1>3, <2>1 DEF Job
  <2> QED BY <1>4, <2>2 DEF BeginLoad, SaysNothing
<1>5. CASE ReadFile
  BY <1>2, <1>3, <1>5 DEF ReadFile, SaysNothing
<1>6. CASE CheckCancelled
  BY <1>1, <1>3, <1>6 DEF CheckCancelled, SaysNothing, Job
<1>7. CASE Parse
  BY <1>2, <1>3, <1>7 DEF Parse, SaysNothing
<1>8. CASE Publish
  BY <1>3, <1>8 DEF Publish, SaysNothing
<1>9. CASE BeginTool \/ Work
  BY <1>2, <1>9 DEF BeginTool, Work
<1>10. CASE PollCancel
  BY <1>1, <1>3, <1>10 DEF PollCancel, Says, SaysNothing, Job
<1> QED BY <1>4, <1>5, <1>6, <1>7, <1>8, <1>9, <1>10 DEF JobStep

LEMMA LogWorker ==
  ASSUME ToolsInv, LogInv, WorkerStep
  PROVE  LogInv'
<1>0. job \in Job /\ job.no \in Nat /\ job.said \in Nat
  BY DEF ToolsInv, RecordTypes, Job
<1>1. CASE JobStep
  <2>1. /\ Running /\ Running' /\ job'.no = job.no /\ UNCHANGED <<loop, chunk, printed>>
        /\ loop # "joining"
    BY <1>1, JobStepGoesOn DEF JobGoesOn, JobStep, LogInv
  <2>2. /\ InWindow \in Nat /\ InWindow <= job.said /\ OnTheWay(chunk, logq) = Lines(job.no, InWindow, job.said)
        /\ InWindow' = InWindow
    BY <2>1 DEF OnTheWay, LogInv, LogComplete, InWindow, LogLine
  <2>3. LogLine' = LogLine
    BY <2>1 DEF LogLine
  <2>4. CASE Says
    <3> DEFINE l == [job |-> job.no, line |-> job.said + 1]
    <3>1. l \in LogLine
      BY <1>0 DEF LogLine
    <3>2. OnTheWay(chunk, Append(logq, l)) = Lines(job.no, InWindow, job.said + 1)
      <4>1. chunk \in Seq(LogLine) /\ logq \in Seq(LogLine)
        BY DEF LogInv
      <4> QED BY <1>0, <2>2, <3>1, <4>1, OneMoreLine
    <3>3. chunk' \o logq' = Lines(job'.no, InWindow', job'.said)
      BY <2>1, <2>2, <2>4, <3>2 DEF Says, OnTheWay
    <3>4. InWindow' <= job'.said
      BY <1>0, <2>2, <2>4 DEF Says
    <3>5. logq' \in Seq(LogLine)
      BY <2>4, <3>1 DEF Says, LogInv
    <3> QED BY <2>1, <2>3, <3>3, <3>4, <3>5 DEF LogInv, LogComplete
  <2>5. CASE SaysNothing
    BY <2>1, <2>2, <2>3, <2>5 DEF OnTheWay, SaysNothing, LogInv, LogComplete, Lines
  <2> QED BY <1>1, <2>4, <2>5, JobSays
<1>2. CASE Finish \/ Return
  <2>1. /\ ~Running' /\ job'.no = job.no /\ UNCHANGED <<loop, logq, chunk, printed>>
    BY <1>0, <1>2 DEF Finish, Return, Goto, Running, logVars, Job
  <2> QED BY <2>1 DEF LogInv, LogLine
<1> QED BY <1>1, <1>2 DEF WorkerStep

LEMMA LogNext == ToolsInv /\ LogInv /\ [ToolsNext]_toolsVars => LogInv'
<1> SUFFICES ASSUME ToolsInv, LogInv, [ToolsNext]_toolsVars PROVE LogInv'
  OBVIOUS
<1>1. CASE UNCHANGED toolsVars
  BY <1>1 DEF toolsVars, logVars, threadVars, LogInv, LogLine, LogComplete, InWindow, Lines, Running
<1> QED BY <1>1, LogLoop, LogUser, LogWorker DEF ToolsNext

(* Worker::log and drain: whatever the window's loop does between swapping *)
(* the queue out and appending it, no line of the present job is lost,     *)
(* doubled or out of order.                                                *)
THEOREM LogIsComplete == ToolsSpec => []LogComplete
<1>1. LogInv => LogComplete
  BY DEF LogInv, LogComplete
<1>2. ToolsSpec => []LogInv
  BY LogInit, LogNext, ToolsInvariant, PTL DEF ToolsSpec
<1> QED BY <1>1, <1>2, PTL

-----------------------------------------------------------------------------
(* The image.  While a load has yet to be committed the window has none,   *)
(* so no other job can have come in between, and the result is that of the *)
(* job the window remembers.                                               *)

LoadInv ==
  /\ (ready \/ pending.image # NoFile) =>
       job.kind = "load" /\ image = NoFile /\ pending.image \in {NoFile, job.path}
  /\ loop = "joining" =>
       ~Running /\ ~ready /\ pending.image = NoFile /\ (next.kind = "load" => image = NoFile)
  /\ (Running /\ job.kind = "load") => image = NoFile
  /\ job.at \in {"read", "check", "parse", "publish"} => job.kind = "load"

LEMMA LoadInit == ToolsInit => LoadInv
BY DEF ToolsInit, FreshState, LoadInv, NoResult, Running

LEMMA LoadKept ==
  ASSUME LoadInv, UNCHANGED <<image, pending, ready, job>>, loop' # "joining"
  PROVE  LoadInv'
BY DEF LoadInv, Running

(* start_load, and the start of another job, which needs an image. *)
LEMMA StartKept ==
  ASSUME ToolsInv, LoadInv, NEW kind \in Kind, NEW back \in {"events", "closing"},
         (kind = "load" /\ StartLoad(back)) \/ (kind # "load" /\ StartTool(kind, back) /\ UNCHANGED loadVars),
         UNCHANGED job
  PROVE  LoadInv'
<1>1. ~busy => ~Running
  BY DEF ToolsInv, ToolsTypeOK
<1> QED BY <1>1, LoadKept DEF StartLoad, StartTool, Prepare, loadVars, LoadInv, NoResult, Running

LEMMA LoadLoop ==
  ASSUME ToolsInv, LoadInv, LoopStep
  PROVE  LoadInv'
<1>1. CASE DroppedFile
  BY <1>1, StartKept DEF DroppedFile, Kind, threadVars
<1>2. CASE DrainSwap \/ DrainAppend \/ Look \/ AssignRange \/ Closing
  BY <1>2, LoadKept DEF DrainSwap, DrainAppend, Look, AssignRange, Closing, loadVars, threadVars
<1>3. CASE Commit
  <2>1. loop' = "look" /\ UNCHANGED job
    BY <1>3 DEF Commit, threadVars
  <2>2. CASE ~busy /\ ready
    <3>1. ready' = FALSE /\ pending' = NoResult /\ ~Running
      BY <1>3, <2>2 DEF Commit, Taken, ToolsInv, ToolsTypeOK
    <3> QED BY <2>1, <3>1 DEF LoadInv, NoResult, Running
  <2>3. CASE ~(~busy /\ ready)
    BY <1>3, <2>1, <2>3, LoadKept DEF Commit, loadVars
  <2> QED BY <2>2, <2>3
<1>4. CASE StartWorker
  <2>1. /\ job'.kind = next.kind /\ job'.at = "begin" /\ loop' \in {"events", "closing"}
        /\ UNCHANGED <<image, pending, ready>> /\ loop = "joining"
    BY <1>4 DEF StartWorker, loadVars, ToolsInv, RecordTypes
  <2> QED BY <2>1 DEF LoadInv, Running
<1>5. CASE LeaveLoop
  <2>1. /\ job'.kind = job.kind /\ job'.at = "none" /\ job'.path = job.path
        /\ UNCHANGED <<image, pending, ready, loop>> /\ loop = "closed"
    BY <1>5 DEF LeaveLoop, loadVars, ToolsInv, RecordTypes, Job
  <2> QED BY <2>1 DEF LoadInv, Running
<1> QED BY <1>1, <1>2, <1>3, <1>4, <1>5 DEF LoopStep

LEMMA LoadUser ==
  ASSUME ToolsInv, LoadInv, UserStep
  PROVE  LoadInv'
<1>1. CASE \/ DropFile \/ CloseWindow \/ AddImport \/ ShowRange
          \/ NoInput \/ TypePath \/ SetOption \/ PressCancel \/ PressQuit
  BY <1>1, AfterFrameType, LoadKept
  DEF DropFile, CloseWindow, AddImport, ShowRange, InFrame, NoInput, TypePath, SetOption, PressCancel, PressQuit,
      loadVars, threadVars
<1>2. CASE PressLoad
  BY <1>2, AfterFrameType, StartKept DEF PressLoad, Kind, threadVars
<1>3. ASSUME NEW kind \in Kind \ {"load"}, PressTool(kind) PROVE LoadInv'
  BY <1>3, AfterFrameType, StartKept DEF PressTool, threadVars
<1> QED BY <1>1, <1>2, <1>3 DEF UserStep

(* A job leaves the image alone; only run_load has a result, of its path.  *)
LEMMA LoadJob ==
  ASSUME ToolsInv, LoadInv, JobStep
  PROVE  LoadInv'
<1>1. /\ Running /\ Running' /\ job \in Job /\ UNCHANGED <<loop, image>> /\ loop # "joining"
  BY JobStepGoesOn DEF JobGoesOn, JobStep, LoadInv, ToolsInv, RecordTypes
<1>2. \A where : SayAndGoto(where) \/ Goto(where) =>
        job'.kind = job.kind /\ job'.path = job.path /\ job'.at = where
  BY <1>1 DEF SayAndGoto, Goto, Job
<1>3. \A why : Failed(why).image = NoFile
  BY DEF Failed
<1>4. CASE BeginLoad
  <2>1. PICK p \in PathsRead : Goto("publish") \/ job' = [job EXCEPT !.at = "read", !.path = p]
    BY <1>4 DEF BeginLoad
  <2>2. job'.kind = job.kind /\ job.kind = "load"
    BY <1>1, <1>2, <1>4, <2>1 DEF BeginLoad, Job
  <2>3. pending'.image = NoFile
    <3>1. pending' = NoResult \/ pending' = Failed("no file selected")
      BY <1>4 DEF BeginLoad
    <3>2. NoResult.image = NoFile /\ Failed("no file selected").image = NoFile
      BY DEF NoResult, Failed
    <3> QED BY <3>1, <3>2
  <2> QED BY <1>1, <2>2, <2>3 DEF LoadInv
<1>5. CASE ReadFile
  <2>1. job.kind = "load" /\ image = NoFile
    BY <1>1, <1>5 DEF ReadFile, At, LoadInv
  <2>2. job'.kind = job.kind /\ job'.path = job.path
    BY <1>2, <1>5 DEF ReadFile
  <2>3. pending' = pending \/ pending'.image = NoFile
    BY <1>3, <1>5 DEF ReadFile
  <2> QED BY <1>1, <2>1, <2>2, <2>3 DEF LoadInv
<1>6. CASE CheckCancelled
  <2>1. job.kind = "load" /\ image = NoFile
    BY <1>1, <1>6 DEF CheckCancelled, At, LoadInv
  <2>2. job'.kind = job.kind /\ job'.path = job.path
    BY <1>1, <1>2, <1>6 DEF CheckCancelled, Job
  <2>3. pending' = pending \/ pending'.image = NoFile
    BY <1>3, <1>6 DEF CheckCancelled
  <2> QED BY <1>1, <2>1, <2>2, <2>3 DEF LoadInv
<1>7. CASE Parse
  <2>1. job.kind = "load" /\ image = NoFile
    BY <1>1, <1>7 DEF Parse, At, LoadInv
  <2>2. job'.kind = job.kind /\ job'.path = job.path
    BY <1>2, <1>7 DEF Parse
  <2>3. pending'.image \in {NoFile, job.path}
    <3>1. pending' = [image |-> job.path, error |-> "none"] \/ pending' = Failed("cannot parse")
      BY <1>7 DEF Parse
    <3>2. Failed("cannot parse").image = NoFile
      BY DEF Failed
    <3>3. CASE pending' = [image |-> job.path, error |-> "none"]
      <4>1. pending'.image = job.path
        BY <3>3
      <4> QED BY <4>1
    <3> QED BY <3>1, <3>2, <3>3
  <2> QED BY <1>1, <2>1, <2>2, <2>3 DEF LoadInv
<1>8. CASE Publish
  <2>1. job.kind = "load" /\ image = NoFile
    BY <1>1, <1>8 DEF Publish, At, LoadInv
  <2>2. job'.kind = job.kind /\ job'.path = job.path /\ pending' = pending
    BY <1>2, <1>8 DEF Publish
  <2>3. pending.image \in {NoFile, job.path}
    BY DEF LoadInv
  <2> QED BY <1>1, <2>1, <2>2, <2>3 DEF LoadInv
<1>9. CASE BeginTool \/ Work \/ PollCancel
  <2>1. /\ job'.kind = job.kind /\ job'.path = job.path /\ job'.at \in {"work", "finish"}
        /\ UNCHANGED <<pending, ready>>
    BY <1>1, <1>2, <1>9 DEF BeginTool, Work, PollCancel, Job
  <2> QED BY <1>1, <2>1 DEF LoadInv
<1> QED BY <1>4, <1>5, <1>6, <1>7, <1>8, <1>9 DEF JobStep

LEMMA LoadNext == ToolsInv /\ LoadInv /\ [ToolsNext]_toolsVars => LoadInv'
<1> SUFFICES ASSUME ToolsInv, LoadInv, [ToolsNext]_toolsVars PROVE LoadInv'
  OBVIOUS
<1>1. CASE UNCHANGED toolsVars
  BY <1>1 DEF toolsVars, loadVars, frameVars, threadVars, LoadInv, Running
<1>2. CASE Finish \/ Return
  <2>1. /\ job'.kind = job.kind /\ job'.path = job.path /\ job'.at \in {"returning", "ended"}
        /\ UNCHANGED <<loop, frameVars, loadVars>>
    BY <1>2 DEF Finish, Return, Goto, ToolsInv, RecordTypes, Job
  <2>2. ~Running'
    BY <2>1 DEF Running
  <2> QED BY <2>1, <2>2 DEF LoadInv, loadVars, frameVars
<1> QED BY <1>1, <1>2, LoadLoop, LoadUser, LoadJob DEF ToolsNext, WorkerStep

(* start_load, run_load and the window's commit: the image changes only to *)
(* nothing, when a load is started, and to what the last load started came *)
(* to, when it is over; no result is committed twice or after another job. *)
THEOREM ImageIsOfTheLastLoad == ToolsSpec => ImageFollowsLoads
<1> DEFINE Follows ==
      image' # image =>
        \/ image' = NoFile /\ loop' = "joining" /\ next'.kind = "load"
        \/ job.kind = "load" /\ ~Running /\ image' \in {job.path, NoFile}
<1>1. ToolsInv /\ LoadInv /\ [ToolsNext]_toolsVars => Follows
  <2> SUFFICES ASSUME ToolsInv, LoadInv, [ToolsNext]_toolsVars, image' # image
               PROVE  \/ image' = NoFile /\ loop' = "joining" /\ next'.kind = "load"
                      \/ job.kind = "load" /\ ~Running /\ image' \in {job.path, NoFile}
    OBVIOUS
  <2>1. DroppedFile \/ PressLoad \/ Commit
    BY DEF ToolsNext, LoopStep, UserStep, WorkerStep, DrainSwap, DrainAppend, Look, AssignRange, StartWorker,
       Closing, LeaveLoop, DropFile, CloseWindow, AddImport, ShowRange, NoInput, TypePath, SetOption, PressTool, PressCancel,
       PressQuit, JobStep, Finish, Return, toolsVars, loadVars
  <2>2. CASE DroppedFile \/ PressLoad
    BY <2>2 DEF DroppedFile, PressLoad, StartLoad, Prepare, loadVars
  <2>3. CASE Commit
    <3>1. ~busy /\ ready /\ image' = pending.image
      BY <2>3 DEF Commit, loadVars
    <3> QED BY <3>1 DEF LoadInv, ToolsInv, ToolsTypeOK
  <2> QED BY <2>1, <2>2, <2>3
<1>2. ToolsSpec => []LoadInv
  BY LoadInit, LoadNext, ToolsInvariant, PTL DEF ToolsSpec
<1> QED
  BY <1>1, <1>2, ToolsInvariant, PTL DEF ToolsSpec, ImageFollowsLoads
=============================================================================
