------------------------------ MODULE EETools ------------------------------
(***************************************************************************)
(* ee-tools (src/app/ee-tools/main.cpp): the window's thread and the one   *)
(* worker thread that loads, disassembles, analyses and recompiles.        *)
(*                                                                         *)
(* The window's loop polls events, moves log lines, commits a finished     *)
(* load and draws a frame, in which the user does one thing.  What the     *)
(* widgets show is abstracted to whether they are enabled.                 *)
(***************************************************************************)
EXTENDS Naturals, Sequences, SequencesExt

CONSTANTS
  File,       \* paths
  Loadable,   \* those that hold an ELF, or a disc image with one
  Text,       \* what the boxes of the Disassemble tab may hold
  MaxJobs,    \* jobs the user starts
  MaxLines    \* lines a job logs while it works

ASSUME FileAssumption == Loadable \subseteq File
ASSUME JobAssumption == MaxJobs \in Nat /\ MaxLines \in Nat

NoFile == "no file"
Torn == "torn"      \* what is being assigned a new value
ASSUME PathAssumption == {NoFile, Torn} \cap File = {}
ASSUME TextAssumption == Torn \notin Text

VARIABLES
  loop,       \* where the window's thread is
  quit,
  shownBusy,  \* the frame's copy of busy
  next,       \* the job being started, and where the thread goes on then
  path,       \* elf_path
  image,      \* the file the loaded ELF is from
  error,      \* load_error
  text,       \* start_buf, end_buf and the box of the section
  range,      \* range_start, range_end and section_name
  options,    \* use_range, the imports and the other inputs of the jobs
  pending,    \* pending_load
  ready,      \* load_result_ready
  busy, cancel,
  job,        \* the worker's thread, with what its job has done so far
  logq,       \* lines logged and not yet moved: job, number
  chunk,      \* lines being moved
  printed,    \* history: the last line moved to the window
  asked       \* history: the user asked to cancel the present job, or to quit

rangeVars == <<text, range>>
inputVars == <<path, text, range, options>>
loadVars == <<image, error, pending, ready>>
logVars == <<logq, chunk, printed>>
threadVars == <<busy, job>>
cancelVars == <<cancel, asked>>
frameVars == <<quit, shownBusy, next>>
toolsVars == <<loop, frameVars, inputVars, loadVars, logVars, threadVars, cancelVars>>

(* What a job does, and what a load comes to. *)
Kind == {"load", "disasm", "analyze", "recomp"}
NoResult == [image |-> NoFile, error |-> "none"]
Failed(why) == [image |-> NoFile, error |-> why]

(* Everything but the place of the window's thread. *)
FreshState ==
  /\ quit = FALSE
  /\ shownBusy = FALSE
  /\ next = [kind |-> "none", back |-> "events"]
  /\ path = NoFile
  /\ text \in Text
  /\ range = text
  /\ options = FALSE
  /\ image = NoFile
  /\ error = "none"
  /\ pending = NoResult
  /\ ready = FALSE
  /\ busy = FALSE
  /\ cancel = FALSE
  /\ job = [no |-> 0, kind |-> "none", at |-> "none", path |-> NoFile, said |-> 0, cancelled |-> FALSE]
  /\ logq = <<>>
  /\ chunk = <<>>
  /\ printed = [job |-> 0, line |-> 0]
  /\ asked = FALSE

ToolsInit == loop = "events" /\ FreshState

MayStart == job.no < MaxJobs

-----------------------------------------------------------------------------
(* Worker::start, in two parts: the second once the old thread is joined.  *)

(* Mutant of Prepare: a request to cancel is left from the last job. *)
PrepareUncleared(kind, back) ==
  /\ cancel' = cancel
  /\ logq' = <<>>
  /\ next' = [kind |-> kind, back |-> back]
  /\ loop' = "joining"

Prepare(kind, back) ==
  /\ cancel' = FALSE
  /\ logq' = <<>>
  /\ next' = [kind |-> kind, back |-> back]
  /\ loop' = "joining"

StartWorker ==
  /\ loop = "joining"
  /\ job.at \in {"none", "ended"}
  /\ busy' = TRUE
  /\ job' = [no |-> job.no + 1, kind |-> next.kind, at |-> "begin", path |-> NoFile, said |-> 0,
             cancelled |-> FALSE]
  /\ asked' = FALSE
  /\ loop' = next.back
  /\ UNCHANGED <<frameVars, inputVars, loadVars, logVars, cancel>>

(* Mutant of StartLoad: a load does not wait for the job that runs. *)
StartLoadAnyway(back) ==
  /\ image' = NoFile
  /\ error' = "none"
  /\ pending' = NoResult
  /\ ready' = FALSE
  /\ Prepare("load", back)

(* start_load *)
StartLoad(back) ==
  IF busy
  THEN loop' = back /\ UNCHANGED <<loadVars, cancel, logq, next>>
  ELSE /\ image' = NoFile
       /\ error' = "none"
       /\ pending' = NoResult
       /\ ready' = FALSE
       /\ Prepare("load", back)

(* start_disasm, start_analyze, start_recomp.  Without an image the line   *)
(* "load an ELF first" is logged, which is no job's.                       *)
StartTool(kind, back) ==
  IF busy \/ image = NoFile
  THEN loop' = back /\ UNCHANGED <<cancel, logq, next>>
  ELSE Prepare(kind, back)

-----------------------------------------------------------------------------
(* One pass of the window's loop. *)

(* A file is dropped on the window, or comes from the browser, whether or  *)
(* not a job runs: the path is assigned to, and then a load started.       *)
DropFile ==
  /\ loop = "events"
  /\ MayStart
  /\ path' = Torn
  /\ loop' = "dropping"
  /\ UNCHANGED <<frameVars, rangeVars, options, loadVars, logVars, threadVars, cancelVars>>
DroppedFile ==
  /\ loop = "dropping"
  /\ \E f \in File : path' = f
  /\ StartLoad("events")
  /\ UNCHANGED <<quit, shownBusy, rangeVars, options, chunk, printed, threadVars, asked>>

CloseWindow ==
  /\ loop = "events"
  /\ quit' = TRUE
  /\ UNCHANGED <<loop, shownBusy, next, inputVars, loadVars, logVars, threadVars, cancelVars>>

(* A file to import comes from the browser. *)
AddImport ==
  /\ loop = "events"
  /\ ~busy
  /\ options' = ~options
  /\ UNCHANGED <<loop, frameVars, path, rangeVars, loadVars, logVars, threadVars, cancelVars>>

(* Worker::drain: the queue is swapped out under the lock. *)
DrainSwap ==
  /\ loop = "events"
  /\ chunk' = logq
  /\ logq' = <<>>
  /\ loop' = "drain"
  /\ UNCHANGED <<frameVars, inputVars, loadVars, printed, threadVars, cancelVars>>

(* Mutant of DrainAppend: the queue is emptied once more. *)
DrainAppendClearing ==
  /\ loop = "drain"
  /\ printed' = IF chunk = <<>> THEN printed ELSE Last(chunk)
  /\ chunk' = <<>>
  /\ logq' = <<>>
  /\ loop' = "commit"
  /\ UNCHANGED <<frameVars, inputVars, loadVars, threadVars, cancelVars>>

DrainAppend ==
  /\ loop = "drain"
  /\ printed' = IF chunk = <<>> THEN printed ELSE Last(chunk)
  /\ chunk' = <<>>
  /\ loop' = "commit"
  /\ UNCHANGED <<frameVars, inputVars, loadVars, logq, threadVars, cancelVars>>

(* Mutant of Taken: the result stays marked as ready. *)
TakenAgain == ready

(* load_result_ready once a result is committed *)
Taken == FALSE

(* A finished load is committed, and the frame looks whether a job runs. *)
Commit ==
  /\ loop = "commit"
  /\ IF ~busy /\ ready
     THEN /\ ready' = Taken
          /\ image' = pending.image
          /\ error' = pending.error
          /\ pending' = NoResult
     ELSE UNCHANGED loadVars
  /\ loop' = "look"
  /\ UNCHANGED <<frameVars, inputVars, logVars, threadVars, cancelVars>>
Look ==
  /\ loop = "look"
  /\ shownBusy' = busy
  /\ loop' = "frame"
  /\ UNCHANGED <<quit, next, inputVars, loadVars, logVars, threadVars, cancelVars>>

AfterFrame == IF quit THEN "closing" ELSE "events"

(* A frame that shows the Disassemble tab lets the user type into its      *)
(* boxes, unless they are disabled, and then assigns what they hold to the *)
(* inputs of run_disasm, whether or not a job runs.  An assignment of a    *)
(* new value takes effect in parts; that of the value they have, which     *)
(* stores the same bytes in place, shows a reader nothing else.            *)
Assign == range' = IF text' = range THEN range ELSE Torn

(* Mutant of ShowRange: the boxes are not disabled while a job runs. *)
ShowRangeEnabled ==
  /\ loop = "frame"
  /\ text' \in Text
  /\ Assign
  /\ loop' = "assigning"
  /\ UNCHANGED <<frameVars, path, options, loadVars, logVars, threadVars, cancelVars>>

ShowRange ==
  /\ loop = "frame"
  /\ text' \in IF shownBusy THEN {text} ELSE Text
  /\ Assign
  /\ loop' = "assigning"
  /\ UNCHANGED <<frameVars, path, options, loadVars, logVars, threadVars, cancelVars>>
AssignRange ==
  /\ loop = "assigning"
  /\ range' = text
  /\ loop' = "assigned"
  /\ UNCHANGED <<frameVars, path, text, options, loadVars, logVars, threadVars, cancelVars>>

(* What else the user does in a frame: nothing, type a path, change an     *)
(* option, start a job, cancel one, quit.  (Some of it comes before the    *)
(* assignments in the code; they do not touch the same variables.)         *)
InFrame == loop \in {"frame", "assigned"}
NoInput ==
  /\ InFrame
  /\ loop' = AfterFrame
  /\ UNCHANGED <<frameVars, inputVars, loadVars, logVars, threadVars, cancelVars>>
TypePath ==
  /\ InFrame /\ ~shownBusy
  /\ path' \in File \union {NoFile}
  /\ loop' = AfterFrame
  /\ UNCHANGED <<frameVars, rangeVars, options, loadVars, logVars, threadVars, cancelVars>>
SetOption ==
  /\ InFrame /\ ~shownBusy
  /\ options' = ~options
  /\ loop' = AfterFrame
  /\ UNCHANGED <<frameVars, path, rangeVars, loadVars, logVars, threadVars, cancelVars>>
PressLoad ==
  /\ InFrame /\ ~shownBusy /\ MayStart
  /\ StartLoad(AfterFrame)
  /\ UNCHANGED <<quit, shownBusy, inputVars, chunk, printed, threadVars, asked>>
PressTool(kind) ==
  /\ loop = IF kind = "disasm" THEN "assigned" ELSE "frame"
  /\ ~shownBusy /\ MayStart
  /\ StartTool(kind, AfterFrame)
  /\ UNCHANGED <<quit, shownBusy, inputVars, loadVars, chunk, printed, threadVars, asked>>
PressCancel ==
  /\ InFrame /\ shownBusy
  /\ cancel' = TRUE
  /\ asked' = TRUE
  /\ loop' = AfterFrame
  /\ UNCHANGED <<frameVars, inputVars, loadVars, logVars, threadVars>>
PressQuit ==
  /\ InFrame
  /\ quit' = TRUE
  /\ loop' = "closing"
  /\ UNCHANGED <<shownBusy, next, inputVars, loadVars, logVars, threadVars, cancelVars>>

(* The loop is over: the job is asked to stop, and joined. *)
Closing ==
  /\ loop = "closing"
  /\ cancel' = TRUE
  /\ asked' = TRUE
  /\ loop' = "closed"
  /\ UNCHANGED <<frameVars, inputVars, loadVars, logVars, threadVars>>
LeaveLoop ==
  /\ loop = "closed"
  /\ job.at = "ended"
  /\ job' = [job EXCEPT !.at = "none"]
  /\ UNCHANGED <<loop, frameVars, inputVars, loadVars, logVars, busy, cancelVars>>

-----------------------------------------------------------------------------
(* The worker's thread. *)

At(where) == job.at = where
Goto(where) == job' = [job EXCEPT !.at = where]
SayAndGoto(where) ==
  /\ job' = [job EXCEPT !.at = where, !.said = @ + 1]
  /\ logq' = Append(logq, [job |-> job.no, line |-> job.said + 1])

(* A read of the path while the window assigns to it returns anything. *)
PathsRead == IF path = Torn THEN File \union {Torn} ELSE {path}

(* run_load: a disc image is read with a line logged at each stage. *)
BeginLoad ==
  /\ At("begin") /\ job.kind = "load"
  /\ \E p \in PathsRead :
       IF p = NoFile
       THEN pending' = Failed("no file selected") /\ Goto("publish")
       ELSE pending' = NoResult /\ job' = [job EXCEPT !.at = "read", !.path = p]
  /\ UNCHANGED <<logq, ready>>
ReadFile ==
  /\ At("read")
  /\ \/ job.said < MaxLines /\ SayAndGoto("read") /\ UNCHANGED pending
     \/ Goto("check") /\ UNCHANGED <<logq, pending>>
     \/ job.path \notin Loadable /\ pending' = Failed("cannot read") /\ Goto("publish") /\ UNCHANGED logq
  /\ UNCHANGED ready
CheckCancelled ==
  /\ At("check")
  /\ IF cancel
     THEN pending' = Failed("cancelled") /\ job' = [job EXCEPT !.at = "publish", !.cancelled = TRUE]
     ELSE Goto("parse") /\ UNCHANGED pending
  /\ UNCHANGED <<logq, ready>>
Parse ==
  /\ At("parse")
  /\ IF job.path \in Loadable
     THEN pending' = [image |-> job.path, error |-> "none"] /\ SayAndGoto("publish")
     ELSE pending' = Failed("cannot parse") /\ Goto("publish") /\ UNCHANGED logq
  /\ UNCHANGED ready

(* Mutant of Published: the window is not told. *)
PublishedNot == ready
Published == TRUE
Publish ==
  /\ At("publish")
  /\ ready' = Published
  /\ Goto("finish")
  /\ UNCHANGED <<logq, pending>>

(* run_disasm, run_analyze and run_recomp: they work on, logging, and look *)
(* now and then whether they are cancelled.                                *)
BeginTool ==
  /\ At("begin") /\ job.kind # "load"
  /\ IF image = NoFile THEN SayAndGoto("finish") ELSE SayAndGoto("work")
  /\ UNCHANGED <<pending, ready>>
Work ==
  /\ At("work")
  /\ job.said < MaxLines
  /\ SayAndGoto("work")
  /\ UNCHANGED <<pending, ready>>
PollCancel ==
  /\ At("work")
  /\ IF cancel
     THEN /\ job' = [job EXCEPT !.at = "finish", !.said = @ + 1, !.cancelled = TRUE]
          /\ logq' = Append(logq, [job |-> job.no, line |-> job.said + 1])
     ELSE Goto("finish") /\ UNCHANGED logq
  /\ UNCHANGED <<pending, ready>>

JobStep ==
  /\ \/ BeginLoad \/ ReadFile \/ CheckCancelled \/ Parse \/ Publish
     \/ BeginTool \/ Work \/ PollCancel
  /\ UNCHANGED <<loop, frameVars, inputVars, image, error, chunk, printed, busy, cancelVars>>

Finish ==
  /\ At("finish")
  /\ busy' = FALSE
  /\ Goto("returning")
  /\ UNCHANGED <<loop, frameVars, inputVars, loadVars, logVars, cancelVars>>
Return ==
  /\ At("returning")
  /\ Goto("ended")
  /\ UNCHANGED <<loop, frameVars, inputVars, loadVars, logVars, busy, cancelVars>>

-----------------------------------------------------------------------------

LoopStep ==
  \/ DroppedFile \/ DrainSwap \/ DrainAppend \/ Commit \/ Look \/ AssignRange
  \/ StartWorker \/ Closing \/ LeaveLoop
UserStep ==
  \/ DropFile \/ CloseWindow \/ AddImport \/ ShowRange
  \/ NoInput \/ TypePath \/ SetOption \/ PressLoad \/ PressCancel \/ PressQuit
  \/ \E kind \in Kind \ {"load"} : PressTool(kind)
WorkerStep == JobStep \/ Finish \/ Return

ToolsNext == LoopStep \/ UserStep \/ WorkerStep

(* The loop goes round, whatever the user does in a frame, the queue of    *)
(* events gets empty, and the worker's thread runs.                        *)
ToolsFairness ==
  /\ SF_toolsVars(DrainSwap)
  /\ WF_toolsVars(loop # "events" /\ LoopStep)
  /\ WF_toolsVars(InFrame /\ UserStep)
  /\ WF_toolsVars(WorkerStep)

ToolsSpec == ToolsInit /\ [][ToolsNext]_toolsVars
FairToolsSpec == ToolsSpec /\ ToolsFairness

-----------------------------------------------------------------------------
(* Properties. *)

Running == job.at \notin {"none", "returning", "ended"}

(* Every variable has its type, and busy is set for just as long as a job  *)
(* is not done: Worker::start and the thread it starts agree.              *)
ToolsTypeOK ==
  /\ loop \in {"events", "dropping", "drain", "commit", "look", "frame", "assigning",
             "assigned", "joining", "closing", "closed"}
  /\ {quit, shownBusy, options, ready, busy, cancel, asked} \subseteq BOOLEAN
  /\ path \in File \union {NoFile, Torn}
  /\ text \in Text
  /\ range \in Text \union {Torn}
  /\ {image, pending.image} \subseteq Loadable \union {NoFile}
  /\ job.no \in 0..MaxJobs
  /\ busy <=> Running

(* The jobs read the image and the options without a lock.  While one      *)
(* that reads them runs, they keep their values, even those that the       *)
(* window goes on assigning to in every frame, and none is half assigned.  *)
(* (The window does change the path, in DropFile, which run_load and       *)
(* run_recomp read as well.)                                               *)
InputsHeld ==
  [][(Running /\ job.kind # "load") =>
       range # Torn /\ UNCHANGED <<image, options, range>>]_toolsVars

(* The image comes from the load that was started last, and goes only when *)
(* another load is started: no result is committed twice, or too late.     *)
ImageFollowsLoads ==
  [][image' # image =>
       \/ image' = NoFile /\ loop' = "joining" /\ next'.kind = "load"
       \/ job.kind = "load" /\ ~Running /\ image' \in {job.path, NoFile}]_toolsVars

(* A job gives up only if the user asked to cancel that job, or to quit: a *)
(* press of Cancel that comes too late does not reach the next job.        *)
CancelReachesOneJob == job.cancelled => asked

(* The lines m + 1 to k of job no. *)
Lines(no, m, k) == [i \in 1..(k - m) |-> [job |-> no, line |-> m + i]]
InWindow == IF printed.job = job.no THEN printed.line ELSE 0

(* "Move pending log lines": while a job runs, each line it has logged is  *)
(* in the window, or on its way there, once and in order, and no line of   *)
(* an earlier job comes after them.                                        *)
LogComplete == Running => chunk \o logq = Lines(job.no, InWindow, job.said)

(* A load that was started ends with an image or a message in the window,  *)
(* unless the window is closed first.                                      *)
LoadEnds ==
  (busy /\ job.kind = "load") ~> (image # NoFile \/ error # "none" \/ loop = "closed")
=============================================================================
