------------------------------ MODULE Launcher ------------------------------
(***************************************************************************)
(* The launcher of a recompiled game, app/game-launcher/main.cpp: the      *)
(* window's thread, which opens and changes disc images and starts the     *)
(* game, the worker thread the game runs on, and the headless commands.    *)
(* What was read from a disc is named by the path of the disc it is of.    *)
(***************************************************************************)
EXTENDS Integers

CONSTANTS
  Path,       \* what a user may drop, pick or type
  Image,      \* those with the suffix of a disc image, .iso or .bin
  Depth,      \* how far opening each gets: 0 it is no disc, 1 no SYSTEM.CNF,
              \* 2 the boot file cannot be read, 3 it is no ELF, 4 all is well
  None

VARIABLES
  gui,        \* "open", "closing", "gone", "aborted"; headless "cli" and, ended, "done" or "failed"
  disc,       \* DiscState
  input,      \* the path in the input field
  bootFile,   \* boot.elf in the data directory, and whether that exists
  worker,     \* "none", "started", "running", "stopped" (with running FALSE), "ended"
  running,    \* the flag the two threads share
  game,       \* the worker's BootCopy, and the exit code
  settings,   \* the settings in the window and in their file
  shown       \* ghost: the path of the disc the window showed at the launch

discVars == <<disc, bootFile>>
gameVars == <<worker, running, game, shown>>
launcherVars == <<gui, input, discVars, gameVars, settings>>

NoDisc == [open |-> FALSE, path |-> None, boot |-> None, bytes |-> None, crc |-> None, image |-> None]

(* open_disc forgets the disc there was before it reads the new one.       *)
OpenDiscOver(st, p) ==
  LET orOld(n, old) == IF Depth[p] >= n THEN p ELSE old
  IN [open |-> st.open \/ Depth[p] = 4, path |-> p, boot |-> orOld(2, st.boot),
      bytes |-> orOld(3, st.bytes), crc |-> orOld(3, st.crc), image |-> orOld(4, st.image)]
OpenDisc(st, p) ==
  LET upTo(n) == IF Depth[p] >= n THEN p ELSE None
  IN [open |-> Depth[p] = 4, path |-> p, boot |-> upTo(2),
      bytes |-> upTo(3), crc |-> upTo(3), image |-> upTo(4)]

(* save_boot_elf makes the directory and writes the file, either of which  *)
(* may fail; what a failed write leaves is the old file or an empty one.   *)
SaveBootElf(st, saved) ==
  \E made \in BOOLEAN, left \in {None, bootFile.of} :
    /\ saved => made \/ bootFile.dir
    /\ bootFile' = [dir |-> made \/ bootFile.dir, of |-> IF saved THEN st.bytes ELSE left]

Open(p) ==
  /\ disc' = OpenDisc(disc, p)
  /\ IF disc'.open THEN \E saved \in BOOLEAN : SaveBootElf(disc', saved) ELSE UNCHANGED bootFile

(* The window's frame: events, the file browser's result, the buttons.     *)
Drop(p) ==
  /\ gui = "open" /\ input' = p /\ Open(p)
  /\ UNCHANGED <<gui, gameVars, settings>>

Browse(p) ==
  /\ gui = "open" /\ input' = p
  /\ IF p \in Image THEN Open(p) ELSE UNCHANGED discVars
  /\ UNCHANGED <<gui, gameVars, settings>>

Type(p) ==
  /\ gui = "open" /\ ~disc.open /\ input' = p
  /\ UNCHANGED <<gui, discVars, gameVars, settings>>

OpenButton ==
  /\ gui = "open" /\ ~disc.open /\ input # None /\ Open(input)
  /\ UNCHANGED <<gui, input, gameVars, settings>>

ChangeDisc ==
  /\ gui = "open" /\ disc.open /\ ~running /\ disc' = NoDisc
  /\ UNCHANGED <<gui, input, bootFile, gameVars, settings>>

(* A second launch assigns to a std::thread nobody joined: the process     *)
(* ends there, the new game with it.                                       *)
BootCopy == [name |-> disc.boot, crc |-> disc.crc, image |-> disc.image, exit |-> 0]
Launch ==
  /\ gui = "open" /\ disc.open /\ ~running
  /\ running' = TRUE /\ shown' = disc.path
  /\ \E saved \in BOOLEAN : SaveBootElf(disc, saved)
  /\ game' = BootCopy
  /\ IF worker = "none"
     THEN worker' = "started" /\ UNCHANGED gui
     ELSE worker' = "none" /\ gui' = "aborted"
  /\ UNCHANGED <<disc, input, settings>>

Close ==
  /\ gui = "open" /\ gui' = "closing"
  /\ UNCHANGED <<input, discVars, gameVars, settings>>

(* run_gui returns, and its GuiState dies, once the worker is joined.      *)
LeaveNow == gui = "closing" /\ gui' = "gone" /\ UNCHANGED <<input, discVars, gameVars, settings>>
Leave ==
  /\ gui = "closing" /\ worker \in {"none", "ended"} /\ gui' = "gone"
  /\ UNCHANGED <<input, discVars, gameVars, settings>>

(* Settings: the file is written when its directory is there, which only   *)
(* save_boot_elf makes; a missing file leaves the settings as they are.    *)
SetSetting(v) ==
  /\ gui = "open" /\ settings' = [settings EXCEPT !.window = v]
  /\ UNCHANGED <<gui, input, discVars, gameVars>>
SaveSettings ==
  /\ gui = "open"
  /\ settings' = IF bootFile.dir THEN [settings EXCEPT !.file = settings.window] ELSE settings
  /\ UNCHANGED <<gui, input, discVars, gameVars>>
LoadSettings(s) == IF s.file = None THEN s ELSE [s EXCEPT !.window = s.file]
Reload ==
  /\ gui = "open" /\ settings' = LoadSettings(settings)
  /\ UNCHANGED <<gui, input, discVars, gameVars>>

(* The worker: run_game, which loads the image and calls its entry, then   *)
(* the flag; the exit line is logged with nothing left to do but return.   *)
RunGame ==
  /\ worker = "started"
  /\ \/ worker' = "running" /\ UNCHANGED <<game, running>>
     \/ worker' = "stopped" /\ game' = [game EXCEPT !.exit = -1] /\ running' = FALSE
  /\ UNCHANGED <<gui, input, discVars, shown, settings>>

GameExits(code) ==
  /\ worker = "running" /\ worker' = "stopped"
  /\ game' = [game EXCEPT !.exit = code] /\ running' = FALSE
  /\ UNCHANGED <<gui, input, discVars, shown, settings>>

WorkerReturns ==
  /\ gui # "cli" /\ worker = "stopped" /\ worker' = "ended"
  /\ UNCHANGED <<gui, input, discVars, running, game, shown, settings>>

(* The headless commands do the same on the one thread they have.          *)
CliExtract(p) ==
  /\ gui = "cli" /\ worker = "none" /\ disc' = OpenDisc(NoDisc, p)
  /\ \E saved \in BOOLEAN :
       /\ IF disc'.open THEN SaveBootElf(disc', saved) ELSE ~saved /\ UNCHANGED bootFile
       /\ gui' = IF saved THEN "done" ELSE "failed"
  /\ UNCHANGED <<input, gameVars, settings>>

CliRun(p) ==
  /\ gui = "cli" /\ worker = "none" /\ disc' = OpenDisc(NoDisc, p)
  /\ IF disc'.open
     THEN /\ game' = [name |-> disc'.boot, crc |-> disc'.crc, image |-> disc'.image, exit |-> 0]
          /\ worker' = "started" /\ shown' = p /\ UNCHANGED <<gui, running>>
     ELSE gui' = "failed" /\ UNCHANGED gameVars
  /\ UNCHANGED <<input, bootFile, settings>>

CliExit ==
  /\ gui = "cli" /\ worker = "stopped" /\ worker' = "ended"
  /\ gui' = IF game.exit = 0 THEN "done" ELSE "failed"
  /\ UNCHANGED <<input, discVars, running, game, shown, settings>>

CliCommands == (\E p \in Path : CliExtract(p) \/ CliRun(p)) \/ CliExit

LauncherInit ==
  /\ gui \in {"open", "cli"} /\ disc = NoDisc /\ input \in Path \union {None}
  /\ bootFile \in [dir : {FALSE}, of : {None}] \union [dir : {TRUE}, of : {None} \union Image]
  /\ worker = "none" /\ running = FALSE /\ shown = None
  /\ game = [name |-> None, crc |-> None, image |-> None, exit |-> 0]
  /\ settings = [window |-> "default", file |-> None]

LauncherNext ==
  \/ \E p \in Path : Drop(p) \/ Browse(p) \/ Type(p)
  \/ OpenButton \/ ChangeDisc \/ Launch \/ Close \/ Leave
  \/ \E v \in {"default", "other"} : SetSetting(v)
  \/ SaveSettings \/ Reload
  \/ CliCommands
  \/ RunGame \/ WorkerReturns \/ \E code \in {0, 1} : GameExits(code)

LauncherSpec == LauncherInit /\ [][LauncherNext]_launcherVars

-----------------------------------------------------------------------------
(* Whatever is dropped on the window, opened or given up in the meantime,  *)
(* the game that runs is, image, boot name and checksum (by which its      *)
(* overrides are chosen), that of the disc the window showed when it was   *)
(* launched.                                                               *)
GameIsTheDiscShown ==
  worker # "none" => game.name = shown /\ game.crc = shown /\ game.image = shown /\ Depth[shown] = 4

(* The worker writes into the window's state until it has returned: that   *)
(* state outlives it, however the window is closed.                        *)
WorkerHasAWindow == worker \in {"started", "running", "stopped"} => gui \in {"open", "closing", "cli"}
=============================================================================
