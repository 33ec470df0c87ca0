--------------------------- MODULE LauncherProofs ---------------------------
(***************************************************************************)
(* For any discs and files, however deep opening each of them gets: the    *)
(* game is that of the disc shown, and it never outlives the window.       *)
(***************************************************************************)
EXTENDS Launcher, TLAPS

(* What open_disc leaves behind as open is of one disc, and all of it.     *)
DiscWhole == disc.open => /\ disc.boot = disc.path /\ disc.crc = disc.path /\ disc.image = disc.path
                          /\ Depth[disc.path] = 4

GameIsABootCopy == game = [name |-> game.name, crc |-> game.crc, image |-> game.image, exit |-> game.exit]

LauncherInv == DiscWhole /\ GameIsABootCopy /\ GameIsTheDiscShown /\ WorkerHasAWindow

LEMMA OpenDiscWhole ==
  ASSUME NEW st, NEW p, OpenDisc(st, p).open
  PROVE  /\ OpenDisc(st, p).path = p /\ OpenDisc(st, p).boot = p /\ OpenDisc(st, p).crc = p
         /\ OpenDisc(st, p).image = p /\ Depth[p] = 4
<1>1. Depth[p] = 4
  BY DEF OpenDisc
<1> QED
  BY <1>1 DEF OpenDisc

LEMMA LauncherInitInv == LauncherInit => LauncherInv
BY DEF LauncherInit, LauncherInv, DiscWhole, NoDisc, GameIsABootCopy, GameIsTheDiscShown, WorkerHasAWindow

LEMMA OpenKeepsWhole ==
  ASSUME NEW p, Open(p)
  PROVE  DiscWhole'
BY OpenDiscWhole DEF Open, DiscWhole

(* What only opens, types, chooses or closes leaves the game alone.        *)
LEMMA GameUntouched ==
  ASSUME LauncherInv, UNCHANGED gameVars
  PROVE  GameIsABootCopy' /\ GameIsTheDiscShown'
BY DEF LauncherInv, GameIsABootCopy, GameIsTheDiscShown, gameVars

LEMMA LauncherNextInv == LauncherInv /\ [LauncherNext]_launcherVars => LauncherInv'
<1> SUFFICES ASSUME LauncherInv, [LauncherNext]_launcherVars
             PROVE  LauncherInv'
  OBVIOUS
<1>1. CASE \E p \in Path : Drop(p) \/ Browse(p) \/ Type(p)
  <2>1. PICK p \in Path : Drop(p) \/ Browse(p) \/ Type(p)
    BY <1>1
  <2>2. UNCHANGED gameVars /\ gui = "open" /\ gui' = gui
    BY <2>1 DEF Drop, Browse, Type
  <2>3. Open(p) \/ UNCHANGED disc
    BY <2>1 DEF Drop, Browse, Type, discVars
  <2>4. DiscWhole'
    BY <2>3, OpenKeepsWhole DEF LauncherInv, DiscWhole
  <2> QED
    BY <2>2, <2>4, GameUntouched DEF LauncherInv, WorkerHasAWindow, gameVars
<1>2. CASE OpenButton
  <2>1. UNCHANGED gameVars /\ gui' = gui /\ Open(input)
    BY <1>2 DEF OpenButton
  <2>2. DiscWhole'
    BY <2>1, OpenKeepsWhole
  <2> QED
    BY <2>1, <2>2, GameUntouched DEF LauncherInv, WorkerHasAWindow, gameVars
<1>3. CASE ChangeDisc
  <2>1. UNCHANGED gameVars /\ gui' = gui /\ ~disc'.open
    BY <1>3 DEF ChangeDisc, NoDisc
  <2> QED
    BY <2>1, GameUntouched DEF LauncherInv, WorkerHasAWindow, DiscWhole, gameVars
<1>4. CASE Launch
  <2>1. disc.open /\ disc' = disc /\ shown' = disc.path /\ game' = BootCopy /\ gui = "open"
    BY <1>4 DEF Launch
  <2>2. game'.name = disc.boot /\ game'.crc = disc.crc /\ game'.image = disc.image /\ GameIsABootCopy'
    BY <2>1 DEF BootCopy, GameIsABootCopy
  <2>3. DiscWhole' /\ GameIsTheDiscShown'
    BY <2>1, <2>2 DEF LauncherInv, DiscWhole, GameIsTheDiscShown
  <2>4. WorkerHasAWindow'
    BY <1>4, <2>1 DEF Launch, WorkerHasAWindow
  <2> QED
    BY <2>2, <2>3, <2>4 DEF LauncherInv
<1>5. CASE Close \/ Leave
  <2>1. UNCHANGED <<discVars, gameVars>>
    BY <1>5 DEF Close, Leave
  <2>2. WorkerHasAWindow'
    BY <1>5 DEF Close, Leave, LauncherInv, WorkerHasAWindow, gameVars
  <2> QED
    BY <2>1, <2>2, GameUntouched DEF LauncherInv, DiscWhole, discVars
<1>6. CASE (\E v \in {"default", "other"} : SetSetting(v)) \/ SaveSettings \/ Reload
  <2>1. UNCHANGED <<gui, discVars, gameVars>>
    BY <1>6 DEF SetSetting, SaveSettings, Reload
  <2> QED
    BY <2>1, GameUntouched DEF LauncherInv, DiscWhole, WorkerHasAWindow, discVars, gameVars
<1>7. CASE RunGame \/ (\E code \in {0, 1} : GameExits(code)) \/ WorkerReturns
  <2>1. UNCHANGED <<gui, discVars, shown>> /\ worker \in {"started", "running", "stopped"}
    BY <1>7 DEF RunGame, GameExits, WorkerReturns
  <2>2. game'.name = game.name /\ game'.crc = game.crc /\ game'.image = game.image /\ GameIsABootCopy'
    <3>1. \/ game' = game
          \/ \E code : game' = [name |-> game.name, crc |-> game.crc, image |-> game.image, exit |-> code]
      BY <1>7 DEF RunGame, GameExits, WorkerReturns, LauncherInv, GameIsABootCopy
    <3> QED
      BY <3>1 DEF LauncherInv, GameIsABootCopy
  <2>3. worker' \in {"running", "stopped", "ended"}
    BY <1>7 DEF RunGame, GameExits, WorkerReturns
  <2> QED
    BY <2>1, <2>2, <2>3 DEF LauncherInv, DiscWhole, GameIsTheDiscShown, WorkerHasAWindow, discVars
<1>8. CASE \E p \in Path : CliExtract(p)
  <2>1. PICK p \in Path : CliExtract(p)
    BY <1>8
  <2>2. disc' = OpenDisc(NoDisc, p) /\ UNCHANGED gameVars /\ worker = "none"
    BY <2>1 DEF CliExtract
  <2>3. DiscWhole'
    BY <2>2, OpenDiscWhole DEF DiscWhole
  <2> QED
    BY <2>2, <2>3, GameUntouched DEF LauncherInv, WorkerHasAWindow, gameVars
<1>9. CASE \E p \in Path : CliRun(p)
  <2>1. PICK p \in Path : CliRun(p)
    BY <1>9
  <2>2. disc' = OpenDisc(NoDisc, p) /\ gui = "cli" /\ worker = "none"
    BY <2>1 DEF CliRun
  <2>3. DiscWhole'
    BY <2>2, OpenDiscWhole DEF DiscWhole
  <2>4. CASE disc'.open
    <3>1. shown' = p /\ worker' = "started" /\ gui' = gui
      BY <2>1, <2>4 DEF CliRun
    <3>2. game'.name = disc'.boot /\ game'.crc = disc'.crc /\ game'.image = disc'.image /\ GameIsABootCopy'
      BY <2>1, <2>4 DEF CliRun, GameIsABootCopy
    <3>3. disc'.boot = p /\ disc'.crc = p /\ disc'.image = p /\ Depth[p] = 4
      BY <2>2, <2>4, OpenDiscWhole
    <3> QED
      BY <2>2, <2>3, <3>1, <3>2, <3>3 DEF LauncherInv, GameIsTheDiscShown, WorkerHasAWindow
  <2>5. CASE ~disc'.open
    <3>1. UNCHANGED gameVars
      BY <2>1, <2>5 DEF CliRun
    <3> QED
      BY <2>2, <2>3, <3>1, GameUntouched DEF LauncherInv, WorkerHasAWindow, gameVars
  <2> QED
    BY <2>4, <2>5
<1>10. CASE CliExit
  <2>1. UNCHANGED <<discVars, game, shown>> /\ worker = "stopped" /\ worker' = "ended"
    BY <1>10 DEF CliExit
  <2> QED
    BY <2>1 DEF LauncherInv, DiscWhole, GameIsABootCopy, GameIsTheDiscShown, WorkerHasAWindow, discVars
<1>11. CASE UNCHANGED launcherVars
  BY <1>11 DEF launcherVars, discVars, gameVars, LauncherInv, DiscWhole, GameIsABootCopy,
               GameIsTheDiscShown, WorkerHasAWindow
<1> QED
  BY <1>1, <1>2, <1>3, <1>4, <1>5, <1>6, <1>7, <1>8, <1>9, <1>10, <1>11 DEF LauncherNext, CliCommands

(* The game that runs is the one whose disc the window showed at the       *)
(* launch (Launch, BootCopy and open_disc in game-launcher/main.cpp).      *)
THEOREM GameIsTheDiscShownAlways == LauncherSpec => []GameIsTheDiscShown
<1>1. LauncherInv => GameIsTheDiscShown
  BY DEF LauncherInv
<1> QED
  BY <1>1, LauncherInitInv, LauncherNextInv, PTL DEF LauncherSpec

(* The worker's references into GuiState stay good: run_gui joins it.      *)
THEOREM WorkerHasAWindowAlways == LauncherSpec => []WorkerHasAWindow
<1>1. LauncherInv => WorkerHasAWindow
  BY DEF LauncherInv
<1> QED
  BY <1>1, LauncherInitInv, LauncherNextInv, PTL DEF LauncherSpec
=============================================================================
