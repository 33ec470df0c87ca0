------------------------------ MODULE MCParts -----------------------------
(***************************************************************************)
(* Instances for TLC of the parts that run by themselves: EEVector,        *)
(* EEArithmetic, EEDevices under DevicePrograms, Launcher and EETools.  A  *)
(* behaviour exercises one of them.                                        *)
(***************************************************************************)
EXTENDS VectorPrograms, EEArithmetic, DevicePrograms, Launcher, EETools

VARIABLE part     \* the part that runs

otherVars == <<vectorVars, idiomVars, arithmeticVars, deviceVars, programVars, launcherVars>>
vars == <<part, otherVars, toolsVars>>

(* Devices: three packets for VIF1 or the GIF, along each shape of chain.  *)
Gifs ==
  {GifPacket("packed", 2, <<"rgbaq", "nop", "xyz2">>, TRUE), GifPacket("reglist", 2, <<"uv", "st">>, FALSE),
         GifPacket("image", 2, <<"image">>, FALSE)}
Vifs ==
  {VifPacket("strow", 0, 7, 0), VifPacket("stmask", 0, 7, 0),
         VifPacket("mpg", 2, 3, 0), VifPacket("unpack", 2, 5, 4), VifPacket("unpack", 3, 5, 1), VifPacket("mscal", 0, 3, 0)}
        \union {Direct(g) : g \in Gifs} \union {VifPacket("junk", 0, 0, 0)}
Shapes == {"straight", "linked", "called", "nested"}
Mark == VifPacket("mark", 0, 7, 0)
Widest == VifPacket("unpack", 3, 5, 4)

DevicesInit ==
  \/ \E p, q, s \in Vifs : ProgramInit(1, "chain", "straight", <<p, q, s, q>>)
  \/ \E form \in Shapes : \E p, q \in Vifs : ProgramInit(1, "chain", form, <<p, q, p, q>>)
  \/ \E form \in Shapes : \E p, q, s \in Gifs : ProgramInit(2, "chain", form, <<p, q, s, q>>)
  \/ \E c \in {1, 2} : \E p, q \in IF c = 1 THEN Vifs ELSE Gifs : ProgramInit(c, "normal", "straight", <<p, q, p, p>>)
  \/ \E form \in {"straight", "nested"}, m, n \in DOMAIN MicroPrograms :
       ProgramInit(1, "chain", form, <<Micro(m), VifPacket("unpack", 3, 5, 1), Micro(n), Mark>>)
  \/ \E form \in {"deep", "wide"} : \E p \in Vifs : ProgramInit(1, "chain", form, <<p, Mark, Widest, p>>)
  \/ \E form \in {"deep", "wide"} : \E p \in Gifs : ProgramInit(2, "chain", form, <<p, p, p, p>>)
  \/ ProgramInit(1, "chain", "looping", <<Mark, Mark, Mark, Mark>>)
DevicesQuiet == ProgramInit(1, "normal", "straight", <<Mark, Mark, Mark, Mark>>)

(* Vectors: every byte of memory and of the registers is another one; lane *)
(* by lane, registers 1 and 2 pair the limits of a byte in every way.      *)
VectorState(registers) ==
  /\ r = registers
  /\ mem = [a \in Address |-> 224 + a]
  /\ before = [r |-> r, mem |-> mem]
Distinct == [g \in Reg |-> [n \in Lane |-> 16 * g + n]]
Limit == <<0, 1, 127, 128, 255>>
Paired(k) == [Distinct EXCEPT ![1] = [n \in Lane |-> Limit[(n % 5) + 1]],
                              ![2] = [n \in Lane |-> Limit[(((n \div 5) + k) % 5) + 1]]]
VectorInit ==
  \/ VectorState(Distinct) /\ (CopyInit \/ MoveInit)
  \/ \E k \in 0..4 : VectorState(Paired(k)) /\ LanesInit
VectorIdle == VectorState(Distinct) /\ Program("copy", 0, 0, 0, <<>>)

(* Arithmetic: words about the limits in pipeline 0, one pair of operands  *)
(* in pipeline 1; a handler multiplies once between its pmfhl and pmthl.   *)
Edges == {0, 1, Two[W - 1] - 1, Two[W - 1], Two[W] - 1}
ArithmeticNext ==
  \E signed \in BOOLEAN, a, b \in Edges :
    LET x == <<Two[W] - 1>> @@ (0 :> a)
        y == <<Two[W - 1]>> @@ (0 :> b)
    IN  \/ /\ kept.which = "none"
           /\ \/ Pipeline0(signed, x, y)
              \/ a = b /\ (BothMultiply(signed, x, y) \/ BothDivide(signed, x, y))
              \/ a = 0 /\ b = 0 /\ Pipeline1(signed, x, y)
              \/ \E which \in {"lw", "uw", "slw"} : MoveFrom(which)
        \/ kept.which = "lw" /\ a = 1 /\ b = 1 /\ (BothMultiply(TRUE, x, y) \/ MoveTo)

(* Launcher: two discs, one whose boot file is no program, and a file.     *)
MCDepth == [p \in Path |-> CASE p = "data" -> 3 [] p = "notes" -> 0 [] OTHER -> 4]
LauncherQuiet ==
  /\ gui = "gone" /\ disc = NoDisc /\ input = None /\ bootFile = [dir |-> FALSE, of |-> None]
  /\ worker = "none" /\ running = FALSE /\ shown = None
  /\ game = [name |-> None, crc |-> None, image |-> None, exit |-> 0]
  /\ settings = [window |-> "default", file |-> None]

(* Tools: a window that is closed. *)
ToolsQuiet == loop = "closed" /\ FreshState /\ text = CHOOSE x \in Text : TRUE

Init ==
  \/ part = "tools" /\ DevicesQuiet /\ ArithmeticInit /\ VectorIdle /\ LauncherQuiet /\ ToolsInit
  \/ /\ ToolsQuiet
     /\ \/ part = "launcher" /\ DevicesQuiet /\ ArithmeticInit /\ VectorIdle /\ LauncherInit
        \/ part = "devices" /\ DevicesInit /\ ArithmeticInit /\ VectorIdle /\ LauncherQuiet
        \/ part = "arithmetic" /\ DevicesQuiet /\ ArithmeticInit /\ VectorIdle /\ LauncherQuiet
        \/ part = "vector" /\ DevicesQuiet /\ ArithmeticInit /\ VectorInit /\ LauncherQuiet

PartStep ==
  \/ part = "devices" /\ ProgramStep /\ UNCHANGED <<vectorVars, idiomVars, arithmeticVars, launcherVars>>
  \/ part = "arithmetic" /\ ArithmeticNext /\ UNCHANGED <<vectorVars, idiomVars, deviceVars, programVars, launcherVars>>
  \/ part = "vector" /\ VectorStep /\ UNCHANGED <<idiomVars, arithmeticVars, deviceVars, programVars, launcherVars>>
  \/ part = "launcher" /\ LauncherNext /\ UNCHANGED <<vectorVars, idiomVars, arithmeticVars, deviceVars, programVars>>

Next ==
  /\ UNCHANGED part
  /\ \/ PartStep /\ UNCHANGED toolsVars
     \/ part = "tools" /\ ToolsNext /\ UNCHANGED otherVars

PartsSpec == Init /\ [][Next]_vars /\ WF_vars(part = "devices" /\ Next) /\ ToolsFairness
=============================================================================
