------------------------------ MODULE BootGuard ------------------------------
(***************************************************************************)
(* Replacing the bootloader itself: the boot guard at the start of the     *)
(* flash (boot_guard_stm32g431.c, boot_guard_stm32f072.c), the STM32G431   *)
(* updater application (stm32g431_blupdater), the ROM loader the guard     *)
(* falls back to, and the request word in RAM that a start-up reads.       *)
(* Power may go at any moment, in the middle of an erase or a write too.   *)
(*                                                                         *)
(* The bootloader is a few units of flash, written in order: the vectors,  *)
(* the guard (record, code, reset handler, NMI handler), then the body the *)
(* guard checks, which begins in the first page.                           *)
(***************************************************************************)
EXTENDS Naturals, FiniteSets

CONSTANTS
  Boards,      \* subset of {"g431", "f072"}: with the updater; with the escape to the
               \* ROM loader (AFFINE_BOOT_F072_ROM_LOADER_ESCAPE)
  PageOf,      \* the flash page of each unit
  Builds,      \* the builds of bootloader there are (see Build)
  MaxFaults    \* bound: power cuts and flash operations that fail

Unit == DOMAIN PageOf
Vectors == 0
Guard == 1
Body == Unit \ {Vectors, Guard}

\* Unguarded: from before the guard; unstamped: body_length 0; stamped; and an
\* image whose record does not match its body.
Build == {"unguarded", "unstamped", "stamped", "mismatched"}

ASSUME BootGuardAssumption ==
  /\ Boards \subseteq {"g431", "f072"} /\ Boards # {}
  /\ Builds \subseteq Build
  /\ MaxFaults \in Nat
  /\ IsFiniteSet(Unit) /\ Unit = 0 .. Cardinality(Unit) - 1
  /\ \A u \in Unit : PageOf[u] \in Nat
  /\ \A u, v \in Unit : u <= v => PageOf[u] <= PageOf[v]
  /\ {Vectors, Guard} \subseteq Unit /\ PageOf[Vectors] = 0 /\ PageOf[Guard] = 0

VARIABLES
  board,     \* which board this is; never changes
  build,     \* the builds of the installed image ("old") and of the embedded one ("new")
  flash,     \* what each unit holds: a part of "old" or "new", "blank" or "torn"
  word,      \* the request word in RAM: "none", "boot" (stay in the bootloader), "rom"
  mode,      \* what runs: "off", "reset", "bootloader", "app", "updater", "rom",
             \* "romWriter", "halted", "dead"
  next,      \* the unit that updater or ROM loader writes next
  erased,    \* its page is erased
  stay,      \* the bootloader was asked to stay, or a host has talked to it
  faults,    \* history: power cuts and failed operations
  firstPageHit   \* history: one of them hit an operation on the first page

romVars == <<next, erased>>
vars == <<board, build, flash, word, mode, next, erased, stay, faults, firstPageHit>>

LastUnit == Cardinality(Unit) - 1
Complete(image) == \A u \in Unit : flash[u] = image
WholeImage == \E image \in {"old", "new"} : Complete(image)

Init ==
  /\ board \in Boards
  /\ build \in [{"old", "new"} -> Builds] /\ build["old"] # "mismatched"
  /\ flash = [u \in Unit |-> "old"]
  /\ word = "none" /\ mode = "off"
  /\ next = 0 /\ erased = FALSE /\ stay = FALSE
  /\ faults = 0 /\ firstPageHit = FALSE

-----------------------------------------------------------------------------
(* Start-up: the reset handler in the first page calls boot_guard.  A torn
   double-word never passes: the sum is off, or the read is an ECC error. *)

\* Mutation: the guard does not check the sum.
GuardVerdictUnchecked ==
  IF flash[Vectors] \notin {"old", "new"} \/ flash[Guard] # flash[Vectors] THEN "dead"
  ELSE IF WholeImage THEN "bootloader" ELSE "dead"

\* What the reset handler, the guard in it included, does.
GuardVerdict ==
  LET image == flash[Guard] IN
  IF flash[Vectors] \notin {"old", "new"} \/ image # flash[Vectors] THEN "dead"
  ELSE CASE build[image] \in {"unguarded", "unstamped"} ->
              IF Complete(image) THEN "bootloader" ELSE "dead"
         [] build[image] = "stamped" ->
              IF \A u \in Body : flash[u] = image THEN "bootloader" ELSE "rom"
         [] OTHER -> "rom"

RomRequested == board = "f072" /\ word = "rom" /\ flash[Guard] \in {"old", "new"}
                  /\ flash[Vectors] = flash[Guard] /\ build[flash[Guard]] # "unguarded"

\* Mutation: the guard leaves the request word as it is.
StartsRomOnRequestKept ==
  /\ mode = "reset" /\ RomRequested
  /\ mode' = "rom" /\ stay' = FALSE
  /\ UNCHANGED <<board, build, flash, word, romVars, faults, firstPageHit>>

(* boot_guard, then bootloader_init (boot_platform_force_bootloader reads and
   clears the word). *)
StartsRomOnRequest ==
  /\ mode = "reset" /\ RomRequested
  /\ word' = "none" /\ mode' = "rom" /\ stay' = FALSE
  /\ UNCHANGED <<board, build, flash, romVars, faults, firstPageHit>>

Starts ==
  /\ mode = "reset" /\ ~RomRequested
  /\ mode' = GuardVerdict
  /\ stay' = (mode' = "bootloader" /\ word = "boot")
  /\ word' = IF mode' = "bootloader" /\ word = "boot" THEN "none" ELSE word
  /\ UNCHANGED <<board, build, flash, romVars, faults, firstPageHit>>

\* main: no frame within the auto-boot window, and nobody asked to stay.
AutoBoots ==
  /\ mode = "bootloader" /\ ~stay
  /\ mode' = IF board = "g431" THEN "updater" ELSE "app"
  /\ next' = 0 /\ erased' = FALSE
  /\ UNCHANGED <<board, build, flash, word, stay, faults, firstPageHit>>

HostTalks ==
  /\ mode = "bootloader" /\ ~stay
  /\ stay' = TRUE
  /\ UNCHANGED <<board, build, flash, word, mode, romVars, faults, firstPageHit>>

\* A host that talks to the bootloader ends with BOOT_APP.
HostBootsApp ==
  /\ mode = "bootloader" /\ stay
  /\ mode' = IF board = "g431" THEN "updater" ELSE "app"
  /\ stay' = FALSE /\ next' = 0 /\ erased' = FALSE
  /\ UNCHANGED <<board, build, flash, word, faults, firstPageHit>>

\* main, F072: no application to start and a minute without a frame.
EscapesToRom ==
  /\ board = "f072" /\ mode = "bootloader" /\ ~stay /\ build[flash[Guard]] # "unguarded"
  /\ word' = "rom" /\ mode' = "reset"
  /\ UNCHANGED <<board, build, flash, romVars, stay, faults, firstPageHit>>

\* The application asks for the bootloader or, in an escape build, the ROM loader.
AppRequests ==
  /\ mode = "app"
  /\ word' \in {"boot", "rom"} /\ mode' = "reset"
  /\ UNCHANGED <<board, build, flash, romVars, stay, faults, firstPageHit>>

-----------------------------------------------------------------------------
(* The updater application, and the ROM loader when a host writes the image
   through it, page after page from the first. *)

Accepted == build["new"] = "stamped"   \* embedded_image_is_guarded

\* main: nothing to do, or a refused image.
UpdaterHalts ==
  /\ mode = "updater" /\ next = 0 /\ ~erased
  /\ ~Accepted \/ Complete("new")
  /\ mode' = "halted"
  /\ UNCHANGED <<board, build, flash, word, romVars, stay, faults, firstPageHit>>

Writing == \/ mode = "updater" /\ Accepted /\ (next > 0 \/ erased \/ ~Complete("new"))
           \/ mode = "romWriter"

\* reflash_page: erase the page, then program it double-word by double-word.
ErasesPage ==
  /\ Writing /\ next \in Unit /\ ~erased
  /\ flash' = [u \in Unit |-> IF PageOf[u] = PageOf[next] THEN "blank" ELSE flash[u]]
  /\ erased' = TRUE
  /\ UNCHANGED <<board, build, word, mode, next, stay, faults, firstPageHit>>

\* Mutation: a double-word is skipped after each one written.
ProgramsUnitSkips ==
  /\ Writing /\ next \in Unit /\ erased
  /\ flash' = [flash EXCEPT ![next] = "new"]
  /\ next' = next + 2
  /\ erased' = (next + 2 \in Unit /\ PageOf[next + 2] = PageOf[next])
  /\ UNCHANGED <<board, build, word, mode, stay, faults, firstPageHit>>

\* Mutation: a page is left when its first double-word is written.
ProgramsUnitShort ==
  /\ Writing /\ next \in Unit /\ erased
  /\ flash' = [flash EXCEPT ![next] = "new"]
  /\ next' = CHOOSE u \in Unit \cup {LastUnit + 1} :
               /\ u > next /\ (u \in Unit => PageOf[u] # PageOf[next])
               /\ \A v \in Unit : v > next /\ PageOf[v] # PageOf[next] => u <= v
  /\ erased' = FALSE
  /\ UNCHANGED <<board, build, word, mode, stay, faults, firstPageHit>>

ProgramsUnit ==
  /\ Writing /\ next \in Unit /\ erased
  /\ flash' = [flash EXCEPT ![next] = "new"]
  /\ next' = next + 1
  /\ erased' = (next + 1 \in Unit /\ PageOf[next + 1] = PageOf[next])
  /\ UNCHANGED <<board, build, word, mode, stay, faults, firstPageHit>>

\* request_bootloader_and_reset, once the whole region compares equal; the ROM
\* loader just starts the new image.
Finishes ==
  /\ Writing /\ next \notin Unit /\ Complete("new")
  /\ IF mode = "updater" THEN word' = "boot" ELSE word' \in {word, "none"}
  /\ mode' = "reset"
  /\ UNCHANGED <<board, build, flash, romVars, stay, faults, firstPageHit>>

\* Released images are stamped (tools/patch_boot_guard.py).
RomWriterStarts ==
  /\ mode = "rom" /\ build["new"] = "stamped"
  /\ mode' = "romWriter" /\ next' = 0 /\ erased' = FALSE
  /\ UNCHANGED <<board, build, flash, word, stay, faults, firstPageHit>>

-----------------------------------------------------------------------------
(* Power.  An operation cut short, or one that fails, leaves its unit or the
   units of its page in any state between before and after. *)

PartlyErased ==
  {[u \in Unit |-> IF u \in DOMAIN left /\ left[u] # "kept" THEN left[u] ELSE flash[u]] :
     left \in [{u \in Unit : PageOf[u] = PageOf[next]} -> {"kept", "blank", "torn"}]}

PartlyProgrammed == {[flash EXCEPT ![next] = c] : c \in {"blank", "torn", "new"}}

Disturbed == IF Writing /\ next \in Unit
             THEN IF erased THEN PartlyProgrammed ELSE PartlyErased
             ELSE {flash}

HitsFirstPage == Writing /\ next \in Unit /\ PageOf[next] = 0

Fault ==
  /\ faults < MaxFaults /\ faults' = faults + 1
  /\ flash' \in Disturbed
  /\ firstPageHit' = (firstPageHit \/ HitsFirstPage)

PowerCut ==
  /\ mode # "off" /\ Fault
  /\ mode' = "off"
  /\ UNCHANGED <<board, build, word, romVars, stay>>

\* The RAM word does not survive; whatever it holds is not a request.
PowerUp ==
  /\ mode = "off"
  /\ mode' = "reset" /\ word' = "none" /\ stay' = FALSE
  /\ UNCHANGED <<board, build, flash, romVars, faults, firstPageHit>>

\* The HAL reports an error: the updater halts for good.
OperationFails ==
  /\ mode = "updater" /\ Writing /\ next \in Unit /\ Fault
  /\ mode' = "halted"
  /\ UNCHANGED <<board, build, word, romVars, stay>>

Boot == StartsRomOnRequest \/ Starts \/ AutoBoots \/ HostBootsApp \/ PowerUp
Write == UpdaterHalts \/ ErasesPage \/ ProgramsUnit \/ Finishes \/ RomWriterStarts

Next ==
  \/ StartsRomOnRequest \/ Starts \/ AutoBoots \/ HostTalks \/ HostBootsApp
  \/ EscapesToRom \/ AppRequests
  \/ UpdaterHalts \/ ErasesPage \/ ProgramsUnit \/ Finishes \/ RomWriterStarts
  \/ PowerCut \/ PowerUp \/ OperationFails

\* Programs go on running, power comes back, and a board in the ROM loader is
\* written by somebody.
Spec == Init /\ [][Next]_vars /\ WF_vars(Boot) /\ WF_vars(Write)

-----------------------------------------------------------------------------
(* Every variable has its type; the writer never goes past the image. *)
TypeOK ==
  /\ board \in Boards
  /\ build \in [{"old", "new"} -> Builds]
  /\ flash \in [Unit -> {"old", "new", "blank", "torn"}]
  /\ word \in {"none", "boot", "rom"}
  /\ mode \in {"off", "reset", "bootloader", "app", "updater", "rom", "romWriter",
                "halted", "dead"}
  /\ next \in 0 .. LastUnit + 1
  /\ erased \in BOOLEAN /\ stay \in BOOLEAN /\ firstPageHit \in BOOLEAN
  /\ faults \in 0 .. MaxFaults

(* The rewrite is restartable: at every moment, and after every power cut or
   failed operation, a start leads to a complete bootloader or to the ROM
   loader, unless the first page itself is being erased or written, or was
   when the power went or the flash failed (reflash_bootloader writes the
   first page first; boot_guard checks the rest). *)
SafeOutsideFirstPage ==
  (~firstPageHit /\ ~HitsFirstPage) => GuardVerdict \in {"bootloader", "rom"}

(* The updater comes to an end whenever the power goes: the new bootloader is
   complete, or the updater has halted on a failed operation, or the first
   page was hit (main of stm32g431_blupdater; a board in the ROM loader is
   written there). *)
UpdateEnds ==
  (board = "g431" /\ build["new"] = "stamped") =>
    <>(Complete("new") \/ mode = "halted" \/ firstPageHit)

(* A board that has fallen back to the ROM loader is not lost: it is written,
   or had been asked for the ROM loader and is complete, and a bootloader
   runs again (boot_guard_enter_rom_loader). *)
RomRecovers ==
  (mode = "rom" /\ build["new"] = "stamped")
    ~> ((mode = "bootloader" /\ WholeImage) \/ firstPageHit)

==============================================================================
