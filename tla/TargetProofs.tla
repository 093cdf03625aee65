---------------------------- MODULE TargetProofs ----------------------------
(***************************************************************************)
(* Theorems about BootGuard, for every number of units and pages, every    *)
(* choice of boards and builds and any number of faults: a rewrite of the  *)
(* bootloader is restartable once the first page is written.  And about    *)
(* FlashDriver: the drivers of the targets erase what they are asked to.   *)
(***************************************************************************)
EXTENDS BootGuard, FlashDriver, FiniteSetTheorems, TLAPS

\* The units are numbered from 0, and the first is on the first page.
LEMMA Units ==
  /\ LastUnit \in Nat /\ Unit = 0 .. LastUnit
  /\ {Vectors, Guard} \subseteq Unit /\ PageOf[Vectors] = 0 /\ PageOf[Guard] = 0
  /\ \A u \in Unit : PageOf[u] \in Nat
  /\ \A u, v \in Unit : u <= v => PageOf[u] <= PageOf[v]
<1>1. Cardinality(Unit) \in Nat
  BY FS_CardinalityType, BootGuardAssumption
<1>2. 0 \in Unit
  BY BootGuardAssumption DEF Vectors
<1>3. Cardinality(Unit) # 0
  BY <1>1, <1>2, BootGuardAssumption
<1>4. QED
  BY <1>1, <1>3, BootGuardAssumption DEF LastUnit

-----------------------------------------------------------------------------
(* Type correctness. *)

\* What a fault leaves is typed.
LEMMA FaultTyped ==
  ASSUME TypeOK, Fault
  PROVE  /\ flash' \in [Unit -> {"old", "new", "blank", "torn"}]
         /\ faults' \in 0 .. MaxFaults /\ firstPageHit' \in BOOLEAN
<1>1. faults' \in 0 .. MaxFaults
  BY BootGuardAssumption DEF Fault, TypeOK
<1>2. firstPageHit' \in BOOLEAN
  BY DEF Fault, TypeOK, HitsFirstPage
<1>3. flash' \in [Unit -> {"old", "new", "blank", "torn"}]
  <2>1. PartlyProgrammed \subseteq [Unit -> {"old", "new", "blank", "torn"}]
    BY DEF PartlyProgrammed, TypeOK
  <2>2. PartlyErased \subseteq [Unit -> {"old", "new", "blank", "torn"}]
    <3>1. SUFFICES ASSUME NEW f \in PartlyErased
                   PROVE  f \in [Unit -> {"old", "new", "blank", "torn"}]
      OBVIOUS
    <3>2. PICK left \in [{u \in Unit : PageOf[u] = PageOf[next]} -> {"kept", "blank", "torn"}] :
            f = [u \in Unit |-> IF u \in DOMAIN left /\ left[u] # "kept" THEN left[u]
                                                                      ELSE flash[u]]
      BY DEF PartlyErased
    <3>3. \A u \in DOMAIN left : left[u] \in {"kept", "blank", "torn"}
      OBVIOUS
    <3>4. QED
      BY <3>2, <3>3 DEF TypeOK
  <2>3. QED
    BY <2>1, <2>2 DEF Fault, Disturbed, TypeOK
<1>4. QED
  BY <1>1, <1>2, <1>3

\* Every step keeps types.
LEMMA NextTyped == TypeOK /\ [Next]_vars => TypeOK'
<1> SUFFICES ASSUME TypeOK, [Next]_vars PROVE TypeOK'
  OBVIOUS
<1>1. CASE StartsRomOnRequest \/ EscapesToRom \/ AppRequests
  BY <1>1 DEF StartsRomOnRequest, EscapesToRom, AppRequests, romVars, TypeOK
<1>2. CASE Starts
  <2>1. mode' \in {"bootloader", "rom", "dead"}
    BY <1>2 DEF Starts, GuardVerdict
  <2>2. stay' \in BOOLEAN /\ word' \in {"none", word}
    BY <1>2 DEF Starts
  <2>3. QED
    BY <1>2, <2>1, <2>2 DEF Starts, romVars, TypeOK
<1>3. CASE AutoBoots \/ HostTalks \/ HostBootsApp \/ UpdaterHalts \/ RomWriterStarts
  <2>1. 0 \in 0 .. LastUnit + 1
    BY Units
  <2>2. CASE AutoBoots \/ HostBootsApp \/ RomWriterStarts
    BY <2>1, <2>2 DEF AutoBoots, HostBootsApp, RomWriterStarts, TypeOK
  <2>3. CASE HostTalks \/ UpdaterHalts
    BY <2>3 DEF HostTalks, UpdaterHalts, romVars, TypeOK
  <2>4. QED
    BY <1>3, <2>2, <2>3
<1>4. CASE ErasesPage
  BY <1>4 DEF ErasesPage, TypeOK
<1>5. CASE ProgramsUnit
  <2>1. next' \in 0 .. LastUnit + 1
    BY <1>5, Units DEF ProgramsUnit, TypeOK
  <2>2. erased' \in BOOLEAN
    BY <1>5 DEF ProgramsUnit
  <2>3. flash' \in [Unit -> {"old", "new", "blank", "torn"}]
    BY <1>5 DEF ProgramsUnit, TypeOK
  <2>4. QED
    BY <1>5, <2>1, <2>2, <2>3 DEF ProgramsUnit, TypeOK
<1>6. CASE Finishes
  BY <1>6 DEF Finishes, romVars, TypeOK
<1>7. CASE PowerCut \/ OperationFails
  BY <1>7, FaultTyped DEF PowerCut, OperationFails, romVars, TypeOK
<1>8. CASE PowerUp
  BY <1>8 DEF PowerUp, romVars, TypeOK
<1>9. CASE UNCHANGED vars
  BY <1>9 DEF vars, romVars, TypeOK
<1>10. QED
  BY <1>1, <1>2, <1>3, <1>4, <1>5, <1>6, <1>7, <1>8, <1>9 DEF Next

\* The writer never goes past the image, and every variable keeps its type.
THEOREM GuardTypeCorrect == Spec => []TypeOK
<1>1. Init => TypeOK
  <2>1. 0 \in 0 .. LastUnit + 1 /\ 0 \in 0 .. MaxFaults
    BY Units, BootGuardAssumption
  <2>2. QED
    BY <2>1 DEF Init, TypeOK
<1>2. QED
  BY <1>1, NextTyped, PTL DEF Spec

-----------------------------------------------------------------------------
(* The rewrite is restartable.                                             *)
(*                                                                         *)
(* SafeOutsideFirstPage is not inductive: it says nothing while the first  *)
(* page is being written, nor how far a writer has got.  The strengthening:*)
(* outside a rewrite the flash is settled, and during one the first page   *)
(* is new as far as it is written; a page is erased only from its start.   *)

\* The first page is whole, and what it needs of the rest is there.
Settled ==
  \/ Complete("old")
  \/ build["new"] = "stamped" /\ \A u \in Unit : PageOf[u] = 0 => flash[u] = "new"

\* A writer has begun with the flash.
Busy == mode \in {"updater", "romWriter"} /\ (next > 0 \/ erased)

Progress ==
  /\ \A u \in Unit : u < next /\ PageOf[u] = 0 => flash[u] = "new"
  /\ ~erased => next \notin Unit \/ PageOf[next] # 0

WriteInv ==
  /\ build["old"] # "mismatched"
  /\ Busy \/ mode = "romWriter" => build["new"] = "stamped"
  /\ ~firstPageHit => IF Busy THEN Progress ELSE Settled

\* A settled flash starts.
LEMMA SettledStarts ==
  ASSUME build["old"] # "mismatched", TypeOK, Settled
  PROVE  GuardVerdict \in {"bootloader", "rom"}
<1>1. CASE Complete("old")
  <2>1. flash[Vectors] = "old" /\ flash[Guard] = "old"
    BY <1>1, Units DEF Complete
  <2>2. build["old"] \in {"unguarded", "unstamped", "stamped"}
    BY BootGuardAssumption DEF TypeOK, Build
  <2>3. \A u \in Body : flash[u] = "old"
    BY <1>1 DEF Complete, Body
  <2>4. QED
    BY <1>1, <2>1, <2>2, <2>3 DEF GuardVerdict
<1>2. CASE build["new"] = "stamped" /\ \A u \in Unit : PageOf[u] = 0 => flash[u] = "new"
  BY <1>2, Units DEF GuardVerdict
<1>3. QED
  BY <1>1, <1>2 DEF Settled

\* Once the writer has left the first page, that page is new.
LEMMA FirstPageBehind ==
  ASSUME TypeOK, Progress, next \notin Unit \/ PageOf[next] # 0
  PROVE  \A u \in Unit : PageOf[u] = 0 => flash[u] = "new"
<1> SUFFICES ASSUME NEW u \in Unit, PageOf[u] = 0 PROVE flash[u] = "new"
  OBVIOUS
<1>1. u < next
  <2>1. CASE next \notin Unit
    BY <2>1, Units DEF TypeOK
  <2>2. CASE next \in Unit
    <3>1. PageOf[next] > 0 /\ (next <= u => PageOf[next] <= PageOf[u])
      BY <2>2, Units
    <3>2. QED
      BY <2>2, <3>1, Units
  <2>3. QED
    BY <2>1, <2>2
<1>2. QED
  BY <1>1 DEF Progress

\* A fault that does not hit the first page leaves the flash settled.
LEMMA FaultSettles ==
  ASSUME TypeOK, WriteInv, Fault, build' = build, ~firstPageHit'
  PROVE  Settled'
<1>1. ~firstPageHit /\ ~HitsFirstPage
  BY DEF Fault, TypeOK, HitsFirstPage
<1>2. CASE Busy
  <2>1. build["new"] = "stamped" /\ Writing
    BY <1>2 DEF WriteInv, Writing, Busy, Accepted
  <2>2. next \notin Unit \/ PageOf[next] # 0
    BY <1>1, <2>1 DEF HitsFirstPage
  <2>3. \A u \in Unit : PageOf[u] = 0 => flash[u] = "new"
    BY <1>1, <1>2, <2>2, FirstPageBehind DEF WriteInv
  <2>4. \A u \in Unit : PageOf[u] = 0 => flash'[u] = flash[u]
    <3>1. \A f \in PartlyProgrammed : next \in Unit =>
             \A u \in Unit : PageOf[u] = 0 => f[u] = flash[u]
      BY <2>2 DEF PartlyProgrammed, TypeOK
    <3>2. \A f \in PartlyErased : next \in Unit =>
             \A u \in Unit : PageOf[u] = 0 => f[u] = flash[u]
      BY <2>2 DEF PartlyErased
    <3>3. QED
      BY <3>1, <3>2 DEF Fault, Disturbed
  <2>5. QED
    BY <2>1, <2>3, <2>4 DEF Settled
<1>3. CASE ~Busy
  <2>1. Settled
    BY <1>1, <1>3 DEF WriteInv
  <2>2. ~(Writing /\ next \in Unit)
    <3>1. next \in Unit => next = 0 \/ next > 0
      BY Units
    <3>2. Writing => next = 0
      BY <1>3 DEF Writing, Busy, TypeOK
    <3>3. QED
      BY <1>1, <3>2, Units DEF HitsFirstPage, Vectors
  <2>3. flash' = flash
    BY <2>2 DEF Fault, Disturbed
  <2>4. QED
    BY <2>1, <2>3 DEF Settled, Complete
<1>4. QED
  BY <1>2, <1>3

\* A step outside a rewrite, or one that starts or ends it without touching
\* the flash.
LEMMA QuietSettled ==
  ASSUME WriteInv, ~Busy, ~Busy', UNCHANGED <<build, flash, firstPageHit>>,
         mode' = "romWriter" => build["new"] = "stamped"
  PROVE  WriteInv'
<1>1. Settled => Settled'
  BY DEF Settled, Complete
<1>2. QED
  BY <1>1 DEF WriteInv

\* Erasing a page loses nothing of a first page already written.
LEMMA ErasesInv ==
  ASSUME TypeOK, WriteInv, ErasesPage
  PROVE  WriteInv'
<1>1. build["new"] = "stamped" /\ mode \in {"updater", "romWriter"}
  BY DEF ErasesPage, Writing, Accepted, WriteInv
<1>2. /\ UNCHANGED <<build, mode, next, firstPageHit>> /\ erased' /\ ~erased /\ next \in Unit
      /\ flash' = [u \in Unit |-> IF PageOf[u] = PageOf[next] THEN "blank" ELSE flash[u]]
  BY DEF ErasesPage
<1>3. ASSUME ~firstPageHit PROVE Progress'
  <2>1. CASE next = 0
    BY <1>2, <2>1, Units DEF Progress
  <2>2. CASE next # 0
    <3>1. Busy /\ Progress
      BY <1>1, <1>3, <2>2 DEF WriteInv, Busy, TypeOK
    <3>2. PageOf[next] # 0
      BY <1>2, <3>1 DEF Progress
    <3>3. QED
      BY <1>2, <3>1, <3>2 DEF Progress
  <2>3. QED
    BY <2>1, <2>2
<1>4. Busy'
  BY <1>1, <1>2 DEF Busy
<1>5. QED
  BY <1>1, <1>2, <1>3, <1>4 DEF WriteInv

\* A unit programmed is one more that is new.
LEMMA ProgramsInv ==
  ASSUME TypeOK, WriteInv, ProgramsUnit
  PROVE  WriteInv'
<1>1. /\ mode \in {"updater", "romWriter"} /\ erased /\ next \in Unit /\ next' = next + 1
      /\ UNCHANGED <<build, mode, firstPageHit>>
      /\ flash' = [flash EXCEPT ![next] = "new"]
      /\ erased' = (next + 1 \in Unit /\ PageOf[next + 1] = PageOf[next])
  BY DEF ProgramsUnit, Writing
<1>2. Busy /\ Busy' /\ build["new"] = "stamped"
  BY <1>1, Units DEF Busy, WriteInv
<1>3. ASSUME ~firstPageHit PROVE Progress'
  <2>1. Progress
    BY <1>2, <1>3 DEF WriteInv
  <2>2. \A u \in Unit : u < next + 1 /\ PageOf[u] = 0 => flash'[u] = "new"
    <3> SUFFICES ASSUME NEW u \in Unit, u < next + 1, PageOf[u] = 0 PROVE flash'[u] = "new"
      OBVIOUS
    <3>1. u = next \/ u < next
      BY <1>1, Units
    <3>2. QED
      BY <1>1, <2>1, <3>1 DEF Progress, TypeOK
  <2>3. next + 1 \in Unit /\ PageOf[next + 1] = 0 => PageOf[next] = 0
    BY <1>1, Units
  <2>4. ~erased' => next + 1 \notin Unit \/ PageOf[next + 1] # 0
    BY <1>1, <2>3
  <2>5. QED
    BY <1>1, <2>2, <2>4 DEF Progress
<1>4. QED
  BY <1>1, <1>2, <1>3 DEF WriteInv

\* The rewrite ends with the whole new image.
LEMMA FinishesInv ==
  ASSUME TypeOK, WriteInv, Finishes
  PROVE  WriteInv'
<1>1. /\ mode \in {"updater", "romWriter"} /\ next \notin Unit /\ Complete("new")
      /\ UNCHANGED <<build, flash, firstPageHit>> /\ mode' = "reset"
  BY DEF Finishes, Writing
<1>2. build["new"] = "stamped"
  <2>1. next # 0
    BY <1>1, Units DEF Vectors
  <2>2. QED
    BY <1>1, <2>1 DEF WriteInv, Busy, TypeOK
<1>3. Settled'
  BY <1>1, <1>2 DEF Settled, Complete
<1>4. QED
  BY <1>1, <1>3 DEF WriteInv, Busy

\* Every step keeps the rewrite restartable.
LEMMA NextWrites == TypeOK /\ WriteInv /\ [Next]_vars => WriteInv'
<1> SUFFICES ASSUME TypeOK, WriteInv, [Next]_vars PROVE WriteInv'
  OBVIOUS
<1>1. CASE StartsRomOnRequest \/ EscapesToRom \/ AppRequests \/ PowerUp \/ HostTalks
  BY <1>1, QuietSettled
     DEF StartsRomOnRequest, EscapesToRom, AppRequests, PowerUp, HostTalks, Busy
<1>2. CASE Starts
  <2>1. mode' \in {"bootloader", "rom", "dead"}
    BY <1>2 DEF Starts, GuardVerdict
  <2>2. QED
    BY <1>2, <2>1, QuietSettled DEF Starts, Busy
<1>3. CASE AutoBoots \/ HostBootsApp \/ RomWriterStarts
  <2>1. next' = 0 /\ erased' = FALSE
    BY <1>3 DEF AutoBoots, HostBootsApp, RomWriterStarts
  <2>2. ~Busy'
    BY <2>1 DEF Busy
  <2>3. QED
    BY <1>3, <2>2, QuietSettled DEF AutoBoots, HostBootsApp, RomWriterStarts, Busy
<1>4. CASE UpdaterHalts
  <2>1. ~Busy /\ ~Busy'
    BY <1>4 DEF UpdaterHalts, Busy
  <2>2. QED
    BY <1>4, <2>1, QuietSettled DEF UpdaterHalts
<1>5. CASE PowerCut \/ OperationFails
  <2>1. Fault /\ build' = build /\ mode' \in {"off", "halted"}
    BY <1>5 DEF PowerCut, OperationFails
  <2>2. ~firstPageHit' => Settled'
    BY <2>1, FaultSettles
  <2>3. QED
    BY <2>1, <2>2 DEF WriteInv, Busy
<1>6. CASE UNCHANGED vars
  BY <1>6 DEF vars, romVars, WriteInv, Busy, Progress, Settled, Complete
<1>7. QED
  BY <1>1, <1>2, <1>3, <1>4, <1>5, <1>6, ErasesInv, ProgramsInv, FinishesInv DEF Next

\* At every moment, and after every power cut or failed operation, a start
\* leads to a complete bootloader or to the ROM loader, unless the first page
\* is being erased or written, or was when the power went or the flash failed.
THEOREM RewriteIsRestartable == Spec => []SafeOutsideFirstPage
<1>1. Init => WriteInv
  BY DEF Init, WriteInv, Busy, Settled, Complete
<1>2. TypeOK /\ WriteInv => SafeOutsideFirstPage
  <2> SUFFICES ASSUME TypeOK, WriteInv, ~firstPageHit, ~HitsFirstPage
               PROVE  GuardVerdict \in {"bootloader", "rom"}
    BY DEF SafeOutsideFirstPage
  <2>1. CASE Busy
    <3>1. build["new"] = "stamped" /\ Writing
      BY <2>1 DEF WriteInv, Writing, Busy, Accepted
    <3>2. next \notin Unit \/ PageOf[next] # 0
      BY <3>1 DEF HitsFirstPage
    <3>3. Settled
      BY <2>1, <3>1, <3>2, FirstPageBehind DEF WriteInv, Settled
    <3>4. QED
      BY <3>3, SettledStarts DEF WriteInv
  <2>2. CASE ~Busy
    BY <2>2, SettledStarts DEF WriteInv
  <2>3. QED
    BY <2>1, <2>2
<1>3. QED
  BY <1>1, <1>2, NextWrites, GuardTypeCorrect, PTL DEF Spec

-----------------------------------------------------------------------------
(* The flash drivers, for every width of the machine word, every target that
   fits into the address space and every reading of the clock. *)

\* The flash ends before the last word and is a number of whole pages.
Fits(target, pageSize) ==
  /\ WordLimit \in Nat /\ WordLimit > 0
  /\ target.flash_base \in Nat /\ target.flash_size \in Nat
  /\ target.flash_base + target.flash_size < WordLimit
  /\ pageSize \in Nat /\ pageSize > 0
  /\ target.flash_size % pageSize = 0

-----------------------------------------------------------------------------
(* Arithmetic *)

LEMMA DivMod ==
  ASSUME NEW n \in Int, NEW d \in Nat, d > 0
  PROVE  /\ n % d \in 0 .. d - 1
         /\ n \div d \in Int
         /\ n = (n \div d) * d + (n % d)
OBVIOUS

LEMMA WordOf ==
  ASSUME WordLimit \in Nat, WordLimit > 0, NEW n \in Int
  PROVE  /\ n \in Words => Word(n) = n
         /\ n + WordLimit \in Words => Word(n) = n + WordLimit
         /\ n - WordLimit \in Words => Word(n) = n - WordLimit
BY DEF Word, Words

\* Multiples are in the order of their factors.
LEMMA Multiples ==
  ASSUME NEW i \in Int, NEW j \in Int, NEW d \in Nat, d > 0
  PROVE  /\ i * d \in Int
         /\ i < j <=> i * d < j * d
         /\ (i + j) * d = i * d + j * d
         /\ (i + 1) * d = i * d + d
         /\ i >= 0 => i <= i * d
OBVIOUS

-----------------------------------------------------------------------------
(* Ranges *)

\* An accepted range lies in the flash: no sum wrapped on the way.
THEOREM AcceptedRangeIsInFlash ==
  ASSUME NEW target, NEW pageSize, Fits(target, pageSize),
         NEW address \in Words, NEW length \in Words
  PROVE  FlashRangeIsValid(target, address, length)
           <=> (length # 0 =>
                  /\ target.flash_base <= address
                  /\ address + length <= target.flash_base + target.flash_size)
<1> DEFINE base == target.flash_base
           end == target.flash_base + target.flash_size
<1>1. base \in Nat /\ end \in Nat /\ end < WordLimit /\ WordLimit \in Nat /\ base <= end
  BY DEF Fits
<1>2. address \in Nat /\ length \in Nat /\ address < WordLimit /\ length < WordLimit
  BY <1>1 DEF Words
<1>3. FlashEnd(target) = end
  BY <1>1, WordOf DEF FlashEnd, Words
<1> HIDE DEF end
<1>4. address < end => Word(end - address) = end - address
  BY <1>1, <1>2, WordOf DEF Words
<1>5. FlashRangeIsValid(target, address, length)
        <=> (length # 0 => base <= address /\ address < end /\ length <= Word(end - address))
  BY <1>3 DEF FlashRangeIsValid
<1>6. FlashRangeIsValid(target, address, length)
        <=> (length # 0 => base <= address /\ address + length <= end)
  BY <1>1, <1>2, <1>4, <1>5
<1> QED
  BY <1>6 DEF end

\* The multiples of d below n * d that begin a page between first and last.
PageOffsets(n, d, first, last) ==
  {o \in {i * d : i \in 0 .. n - 1} : o < last /\ first < o + d}

\* The steps of an erase that begins at the page of the first byte of a range
\* are the pages that the range touches.
LEMMA StepsAreTouched ==
  ASSUME NEW d \in Nat, d > 0, NEW n \in Nat, NEW f \in Nat,
         NEW first \in Nat, NEW last \in Nat, first < last, last <= n * d,
         f * d <= first, first < f * d + d
  PROVE  Steps(f * d, last, d) = PageOffsets(n, d, first, last)
<1>1. n * d \in Int /\ f * d \in Int
  BY Multiples
<1>4. ASSUME NEW k \in 0 .. last, f * d + k * d < last
      PROVE  /\ f + k \in 0 .. n - 1
             /\ f * d + k * d = (f + k) * d
             /\ first < (f + k) * d + d
  <2>1. (f + k) * d = f * d + k * d /\ f + k \in Int
    BY Multiples
  <2>2. (f + k) * d < n * d
    BY <1>1, <1>4, <2>1
  <2>3. f + k < n
    BY <2>1, <2>2, Multiples
  <2>4. 0 <= k * d
    BY Multiples
  <2> QED
    BY <1>1, <2>1, <2>3, <2>4, Multiples
<1>5. ASSUME NEW i \in 0 .. n - 1, i * d < last, first < i * d + d
      PROVE  /\ i - f \in 0 .. last
             /\ f * d + (i - f) * d = i * d
  <2>1. f * d < (i + 1) * d
    BY <1>1, <1>5, Multiples
  <2>2. f < i + 1
    BY <2>1, Multiples
  <2>3. i - f \in Nat
    BY <2>2
  <2>4. f * d + (i - f) * d = i * d
    <3>1. (f + (i - f)) * d = f * d + (i - f) * d
      BY <2>3, Multiples
    <3> QED
      BY <1>1, <2>3, <3>1, Multiples
  <2>5. i - f <= (i - f) * d /\ 0 <= f * d
    BY <2>3, Multiples
  <2> QED
    BY <1>1, <1>5, <2>3, <2>4, <2>5, Multiples
<1> DEFINE T == {o \in {i * d : i \in 0 .. n - 1} : o < last /\ first < o + d}
<1>6. ASSUME NEW x \in Steps(f * d, last, d) PROVE x \in T
  <2>1. PICK k \in 0 .. last : x = f * d + k * d /\ f * d + k * d < last
    BY DEF Steps
  <2> QED
    BY <2>1, <1>4
<1>7. ASSUME NEW x \in T PROVE x \in Steps(f * d, last, d)
  <2>1. PICK i \in 0 .. n - 1 : x = i * d /\ i * d < last /\ first < i * d + d
    OBVIOUS
  <2>2. i - f \in 0 .. last /\ f * d + (i - f) * d = x
    BY <2>1, <1>5
  <2> QED
    BY <2>1, <2>2 DEF Steps
<1>8. Steps(f * d, last, d) = T
  BY <1>6, <1>7
<1> QED
  BY <1>8 DEF PageOffsets

-----------------------------------------------------------------------------
(* Erasing *)

\* The STM32F072 driver erases exactly the pages that the range touches.
THEOREM F072ErasesWhatIsTouched ==
  ASSUME NEW target, Fits(target, target.erase_size),
         NEW address \in Words, NEW length \in Words, length # 0,
         FlashRangeIsValid(target, address, length)
  PROVE  ErasedF072(target, address, length)
           = TouchedPages(target, target.erase_size, address, length)
<1> DEFINE base == target.flash_base
           size == target.flash_size
           d == target.erase_size
           first == address - base
           last == first + length
<1>1. /\ base \in Nat /\ size \in Nat /\ base + size < WordLimit /\ WordLimit \in Nat
      /\ d \in Nat /\ d > 0 /\ size % d = 0
  BY DEF Fits
<1>2. address \in Nat /\ length \in Nat /\ length > 0
  BY <1>1 DEF Words
<1>3. base <= address /\ address + length <= base + size
  BY AcceptedRangeIsInFlash
<1>4. /\ first \in Nat /\ last \in Nat /\ first < last /\ last <= size
      /\ address = base + first /\ address + length = base + last
  BY <1>1, <1>2, <1>3
<1>5. Word(address - base) = first /\ Word(address + length) = base + last
  BY <1>1, <1>2, <1>3, WordOf DEF Words
<1> HIDE DEF base, size, d, first, last
<1> DEFINE f == first \div d
<1>6. f \in Int /\ first % d \in 0 .. d - 1 /\ first = f * d + (first % d) /\ f * d \in Int
  BY <1>1, <1>4, DivMod, Multiples
<1> HIDE DEF f
<1>7. f \in Nat /\ f * d >= 0
  BY <1>1, <1>4, <1>6, Multiples
<1>8. address - (first % d) = base + f * d
  BY <1>1, <1>4, <1>6
<1>9. Word(address - (first % d)) = base + f * d
  <2>1. base + f * d \in Words
    BY <1>1, <1>4, <1>6, <1>7 DEF Words
  <2> QED
    BY <1>1, <1>4, <1>8, <2>1, WordOf
<1>10. ErasedF072(target, address, length) = Steps(base + f * d, base + last, d)
  BY <1>5, <1>9 DEF ErasedF072, base, d
<1> DEFINE n == size \div d
<1>11. n \in Nat /\ size = n * d
  <2>1. n \in Int /\ size = n * d
    BY <1>1, DivMod
  <2> QED
    BY <1>1, <2>1, Multiples
<1> HIDE DEF n
<1>12. Steps(f * d, last, d) = PageOffsets(n, d, first, last)
  <2>1. f * d <= first /\ first < f * d + d /\ last <= n * d
    BY <1>1, <1>4, <1>6, <1>11
  <2>2. d \in Nat /\ d > 0 /\ n \in Nat /\ f \in Nat
    BY <1>1, <1>7, <1>11
  <2>3. first \in Nat /\ last \in Nat /\ first < last
    BY <1>4
  <2> QED
    BY <2>1, <2>2, <2>3, StepsAreTouched, Z3
<1> DEFINE touched == TouchedPages(target, d, address, length)
<1>13. touched = {p \in {base + i * d : i \in 0 .. n - 1} : p < base + last /\ address < p + d}
  BY <1>4 DEF TouchedPages, base, size, d, n
<1> HIDE DEF touched
<1>14. ASSUME NEW x \in Steps(base + f * d, base + last, d) PROVE x \in touched
  <2>1. PICK k \in 0 .. base + last :
          x = (base + f * d) + k * d /\ (base + f * d) + k * d < base + last
    BY DEF Steps
  <2>2. k * d \in Int /\ k <= k * d
    BY <1>1, <1>4, <2>1, Multiples
  <2>3. f * d + k * d < last /\ k \in 0 .. last
    BY <1>1, <1>4, <1>6, <1>7, <2>1, <2>2
  <2>4. f * d + k * d \in Steps(f * d, last, d)
    BY <2>3 DEF Steps
  <2>5. PICK i \in 0 .. n - 1 :
          f * d + k * d = i * d /\ i * d < last /\ first < i * d + d
    BY <1>12, <2>4 DEF PageOffsets
  <2>6. i * d \in Int
    BY <1>1, <1>11, Multiples
  <2>7. x = base + i * d
    BY <1>1, <1>6, <2>1, <2>2, <2>5, <2>6
  <2>8. base + i * d < base + last /\ address < (base + i * d) + d
    BY <1>1, <1>4, <2>5, <2>6
  <2> QED
    BY <1>13, <2>7, <2>8
<1>15. ASSUME NEW x \in touched PROVE x \in Steps(base + f * d, base + last, d)
  <2>1. PICK i \in 0 .. n - 1 :
          x = base + i * d /\ base + i * d < base + last /\ address < (base + i * d) + d
    BY <1>13
  <2>2. i * d \in Int
    BY <1>1, <1>11, Multiples
  <2>3. i * d < last /\ first < i * d + d
    BY <1>1, <1>4, <2>1, <2>2
  <2>4. i * d \in Steps(f * d, last, d)
    BY <1>12, <2>3 DEF PageOffsets
  <2>5. PICK k \in 0 .. last : i * d = f * d + k * d /\ f * d + k * d < last
    BY <2>4 DEF Steps
  <2>6. k * d \in Int
    BY <1>1, <1>4, <2>5, Multiples
  <2>7. x = (base + f * d) + k * d /\ (base + f * d) + k * d < base + last
    BY <1>1, <1>4, <1>6, <2>1, <2>5, <2>6
  <2>8. k \in 0 .. base + last
    BY <1>1, <1>4, <2>5
  <2> QED
    BY <2>7, <2>8 DEF Steps
<1>16. Steps(base + f * d, base + last, d) = touched
  BY <1>14, <1>15
<1> QED
  BY <1>10, <1>16 DEF touched, d

\* An erase stays inside any region of whole pages that holds its range: one
\* of the application slot never reaches the bootloader or a metadata copy.
THEOREM EraseStaysInItsRegion ==
  ASSUME NEW target, Fits(target, target.erase_size),
         NEW address \in Words, NEW length \in Words, length # 0,
         FlashRangeIsValid(target, address, length),
         NEW i \in Nat, NEW j \in Nat,
         target.flash_base + i * target.erase_size <= address,
         address + length <= target.flash_base + j * target.erase_size,
         NEW page \in ErasedF072(target, address, length)
  PROVE  /\ target.flash_base + i * target.erase_size <= page
         /\ page + target.erase_size <= target.flash_base + j * target.erase_size
<1> DEFINE base == target.flash_base
           d == target.erase_size
<1>1. base \in Nat /\ d \in Nat /\ d > 0 /\ target.flash_size \in Nat /\ WordLimit \in Nat
  BY DEF Fits
<1>2. address \in Nat /\ length \in Nat
  BY <1>1 DEF Words
<1>3. page \in TouchedPages(target, d, address, length)
  BY F072ErasesWhatIsTouched
<1>4. PICK k \in 0 .. (target.flash_size \div d) - 1 :
        page = base + k * d /\ page < address + length /\ address < page + d
  BY <1>3 DEF TouchedPages
<1>5. k \in Int /\ k * d \in Int /\ i * d \in Int /\ j * d \in Int
  BY <1>1, <1>4, DivMod, Multiples
<1>6. i * d < (k + 1) * d /\ k * d < j * d
  BY <1>1, <1>2, <1>4, <1>5, Multiples
<1>7. i <= k /\ k + 1 <= j
  BY <1>1, <1>5, <1>6, Multiples
<1>8. i * d <= k * d /\ (k + 1) * d <= j * d
  BY <1>1, <1>5, <1>7, Multiples
<1> QED
  BY <1>1, <1>4, <1>5, <1>8, Multiples

\* The STM32G431 driver, which names a page by its bank and its number in the
\* bank, erases the same pages, with one bank and with two.
THEOREM G431ErasesWhatIsTouched ==
  ASSUME NEW target, NEW pageSize, Fits(target, pageSize), NEW dual \in BOOLEAN,
         BankSizeG431(target, dual) % pageSize = 0,
         NEW address \in Words, NEW length \in Words, length # 0,
         FlashRangeIsValid(target, address, length)
  PROVE  {PageAddress(target, BankSizeG431(target, dual), pageSize, p) :
            p \in ErasedG431(target, dual, pageSize, address, length)}
           = TouchedPages(target, pageSize, address, length)
<1> DEFINE base == target.flash_base
           size == target.flash_size
           d == pageSize
           first == address - base
           last == first + length
           bank == BankSizeG431(target, dual)
           Page(o) == [bank |-> BankG431(target, dual, o), page |-> PageG431(target, dual, d, o)]
<1>1. /\ base \in Nat /\ size \in Nat /\ base + size < WordLimit /\ WordLimit \in Nat
      /\ d \in Nat /\ d > 0 /\ size % d = 0
      /\ bank \in Nat /\ bank % d = 0
  BY DEF Fits, BankSizeG431
<1>2. address \in Nat /\ length \in Nat /\ length > 0
  BY <1>1 DEF Words
<1>3. base <= address /\ address + length <= base + size
  BY AcceptedRangeIsInFlash
<1>4. /\ first \in Nat /\ last \in Nat /\ first < last /\ last <= size
      /\ address = base + first /\ address + length = base + last
  BY <1>1, <1>2, <1>3
<1>5. Word(address - base) = first /\ Word(first + length) = last
  BY <1>1, <1>2, <1>3, WordOf DEF Words
<1> HIDE DEF base, size, d, first, last, bank
<1> DEFINE n == size \div d
           f == first \div d
           steps == Steps(f * d, last, d)
<1>6. steps = PageOffsets(n, d, first, last)
  <2>1. n \in Int /\ size = n * d /\ f \in Int /\ f * d <= first /\ first < f * d + d
    BY <1>1, <1>4, DivMod
  <2> HIDE DEF n, f
  <2>2. n \in Nat /\ f \in Nat
    BY <1>1, <1>4, <2>1, Multiples
  <2> QED
    BY <1>1, <1>4, <2>1, <2>2, StepsAreTouched
<1>7. ErasedG431(target, dual, d, address, length) = {Page(o) : o \in steps}
  BY <1>5 DEF ErasedG431, base
<1>8. n \in Int
  BY <1>1, DivMod
<1>9. TouchedPages(target, d, address, length)
        = {p \in {base + i * d : i \in 0 .. n - 1} : p < base + last /\ address < p + d}
  BY <1>4 DEF TouchedPages, base, size
<1> HIDE DEF n, f, steps
<1>10. ASSUME NEW o \in steps
       PROVE  PageAddress(target, bank, d, Page(o)) = base + o
  <2>1. PICK i \in 0 .. n - 1 : o = i * d
    BY <1>6 DEF PageOffsets
  <2>2. PICK m \in Int : bank = m * d
    BY <1>1, DivMod
  <2>3. ASSUME NEW k \in Int PROVE k * d \in Int /\ (k * d) \div d = k
    BY <1>1, Multiples
  <2>4. CASE dual /\ o >= bank
    <3>1. i - m \in Int /\ (i - m) * d = o - bank
      <4>1. i \in Int /\ i - m \in Int /\ (i - m) + m = i
        BY <1>8
      <4>2. ((i - m) + m) * d = (i - m) * d + m * d
        BY <1>1, <4>1, Multiples
      <4>3. (i - m) * d \in Int /\ m * d \in Int
        BY <1>1, <4>1, Multiples
      <4> QED
        BY <2>1, <2>2, <4>1, <4>2, <4>3
    <3>2. Page(o) = [bank |-> 2, page |-> (o - bank) \div d]
      BY <2>4 DEF BankG431, PageG431, bank
    <3>3. (o - bank) \div d = i - m
      BY <2>3, <3>1
    <3>4. PageAddress(target, bank, d, Page(o)) = base + (2 - 1) * bank + (i - m) * d
      BY <3>2, <3>3 DEF PageAddress, base
    <3>5. o \in Int
      BY <1>8, <2>1, <2>3
    <3> QED
      BY <1>1, <3>1, <3>4, <3>5
  <2>5. CASE ~(dual /\ o >= bank)
    <3>1. Page(o) = [bank |-> 1, page |-> o \div d]
      BY <2>5 DEF BankG431, PageG431, bank
    <3>2. o \div d = i /\ o \in Int
      BY <1>8, <2>1, <2>3
    <3>3. PageAddress(target, bank, d, Page(o)) = base + (1 - 1) * bank + i * d
      BY <3>1, <3>2 DEF PageAddress, base
    <3> QED
      BY <1>1, <2>1, <3>2, <3>3
  <2> QED
    BY <2>4, <2>5
<1> DEFINE addresses == {base + o : o \in steps}
<1>11. {PageAddress(target, bank, d, p) : p \in ErasedG431(target, dual, d, address, length)}
         = addresses
  <2>1. {PageAddress(target, bank, d, p) : p \in {Page(o) : o \in steps}}
          = {PageAddress(target, bank, d, Page(o)) : o \in steps}
    OBVIOUS
  <2> QED
    BY <1>7, <1>10, <2>1
<1>12. addresses = TouchedPages(target, d, address, length)
  <2>1. ASSUME NEW i \in 0 .. n - 1
        PROVE  /\ i * d < last <=> base + i * d < base + last
               /\ first < i * d + d <=> address < (base + i * d) + d
    BY <1>1, <1>4, <1>8, Multiples
  <2> QED
    BY <1>6, <1>9, <2>1 DEF PageOffsets
<1> QED
  BY <1>11, <1>12 DEF d, bank

-----------------------------------------------------------------------------
(* The clock *)

\* An action is due once its delay has passed and not before, also when the
\* clock wraps in between, for as long as less than half its range passes.
THEOREM DeadlineSurvivesWrap ==
  ASSUME WordLimit \in Nat, WordLimit > 0, WordLimit % 2 = 0,
         NEW now \in Words, NEW delay \in Nat, NEW elapsed \in Nat,
         delay < WordLimit \div 2, elapsed < WordLimit \div 2
  PROVE  ActionIsDue(Word(now + elapsed), DueAt(now, delay)) <=> elapsed >= delay
<1> DEFINE half == WordLimit \div 2
<1>1. half \in Nat /\ WordLimit = half + half
  OBVIOUS
<1> HIDE DEF half
<1>2. now \in Nat /\ now < half + half
  BY <1>1 DEF Words
<1> DEFINE then == Word(now + elapsed)
           due == DueAt(now, delay)
<1>3. then = IF now + elapsed < half + half THEN now + elapsed ELSE now + elapsed - (half + half)
  BY <1>1, <1>2, WordOf DEF Words, half
<1>4. due = IF now + delay < half + half THEN now + delay ELSE now + delay - (half + half)
  BY <1>1, <1>2, WordOf DEF Words, half, DueAt
<1> HIDE DEF then, due
<1>5. Word(then - due)
        = IF elapsed >= delay THEN elapsed - delay ELSE elapsed - delay + (half + half)
  <2>1. delay < half /\ elapsed < half
    BY DEF half
  <2>2. then \in Int /\ due \in Int
    BY <1>1, <1>2, <1>3, <1>4
  <2>3. \/ then - due = elapsed - delay
        \/ then - due = elapsed - delay + (half + half)
        \/ then - due = elapsed - delay - (half + half)
    BY <1>1, <1>2, <1>3, <1>4
  <2>4. then \in 0 .. (half + half) - 1 /\ due \in 0 .. (half + half) - 1
    BY <1>1, <1>2, <1>3, <1>4, <2>1
  <2> QED
    BY <1>1, <2>1, <2>2, <2>3, <2>4, WordOf DEF Words
<1>6. ActionIsDue(then, due) <=> ~(Word(then - due) >= half)
  BY DEF ActionIsDue, half
<1> QED
  BY <1>1, <1>5, <1>6 DEF half, then, due

\* A partial frame is taken for quiet once the idle time has passed since the
\* last bytes came in and not before, until the clock has gone round.
THEOREM QuietSurvivesWrap ==
  ASSUME WordLimit \in Nat, WordLimit > 0,
         NEW lastRx \in Words, NEW idle \in Nat, NEW elapsed \in Nat, elapsed < WordLimit
  PROVE  IsQuiet(Word(lastRx + elapsed), lastRx, idle) <=> elapsed >= idle
<1>1. lastRx \in Nat /\ lastRx < WordLimit
  BY DEF Words
<1> DEFINE now == Word(lastRx + elapsed)
<1>2. now = IF lastRx + elapsed < WordLimit THEN lastRx + elapsed ELSE lastRx + elapsed - WordLimit
  BY <1>1, WordOf DEF Words
<1> HIDE DEF now
<1>3. Word(now - lastRx) = elapsed
  BY <1>1, <1>2, WordOf DEF Words
<1> QED
  BY <1>3 DEF IsQuiet, now

==============================================================================
