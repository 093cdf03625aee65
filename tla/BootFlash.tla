------------------------------ MODULE BootFlash ------------------------------
(***************************************************************************)
(* The flash of the device as the bootloader sees it: the application slot *)
(* in chunks (one DATA frame each) grouped into erase pages, and the       *)
(* metadata copies, one erase unit each, with the metadata record and the  *)
(* security state (boot_image.h, boot_image.c, the boot_platform_flash_*   *)
(* calls of bootloader.c).                                                 *)
(*                                                                         *)
(* A handler that works on flash makes several flash operations.  An       *)
(* "Outcomes" operator is the set of all the ways that work can end:       *)
(*   "ok"     every operation succeeded;                                   *)
(*   "fault"  one of them returned an error and the handler stopped;       *)
(*   "cut"    the power was lost before or during one of them.             *)
(***************************************************************************)
EXTENDS Integers, Sequences

CONSTANTS
  Chunk,       \* the contents a chunk of plaintext image can have
  VectorOk,    \* the chunks that begin with a valid vector table
  Erased,      \* an erased chunk of flash
  Torn,        \* a chunk whose erase or programming was cut short
  Blank,       \* what erased flash reads as: a chunk of 0xFF bytes
  SlotChunks,  \* app_size, in chunks
  PageOf,      \* PageOf[i]: the erase page that holds chunk i of the slot
  CopyCount,   \* boot_metadata_copy_count(): 2, or 1 (STM32F072)
  HasEcc,      \* TRUE where reading a torn word raises an ECC error
  None         \* no value: nothing readable, nothing stored

Slots == 0 .. SlotChunks - 1
Copies == 1 .. CopyCount
Cell == Chunk \cup {Erased, Torn}

ASSUME FlashAssumption ==
  /\ SlotChunks \in Nat \ {0}
  /\ CopyCount \in {1, 2}
  /\ HasEcc \in BOOLEAN
  /\ PageOf \in [Slots -> Nat]
  /\ \A i, j \in Slots : i <= j => PageOf[i] <= PageOf[j]
  /\ VectorOk \subseteq Chunk
  /\ {Erased, Torn} \cap Chunk = {}
  /\ Erased # Torn
  /\ Blank # Torn
  /\ None \notin Nat

(***************************************************************************)
(* Reading.                                                                *)
(***************************************************************************)
Reads(cell) == IF cell = Erased THEN Blank ELSE cell

HasTorn(app, n) == \E i \in Slots : i < n /\ app[i] = Torn

\* The first Len(image) chunks of the slot read back as the image.
AppReads(app, image) ==
  /\ Len(image) <= SlotChunks
  /\ \A i \in 1 .. Len(image) : Reads(app[i - 1]) = image[i]

\* The first copy that reads valid; the copies are tried in order.
SelectMeta(copies) ==
  IF copies[1].meta # None THEN copies[1].meta ELSE copies[CopyCount].meta

\* The state at the fixed offset of any copy comes before one found where an
\* older layout kept it.
SelectFloor(copies) ==
  IF copies[1].state # None THEN copies[1].state
  ELSE IF copies[CopyCount].state # None THEN copies[CopyCount].state
  ELSE IF copies[1].legacy # None THEN copies[1].legacy
  ELSE copies[CopyCount].legacy

(***************************************************************************)
(* Erasing and writing.  A page whose erase was cut short reads as before, *)
(* or as nothing usable.                                                   *)
(***************************************************************************)
Stopped == {"fault", "cut"}

EmptyCopy == [meta |-> None, state |-> None, legacy |-> None]

\* Mutation: the last, partly used page is not erased.
EraseRoundedDown(app, size) ==
  {[app |-> [i \in Slots |-> IF PageOf[i] < PageOf[size - 1] THEN Erased ELSE app[i]],
    res |-> "ok"]}

EraseOutcomes(app, size) ==
  LET last == PageOf[size - 1]
      StoppedAt(p, inPage) ==
        [i \in Slots |-> CASE PageOf[i] < p -> Erased
                           [] PageOf[i] = p -> inPage[i]
                           [] OTHER -> app[i]]
  IN {[app |-> [i \in Slots |-> IF PageOf[i] <= last THEN Erased ELSE app[i]],
       res |-> "ok"]}
     \cup
     {[app |-> StoppedAt(p, inPage), res |-> r] :
        p \in PageOf[0] .. last, inPage \in {app, [i \in Slots |-> Torn]}, r \in Stopped}

\* Programming a chunk that is not erased may succeed and leave it torn.
WriteOutcomes(app, i, chunk) ==
  {[app |-> [app EXCEPT ![i] = c], res |-> "ok"] :
     c \in IF app[i] = Erased THEN {chunk} ELSE {chunk, Torn}}
  \cup
  {[app |-> [app EXCEPT ![i] = c], res |-> r] : c \in {app[i], Torn}, r \in Stopped}

\* What an interrupted erase leaves of a metadata erase unit.
Tearings(copy) ==
  [meta: {copy.meta, None}, state: {copy.state, None}, legacy: {copy.legacy, None}]

\* Mutation: the last copy is stored first.
StoreLastFirst(copies, meta, floor) ==
  LET full == [meta |-> meta, state |-> floor, legacy |-> None]
  IN {[copies |-> [c \in Copies |-> full], res |-> "ok"]}
     \cup
     {[copies |-> [c \in Copies |-> IF c > k THEN full ELSE IF c = k THEN p ELSE copies[c]],
       res |-> "cut"] : k \in Copies, p \in {EmptyCopy, full}}

\* Mutation: every copy is erased before the first one is written.
StoreAfterErasingAll(copies, meta, floor) ==
  LET full == [meta |-> meta, state |-> floor, legacy |-> None]
  IN {[copies |-> [c \in Copies |-> full], res |-> "ok"]}
     \cup
     {[copies |-> [c \in Copies |-> IF c < k THEN full ELSE EmptyCopy], res |-> "cut"] :
        k \in Copies}

\* bootloader_store_metadata: copy by copy, erase the unit, write the record,
\* write the state.
StoreOutcomes(copies, meta, floor) ==
  LET full == [meta |-> meta, state |-> floor, legacy |-> None]
      Partial(k) == Tearings(copies[k]) \cup {[full EXCEPT !.state = None]}
      StoppedAt(k, p) ==
        [c \in Copies |-> IF c < k THEN full ELSE IF c = k THEN p ELSE copies[c]]
  IN {[copies |-> [c \in Copies |-> full], res |-> "ok"]}
     \cup
     UNION {{[copies |-> StoppedAt(k, p), res |-> r] : p \in Partial(k), r \in Stopped}
            : k \in Copies}

\* bootloader_clear_metadata: erase every unit, then write the preserved state
\* (None: nothing to preserve) into each.
ClearOutcomes(copies, floor) ==
  LET kept == [EmptyCopy EXCEPT !.state = floor]
      ErasingAt(k, p) ==
        [c \in Copies |-> IF c < k THEN EmptyCopy ELSE IF c = k THEN p ELSE copies[c]]
      WritingAt(k) == [c \in Copies |-> IF c < k THEN kept ELSE EmptyCopy]
  IN {[copies |-> [c \in Copies |-> kept], res |-> "ok"]}
     \cup
     (UNION {{[copies |-> ErasingAt(k, p), res |-> r] : p \in Tearings(copies[k]), r \in Stopped}
             : k \in Copies})
     \cup
     {[copies |-> WritingAt(k), res |-> r] :
        k \in (IF floor = None THEN {} ELSE Copies), r \in Stopped}

==============================================================================
