---------------------------- MODULE MCFlashDriver ----------------------------
(***************************************************************************)
(* FlashDriver on small words, for TLC: flash of sixteen bytes that begins *)
(* at four or ends at the last word but one, in pages of two or four bytes *)
(* and banks of eight, and every address and length of the word.           *)
(***************************************************************************)
EXTENDS Integers

Driver == INSTANCE FlashDriver WITH WordLimit <- 32

SmallTarget(base, page) ==
  [flash_base |-> base, flash_size |-> 16, erase_size |-> page, write_size |-> 2,
   app_base |-> base + 4, app_size |-> 8, sram_base |-> 2, sram_size |-> 5]

SmallTargets == {SmallTarget(base, page) : base \in {4, 15}, page \in {2, 4}}

\* A range is accepted exactly if every byte of it is in flash.
ASSUME RangesAreChecked ==
  \A t \in SmallTargets, address, length \in Driver!Words :
    Driver!FlashRangeIsValid(t, address, length)
      <=> \A b \in 0 .. length - 1 : address + b \in t.flash_base .. t.flash_base + 15

\* Each driver erases exactly the pages that the range touches.
ASSUME ErasesExactlyWhatTheRangeTouches ==
  \A t \in SmallTargets, address \in Driver!Words, length \in 1 .. 16 :
    Driver!FlashRangeIsValid(t, address, length) =>
      /\ Driver!ErasedF072(t, address, length)
           = Driver!TouchedPages(t, t.erase_size, address, length)
      /\ \A dual \in BOOLEAN :
           {Driver!PageAddress(t, 8, 2, p) : p \in Driver!ErasedG431(t, dual, 2, address, length)}
             = Driver!TouchedPages(t, 2, address, length)
      /\ {Driver!PageAddress(t, 8, t.erase_size, p) :
            p \in Driver!ErasedH503(t, 8, address, length)}
           = Driver!TouchedPages(t, t.erase_size, address, length)

\* An accepted write programs the range and nothing else; a refused one has a
\* byte outside the flash or does not keep to its units.
ASSUME WritesExactlyTheRange ==
  \A t \in SmallTargets, address, length \in Driver!Words :
    LET aligned == length % 2 = 0 /\ (length # 0 => (address - t.flash_base) % 2 = 0)
        inFlash == Driver!FlashRangeIsValid(t, address, length)
    IN  /\ Driver!WriteResult(t, address, length) = "NONE" <=> (aligned /\ inFlash)
        /\ (aligned /\ inFlash) =>
             UNION {u .. u + 1 : u \in Driver!ProgrammedUnits(2, address, length)}
               = address .. address + length - 1

\* A vector table is taken only if the stack begins in the SRAM, or right
\* behind it, and the entry is a Thumb address inside the slot.
ASSUME EntryIsInTheSlot ==
  \A t \in SmallTargets, sp, entry \in Driver!Words :
    Driver!VectorIsValid(t, sp, entry)
      <=> sp \in 2 .. 7 /\ \E i \in 0 .. 7 : entry = t.app_base + i + 1 /\ entry % 2 = 1

\* The clock may wrap between the two readings: an action is due once its
\* delay has passed and not before, for as long as half the clock's range.
ASSUME DeadlinesSurviveWrap ==
  \A now \in Driver!Words, delay \in 0 .. 15, elapsed \in 0 .. 15 :
    /\ Driver!ActionIsDue(Driver!Word(now + elapsed), Driver!DueAt(now, delay))
         <=> elapsed >= delay
    /\ Driver!IsQuiet(Driver!Word(now + elapsed), now, delay) <=> elapsed >= delay

==============================================================================
