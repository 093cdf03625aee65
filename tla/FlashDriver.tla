----------------------------- MODULE FlashDriver -----------------------------
(***************************************************************************)
(* The address arithmetic of the targets: which flash pages the three      *)
(* drivers erase and which bytes they program, which ranges they refuse,   *)
(* and which vector table they take for an application's.  Addresses are   *)
(* C's unsigned words: a sum wraps at WordLimit (2^32), a difference too.  *)
(* A target is the record boot_target_config_t.                            *)
(*                                                                         *)
(* Erasing and programming themselves, and how they end, are in BootFlash; *)
(* this module justifies its grain: an erase takes the pages that a range  *)
(* touches and no other.                                                   *)
(***************************************************************************)
EXTENDS Integers

CONSTANT WordLimit   \* 2^32: one more than the greatest uint32_t

Word(n) == n % WordLimit
Words == 0 .. WordLimit - 1

-----------------------------------------------------------------------------
(* boot_target_common.c *)

FlashEnd(target) == Word(target.flash_base + target.flash_size)

FlashRangeIsValid(target, address, length) ==
  length # 0 =>
    /\ target.flash_base <= address /\ address < FlashEnd(target)
    /\ length <= Word(FlashEnd(target) - address)

WriteLengthIsAligned(target, length) ==
  target.write_size # 0 /\ length % target.write_size = 0

WriteAddressIsAligned(target, address) ==
  /\ target.write_size # 0 /\ target.flash_base <= address
  /\ Word(address - target.flash_base) % target.write_size = 0

-----------------------------------------------------------------------------
(* boot_platform_flash_erase: the addresses of the pages it erases. *)

\* What begins at start and follows every size bytes, up to the end.
Steps(start, end, size) == {start + k * size : k \in {j \in 0 .. end : start + j * size < end}}

ErasedF072(target, address, length) ==
  LET start == Word(address - (Word(address - target.flash_base) % target.erase_size))
  IN  Steps(start, Word(address + length), target.erase_size)

\* The G431 driver names a page by its bank and its number in the bank.
BankSizeG431(target, dual) == IF dual THEN target.flash_size \div 2 ELSE target.flash_size
BankG431(target, dual, offset) ==
  IF dual /\ offset >= BankSizeG431(target, dual) THEN 2 ELSE 1
PageG431(target, dual, pageSize, offset) ==
  (IF dual /\ offset >= BankSizeG431(target, dual)
   THEN offset - BankSizeG431(target, dual) ELSE offset) \div pageSize

ErasedG431(target, dual, pageSize, address, length) ==
  LET startOffset == Word(address - target.flash_base)
      endOffset == Word(startOffset + length)
  IN  {[bank |-> BankG431(target, dual, o), page |-> PageG431(target, dual, pageSize, o)] :
         o \in Steps((startOffset \div pageSize) * pageSize, endOffset, pageSize)}

\* The H503 driver erases runs of sectors, bank by bank.
BankH503(target, bankSize, address) ==
  IF Word(address - target.flash_base) < bankSize THEN 1 ELSE 2
SectorH503(target, bankSize, address) ==
  (Word(address - target.flash_base) % bankSize) \div target.erase_size
BankEndH503(target, bankSize, address) ==
  LET offset == Word(address - target.flash_base)
  IN  Word(target.flash_base + (offset - (offset % bankSize)) + bankSize)

ErasedH503(target, bankSize, address, length) ==
  LET Run(first, n) ==
        {[bank |-> BankH503(target, bankSize, first), page |-> s] :
           s \in SectorH503(target, bankSize, first) ..
                 SectorH503(target, bankSize, Word(first + n - 1))}
      loop[left \in 0 .. length] ==
        IF left = 0 THEN {}
        ELSE LET from == Word(address + (length - left))
                 end == BankEndH503(target, bankSize, from)
                 n == IF Word(from + left) > end THEN Word(end - from) ELSE left
             IN  Run(from, n) \cup loop[left - n]
  IN  loop[length]

\* Where a page of a bank is in the address space.
PageAddress(target, bankSize, pageSize, p) ==
  target.flash_base + (p.bank - 1) * bankSize + p.page * pageSize

\* What they have to erase: the pages of which the range holds a byte.
TouchedPages(target, pageSize, address, length) ==
  {p \in {target.flash_base + i * pageSize : i \in 0 .. (target.flash_size \div pageSize) - 1} :
     p < address + length /\ address < p + pageSize}

-----------------------------------------------------------------------------
(* boot_platform_flash_write: what it answers, and the addresses it programs,
   a unit of the flash at a time. *)

WriteResult(target, address, length) ==
  CASE length = 0 -> "NONE"
    [] length # 0 /\ ~WriteLengthIsAligned(target, length) -> "ALIGNMENT"
    [] /\ length # 0 /\ WriteLengthIsAligned(target, length)
       /\ ~FlashRangeIsValid(target, address, length) -> "RANGE"
    [] /\ length # 0 /\ WriteLengthIsAligned(target, length)
       /\ FlashRangeIsValid(target, address, length)
       -> IF WriteAddressIsAligned(target, address) THEN "NONE" ELSE "ALIGNMENT"

ProgrammedUnits(unit, address, length) == Steps(address, address + length, unit)

-----------------------------------------------------------------------------
(* boot_image_vector_is_valid, of the first two words of an image. *)

AddressInSram(target, addr) ==
  target.sram_base <= addr /\ addr <= Word(target.sram_base + target.sram_size)

AddressInAppSlot(target, addr) ==
  target.app_base <= addr /\ Word(addr - target.app_base) < target.app_size

VectorIsValid(target, initialSp, resetHandler) ==
  /\ AddressInSram(target, initialSp)
  /\ resetHandler % 2 = 1
  /\ AddressInAppSlot(target, resetHandler - 1)

-----------------------------------------------------------------------------
(* The millisecond clock wraps.  bootloader_schedule_action notes when an
   action is due; bootloader_poll looks at the sign of a difference. *)

DueAt(now, delay) == Word(now + delay)
ActionIsDue(now, due) == ~(Word(now - due) >= WordLimit \div 2)

\* The idle reset compares the unsigned difference.
IsQuiet(now, lastRx, idle) == Word(now - lastRx) >= idle

==============================================================================
