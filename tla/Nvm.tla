-------------------------------- MODULE Nvm --------------------------------
(***************************************************************************)
(* The bootloader's flash and EEPROM writer, nvm.c, by cells.  A page is   *)
(* erased as a whole, then written word by word; a word can only clear     *)
(* bits.  Each erase and each write is a step of its own, since a reset    *)
(* may fall between any two.                                               *)
(*                                                                         *)
(* The processor sees one half of the flash at a time, chosen by FLMAP, in *)
(* the upper half of its data space.  A pointer that runs past the end of  *)
(* that window leaves the flash; no step of the model is one of its stores *)
(* there, so the model says nothing of what comes after it.                *)
(***************************************************************************)
EXTENDS Integers, Sequences

CONSTANTS NvmPage,       \* NVM_FLASH_PAGE_SIZE (512 in the source)
          AppStart,      \* end of the BOOT section (0x1000 in the source)
          FlashEnd,      \* bound: size of the flash
          Window,        \* size of an FLMAP section (0x8000 in the source)
          EepromSize     \* NVM_EEPROM_SIZE (256 in the source)

ASSUME NvmAssumption ==
  /\ NvmPage \in Nat \ {0} /\ EepromSize \in Nat \ {0}
  /\ AppStart \in Nat /\ FlashEnd \in Nat /\ AppStart < FlashEnd
  /\ AppStart % NvmPage = 0 /\ FlashEnd % NvmPage = 0 /\ NvmPage % 2 = 0
  /\ Window \in Nat /\ FlashEnd = 2 * Window /\ Window % NvmPage = 0 /\ AppStart <= Window

VARIABLES flash, eeprom,
          at             \* i of flash_page_write and nvm_write_eeprom

nvmVars == <<flash, eeprom, at>>

Erased == 255
Page(a) == a \div NvmPage

\* Mutant of Writable: the BOOT section is not refused.
WritableAll(a, n) == n > 0

Writable(a, n) == a >= AppStart /\ n > 0      \* early returns of nvm_write_page

WriteLen(n) == IF n > NvmPage THEN NvmPage ELSE n

\* The cell that the pointer for address a points at, and whether the word at
\* offset i from it is still in the window.
Mapped(a) == (IF a >= Window THEN Window ELSE 0) + (a % Window)
InWindow(a, i) == (a % Window) + i + 1 < Window

ErasePage(a) ==                       \* flash_page_erase
  flash' = [c \in DOMAIN flash |-> IF Page(c) = Page(Mapped(a)) THEN Erased ELSE flash[c]]

\* A cell that is not erased keeps the bits it has lost.
Programmed(old, new) ==
  CASE old = Erased -> new
    [] new = Erased \/ new = old -> old
    [] OTHER -> 0

StoreWord(a, i, low, high) ==         \* one turn of flash_page_write
  /\ InWindow(a, i)
  /\ flash' = [flash EXCEPT ![Mapped(a) + i] = Programmed(@, low),
                            ![Mapped(a) + i + 1] = Programmed(@, high)]

\* The word at offset i of a write of n bytes of data; the tail is padded.
HighByte(data, i, n) == IF i + 1 < n THEN data[i + 1] ELSE Erased

ReadFlash(a) == flash[Mapped(a)]      \* nvm_read_byte

EepromLen(a, n) ==                    \* the clip and the returns of nvm_write_eeprom
  CASE a >= EepromSize -> 0
    [] a + n > EepromSize -> EepromSize - a
    [] OTHER -> n

ReadEeprom(a) == IF a < EepromSize THEN eeprom[a] ELSE Erased
=============================================================================
