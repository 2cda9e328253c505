---------------------------- MODULE MCBootloader ----------------------------
(***************************************************************************)
(* A programmer for TLC: it uploads every page of the flash, the BOOT      *)
(* section's too (a wrong hex file), the last page one byte short, and a   *)
(* byte of EEPROM, reads the application and the EEPROM back and leaves.   *)
(* Some of the data look like commands and terminators.                    *)
(***************************************************************************)
EXTENDS Bootloader, SequencesExt

Message(c, a, d, answer) == [cmd |-> c, args |-> a, data |-> d, expect |-> answer]
Done == <<Insync, Ok>>

Load(a) == Message(LoadAddress, <<a % 256, a \div 256>>, <<>>, Done)
Header(n, memory) == <<n \div 256, n % 256, memory>>
Upload(a, d, memory) == <<Load(a), Message(ProgPage, Header(Len(d), memory), d, Done)>>
Verify(a, d, memory) ==
  <<Load(a), Message(ReadPage, Header(Len(d), memory), <<>>, <<Insync>> \o d \o <<Ok>>)>>

PageLen(p) == IF (p + 1) * NvmPage = FlashEnd THEN NvmPage - 1 ELSE NvmPage
PageData(p) == [i \in 1 .. PageLen(p) |->
                 LET a == p * NvmPage + i - 1 IN IF a % 3 = 0 THEN Eop ELSE ProgPage + a]

UploadScript ==
  <<Message(GetSync, <<>>, <<>>, Done), Message(GetParameter, <<129>>, <<>>, <<Insync, 8, Ok>>),
    Message(99, <<>>, <<>>, <<Nosync>>)>>
  \o FlattenSeq([p \in 1 .. Page(FlashEnd) |-> Upload((p - 1) * NvmPage, PageData(p - 1), 70)])
  \o Upload(EepromSize - 1, <<7>>, 69)
  \o FlattenSeq([i \in 1 .. Page(FlashEnd - AppStart) |->
                  LET p == Page(AppStart) + i - 1 IN Verify(p * NvmPage, PageData(p), 102)])
  \o Verify(EepromSize - 1, <<7>>, 101)
  \o <<Message(LeaveProgmode, <<>>, <<>>, Done)>>
=============================================================================
