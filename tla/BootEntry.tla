----------------------------- MODULE BootEntry -----------------------------
(***************************************************************************)
(* main() of the bootloader up to the choice between staying and jumping   *)
(* to the application, with the resets that lead to it.  Reset causes      *)
(* accumulate in RSTFR until main() clears them; s_dbltap_flag is in RAM   *)
(* that no start-up code touches and that the application also uses.       *)
(***************************************************************************)
EXTENDS Integers

CONSTANT ForeignArmed    \* may RAM the bootloader did not write hold DBLTAP_ARMED

ASSUME EntryAssumption == ForeignArmed \in BOOLEAN

VARIABLES
  mode,                  \* reset: before main() looks; window: bl_dbltap_window(); dfu; app
  rstfr,                 \* RSTCTRL.RSTFR
  armed,                 \* s_dbltap_flag = DBLTAP_ARMED
  asked                  \* history: since it last ran, the user or host asked for DFU

entryVars == <<mode, rstfr, armed, asked>>

EntryInit == mode = "reset" /\ rstfr = {"por"} /\ armed \in {FALSE, ForeignArmed} /\ asked = FALSE

PowerOn ==                           \* or brown-out: RAM is random, RSTFR starts over
  /\ mode' = "reset" /\ rstfr' = {"por"}
  /\ armed' \in {FALSE, ForeignArmed} /\ asked' = FALSE

Button ==                            \* RESET pin; a press in the window is the second
  /\ mode' = "reset" /\ rstfr' = rstfr \cup {"ext"}
  /\ asked' = (asked \/ mode = "window") /\ UNCHANGED armed

Watchdog ==
  /\ mode' = "reset" /\ rstfr' = rstfr \cup {"wdt"}
  /\ asked' = FALSE /\ UNCHANGED armed

Touch ==                             \* RSTCTRL.SWRR of the application's 1200 bps touch
  /\ mode = "app"
  /\ mode' = "reset" /\ rstfr' = rstfr \cup {"sw"}
  /\ asked' = TRUE /\ UNCHANGED armed

AppUsesRam ==
  /\ mode = "app"
  /\ armed' \in {FALSE, ForeignArmed}
  /\ UNCHANGED <<mode, rstfr, asked>>

-----------------------------------------------------------------------------
(* The decision.  invalid is app_appears_invalid().                        *)

RunOrStay(invalid) == mode' = (IF invalid THEN "dfu" ELSE "app")

StayOnTouch ==
  /\ mode = "reset" /\ "sw" \in rstfr
  /\ armed' = FALSE /\ mode' = "dfu" /\ rstfr' = {} /\ asked' = FALSE

StayOnDoubleTap ==
  /\ mode = "reset" /\ "sw" \notin rstfr /\ "ext" \in rstfr /\ armed
  /\ armed' = FALSE /\ mode' = "dfu" /\ rstfr' = {} /\ asked' = FALSE

\* Mutant of OpenWindow: the flag is not armed before the window.
OpenWindowUnarmed ==
  /\ mode = "reset" /\ "sw" \notin rstfr /\ "ext" \in rstfr /\ ~armed
  /\ mode' = "window" /\ rstfr' = {} /\ UNCHANGED <<armed, asked>>

OpenWindow ==
  /\ mode = "reset" /\ "sw" \notin rstfr /\ "ext" \in rstfr /\ ~armed
  /\ armed' = TRUE /\ mode' = "window" /\ rstfr' = {} /\ UNCHANGED asked

WindowElapsed(invalid) ==
  /\ mode = "window"
  /\ armed' = FALSE /\ RunOrStay(invalid) /\ UNCHANGED <<rstfr, asked>>

PlainBoot(invalid) ==                \* power-on, brown-out, watchdog
  /\ mode = "reset" /\ rstfr \cap {"sw", "ext"} = {}
  /\ armed' = FALSE /\ rstfr' = {} /\ RunOrStay(invalid) /\ UNCHANGED asked

Decide(invalid) ==
  StayOnTouch \/ StayOnDoubleTap \/ OpenWindow \/ WindowElapsed(invalid) \/ PlainBoot(invalid)

EntryTypes ==
  /\ mode \in {"reset", "window", "dfu", "app"}
  /\ rstfr \subseteq {"por", "ext", "wdt", "sw"}
  /\ armed \in BOOLEAN /\ asked \in BOOLEAN
=============================================================================
