-------------------------------- MODULE MCRTC --------------------------------
(***************************************************************************)
(* Instances of RTC for TLC.  Three processes, as lmaOS has three          *)
(* terminals: two to race on int_flag and a third to clear it while the    *)
(* other two wait.  rtc_write gets a valid frequency other than open's     *)
(* 2 Hz, the largest valid one and two refused values.  set_frequency is   *)
(* checked on every integer from -2 to 1100 and on 2048 and 4096.          *)
(***************************************************************************)
EXTENDS RTC

MC_Procs      == {"p0", "p1", "p2"}
MC_Freqs      == {0, 3, 1024, 2048}
MC_FreqDomain == (-2 .. 1100) \cup {2048, 4096}
=============================================================================
