------------------------------- MODULE MCFiles -------------------------------
(* Two root shells; four descriptor slots, so two beyond stdin/stdout and  *)
(* a full table after two opens; a one-byte file and a five-byte file      *)
(* spread over two blocks of four bytes; three directory entries, more     *)
(* than the short file's length.                                          *)
EXTENDS Files, TLC

MCProcs == 0..1
MCFileLen == (0 :> 1 @@ 1 :> 5)
MCNBytes == {2}
MCGarbageInode == {2}
MCGarbagePos == {0}
(* The RTC runs: one descriptor slot beyond stdin/stdout and one file.      *)
MCFileLenSmall == (0 :> 1)
(* rtc_write with 3 Hz (rounded up to 4 Hz, rate 14) and 1025 Hz          *)
(* (refused).                                                              *)
MCWriteFreqs == {3, 1025}
(* read_data is checked with a length that crosses a block boundary from *)
(* position 2 and stops short of the end from 0, and with one past the     *)
(* longest file.                                                           *)
MCReadLens == {3, 6}
=============================================================================
