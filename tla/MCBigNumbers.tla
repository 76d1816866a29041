---------------------------- MODULE MCBigNumbers ----------------------------
(* Small numbers, numbers with digits of many patterns, and long numbers;   *)
(* shifts in a digit, by whole digits and beyond the size of numbers.       *)
EXTENDS BigNumbers

MCValues == -4 .. 4 \cup {-9, -8, -7, 7, 8} \cup {-4096, -2048, -515, -512, -256, -64, -33, 32, 65, 91, 133, 255, 256,
                            511, 943, 2047, 2789, 1048576, 1234567, -1049000}
MCShifts == {-4, -1, 0, 1, 2, 3, 4, 6, 7, 10}
=============================================================================
