---------------------------- MODULE MCUtilities -----------------------------
(* Values for Utilities that a configuration file cannot write.              *)
EXTENDS Utilities

MCDoubles == (-130)..130 \cup {994, 995, 996, 1049, 1050, 9949, 9950, -995}
MCJsonUnits == (-120)..120 \cup {2949, 2955, 3001, 3055, 100000, 99999, 12345}
MCListInts == {-12, -1, 0, 7, 10}

=============================================================================
