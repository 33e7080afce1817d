------------------------- MODULE MCSequenceStitcher -------------------------
(***************************************************************************)
(* Small corpora for SequenceStitcher: three records of one device and one *)
(* or two of a session.                                                    *)
(***************************************************************************)
EXTENDS SequenceStitcher, TLC

CONSTANTS r1, r2, r3, r4, device, session

DeviceRecords == [r \in Records |-> IF r = r4 THEN session ELSE device]
DeviceSymmetry == Permutations({r1, r2, r3})
=============================================================================
