----------------------------- MODULE MCStorage ------------------------------
(* A small instance of Storage: three marks, of which the second ends in a *)
(* white-space byte, and two blobs.  MCFiles are the platforms on which a  *)
(* load may fail to open what it reads.                                    *)
EXTENDS Storage

MCBoards  == {"posix", "rp2040", "esp32"}
MCFiles   == {"posix", "esp32"}
MCMarks   == 1..3
MCTrimmed == {2}
=============================================================================
