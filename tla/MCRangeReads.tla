--------------------------- MODULE MCRangeReads ---------------------------
(* Small instances of RangeReads for TLC. *)
EXTENDS RangeReads

(* Shorter, longer, of one length but different, and with nothing in it.   *)
MCContents == { <<1, 2, 3>>, <<1, 2>>, <<4, 2, 5>>, <<4, 4, 1, 2>>, <<>> }
=============================================================================
