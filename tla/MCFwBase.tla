-------------------------------- MODULE MCFwBase --------------------------------
(* An instance of FwBase: images of three pages of four words.             *)
EXTENDS FwBase

Plain ==
  [pic |-> FALSE, load |-> 32, link |-> 32, dynamic |-> TRUE, badInfo |-> FALSE, info |-> None, a1 |-> 68,
   jumpFdt |-> None, src |-> 68, index2id |-> None, count |-> 2]

(* No relocation; upwards, apart and overlapping; downwards; overlaps the  *)
(* code refuses; position independent; preferred boot harts, one of them   *)
(* not of the platform; tables of hart ids, which leave one out; device    *)
(* trees moved down and up, onto themselves and away, and none.            *)
MCBuilds ==
  {Plain,
   [Plain EXCEPT !.load = 4, !.src = 67],
   [Plain EXCEPT !.load = 24, !.dynamic = FALSE, !.jumpFdt = 64],
   [Plain EXCEPT !.load = 76, !.info = 1, !.a1 = 64],
   [Plain EXCEPT !.load = 76, !.index2id = <<2, 0>>, !.dynamic = FALSE],
   [Plain EXCEPT !.load = 28], [Plain EXCEPT !.load = 36], [Plain EXCEPT !.load = 40],
   [Plain EXCEPT !.pic = TRUE, !.load = 4, !.index2id = <<1, 2>>, !.src = 66],
   [Plain EXCEPT !.pic = TRUE, !.dynamic = FALSE, !.src = 0],
   [Plain EXCEPT !.badInfo = TRUE], [Plain EXCEPT !.info = 2, !.load = 4]}
=============================================================================
