----------------------------- MODULE MCBlockdev -----------------------------
(* Blockdev for TLC: a transfer in two pieces, a single sector, and one that *)
(* runs past the end of the disk.                                            *)
EXTENDS Blockdev

MCExtents == {<<0, 3>>, <<1, 1>>, <<2, 2>>}
=============================================================================
