---------------------------- MODULE MCShardStore ----------------------------
(***************************************************************************)
(* A small instance of ShardStore: two devices, one of which has not heard *)
(* of the first rotation yet, and one row of the first shard.              *)
(***************************************************************************)
EXTENDS ShardStore

CONSTANTS d1, d2, d3, x

TwoDevices == {d1, d2}
ThreeDevices == {d1, d2, d3}
OneBehind == {d2}
OneRow == {x}

=============================================================================
