------------------------------- MODULE MCSpiOdo --------------------------------
(* SpiOdo for TLC: the sensor moves one way in each direction.                *)
EXTENDS SpiOdo

MCMoves == {<<1, 0>>, <<0, -1>>}
===============================================================================
