----------------------------- MODULE MCSprites ------------------------------
(* Instances of Sprites for TLC. *)
EXTENDS Sprites

(* Flat, tall, small and empty images. *)
SomeSizes == {<<2, 2>>, <<5, 2>>, <<2, 5>>, <<4, 4>>, <<8, 3>>, <<3, 8>>, <<1, 6>>, <<0, 0>>}
=============================================================================
