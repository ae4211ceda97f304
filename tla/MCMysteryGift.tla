--------------------------- MODULE MCMysteryGift ---------------------------
(***************************************************************************)
(* The Mystery Gift exchange with bytes of two bits and gifts of one byte.  *)
(***************************************************************************)
EXTENDS MysteryGift

MCPayloads == {<<1>>, <<3>>}
MCGamePayload == <<2>>

=============================================================================
