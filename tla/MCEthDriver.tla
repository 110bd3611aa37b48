---------------------------- MODULE MCEthDriver ----------------------------
(* Frames of one, two and three bytes, the longest one too long for a pbuf;  *)
(* lengths above MaxFrame and of zero come from bytes read out of place.     *)
EXTENDS EthDriver

MCRxFrames == {<<2>>, <<1, 0>>, <<0, 2, 1>>}
MCTxChains == {<<<<1, 2>>, <<0>>>>, <<<<>>, <<2>>>>}

=============================================================================
