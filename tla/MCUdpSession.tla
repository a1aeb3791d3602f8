----------------------------- MODULE MCUdpSession -----------------------------
(* Two images.  With SeqMod = 3 the second one of the first pair uses every    *)
(* sequence number there is, as an image of 256 fragments does.                *)
EXTENDS UdpSession

MCLast == <<1, 2>>
MCShortLast == <<1, 1>>

===============================================================================
