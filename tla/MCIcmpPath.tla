----------------------------- MODULE MCIcmpPath -----------------------------
EXTENDS IcmpPath

(* Too short for queuemod by a byte and by nothing, of odd and of even length, *)
(* with few and with many carries.                                             *)
SampleMessages == {<<1>>, <<1, 2>>, <<3, 0, 1, 2, 3>>, <<3, 3, 3, 3, 2, 3>>}
=============================================================================
