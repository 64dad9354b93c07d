-------------------------- MODULE MCWinEvtBuffers --------------------------
(* WinEvtBuffers with four enumerated names (lengths with the NUL) and    *)
(* initial buffers of 2: 5 and 12 are each more than twice the buffer      *)
(* they meet, so Channels takes bufferUsed over the doubled length; 1 and  *)
(* 2 then fit without a retry.                                            *)
EXTENDS WinEvtBuffers

MCItems == <<5, 1, 12, 2>>

=============================================================================
