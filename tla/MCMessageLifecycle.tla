------------------------- MODULE MCMessageLifecycle -------------------------
(* One batch to two recipients from one phone.  With WaveSize = 2 they are  *)
(* one wave, the second message expected one unit of time after the first;  *)
(* with WaveSize = 1 two waves, the second due that much later.             *)
EXTENDS MessageLifecycle

CONSTANTS m1, m2, b1, d1

MCBatchOf == [m \in Message |-> b1]
MCIndexOf == [m \in Message |-> IF m = m2 THEN 1 ELSE 0]
MCDeviceOf == [b \in Batch |-> d1]

=============================================================================
