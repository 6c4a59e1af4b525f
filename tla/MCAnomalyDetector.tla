------------------------- MODULE MCAnomalyDetector --------------------------
(* The detector with its lengths scaled down: ready after 3 readings instead *)
(* of 30, 4 readings in the buffer instead of 50.                            *)
EXTENDS AnomalyDetector

MCValues == {-2, 0, 3}
=============================================================================
