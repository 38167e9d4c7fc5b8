----------------------- MODULE MCAcquisitionControl -----------------------
(* Model-checking instance of AcquisitionControl: the constants are given  *)
(* by the configurations, all of them switches and one bound.              *)
EXTENDS AcquisitionControl

=============================================================================
