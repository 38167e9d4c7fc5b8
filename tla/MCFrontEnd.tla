----------------------------- MODULE MCFrontEnd -----------------------------
(***************************************************************************)
(* Model-checking instance of FrontEnd: codes around zero, biases and      *)
(* sums beyond them, a configuration whose offsets no table holds and a    *)
(* calibration file with every cell set and one of them beyond the codes.  *)
(***************************************************************************)
EXTENDS FrontEnd

MCCodeMin  == -1

MCBiases   == {CodeMax + 1}
MCOffsets  == {CodeMax}
MCAverages == {1}

Everywhere(setting) == [ch \in Channels |-> setting]

MCConfigs ==
    {Everywhere([range |-> 0, dcBias |-> CodeMin, analog |-> CodeMin,
                 digital |-> 1])}

MCTableFiles ==
    {[ch \in Channels |-> [ir \in Ranges |->
         IF ch = 0 /\ ir = 0
         THEN [analog |-> CodeMin - 1, digital |-> CodeMax + 1]
         ELSE [analog |-> CodeMin, digital |-> CodeMax]]]}

=============================================================================
