-------------------------------- MODULE MCKeys --------------------------------
(* Small instances of Keys for TLC.                                        *)
EXTENDS Keys

(* Nothing is stored before the first start ...                            *)
MCEmpty == {None}

(* ... or secrets alone, as the provider stores them, or key pairs too, as *)
(* the tests store them.                                                   *)
MCAny ==
  MCEmpty \cup [cookies : {Provisioned}, keys : {None, [alg \in Alg |-> Provisioned]}]
=============================================================================
