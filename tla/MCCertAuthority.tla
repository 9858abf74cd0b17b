-------------------------- MODULE MCCertAuthority --------------------------
(* CertAuthority for TLC: no files, both files, or one of the two left.    *)
EXTENDS CertAuthority

MCFirstFiles == {None, Old} \X {None, Old}
=============================================================================
