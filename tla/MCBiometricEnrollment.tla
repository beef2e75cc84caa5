----------------------- MODULE MCBiometricEnrollment -----------------------
EXTENDS BiometricEnrollment, TLC

CONSTANTS u1, u2, f1, f2

RequestSymmetry == Permutations(Requests)

\* u1 and u2 work for the same tenant.
OneTenant == (u1 :> "t1") @@ (u2 :> "t1")

AlikePair == {<<f1, f1>>, <<f2, f2>>, <<f1, f2>>, <<f2, f1>>}
Same == {<<f, f>> : f \in Faces}
=============================================================================
