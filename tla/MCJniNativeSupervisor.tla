----------------------- MODULE MCJniNativeSupervisor -----------------------
EXTENDS JniNativeSupervisor

\* One value on each side of every bound that is checked, and the bound.
AroundZero == -1 .. 1
=============================================================================
