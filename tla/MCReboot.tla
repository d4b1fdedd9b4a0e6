------------------------------ MODULE MCReboot ------------------------------
EXTENDS Reboot, TLC

InstanceSymmetry == Permutations(Instances)
=============================================================================
