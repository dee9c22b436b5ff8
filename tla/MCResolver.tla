----------------------------- MODULE MCResolver -----------------------------
EXTENDS Resolver, TLC

AddressSymmetry == Permutations(Resources) \cup Permutations(DataSources)
=============================================================================
