------------------------------ MODULE MCTransport ------------------------------
EXTENDS Transport, TLC

\* Upstream memories are interchangeable, and so are downstream's buffers.
Symmetry == Permutations(Leases) \cup Permutations(Wraps)
================================================================================
