----------------------------- MODULE MCMachine -----------------------------
\* The machine and its refinement on the programs of MCPrograms.
EXTENDS MachineRefines, MCPrograms

=============================================================================
