------------------------------ MODULE MCGuard -------------------------------
EXTENDS SessionGuard

MCLaunches == {[mode |-> "wrap", watch |-> FALSE]}
=============================================================================
