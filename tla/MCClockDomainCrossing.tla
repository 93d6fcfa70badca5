----------------------- MODULE MCClockDomainCrossing ------------------------
EXTENDS ClockDomainCrossing
=============================================================================
