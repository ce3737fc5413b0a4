------------------------------- MODULE MCBoot -------------------------------
EXTENDS Boot
MCStatus == {0, 1, 2, 101}
=============================================================================
