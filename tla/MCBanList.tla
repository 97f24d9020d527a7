------------------------------- MODULE MCBanList -------------------------------
EXTENDS BanList

CONSTANTS ip1, c1

MCIp == {ip1}
MCClient == {c1}
================================================================================
