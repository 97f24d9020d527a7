--------------------------- MODULE MCCertificates ---------------------------
EXTENDS Certificates

CONSTANTS shop, blog

MCDomain == {shop, blog}
=============================================================================
