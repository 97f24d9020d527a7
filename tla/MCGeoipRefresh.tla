--------------------------- MODULE MCGeoipRefresh ---------------------------
EXTENDS GeoipRefresh

CONSTANTS job, admin, apply

MCJob == {job}
MCAdmin == {admin}
MCApplier == {apply}
\* An HTML page between two databases.
MCBad == {2}
=============================================================================
