------------------------------ MODULE MCLoraAuth ------------------------------
EXTENDS LoraAuth
CONSTANTS gwA, gwB
OneStation  == {gwA}
TwoStations == {gwA, gwB}
===============================================================================
