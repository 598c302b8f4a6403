------------------------------ MODULE MCStartup ------------------------------
EXTENDS Startup

\* The orders of a back end of which UPS knows: the others do not differ.
OrdersOfUPS == orders > 0 => ups = "connected"
=============================================================================
