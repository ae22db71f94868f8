---------------------------- MODULE MCMeterCycle ----------------------------
(* A small instance of MeterCycle: one meter on RS485, two on the M-Bus.     *)
EXTENDS MeterCycle

CONSTANTS e1, h1, h2

MCRsMeters == {e1}
MCMbusMeters == {h1, h2}
=============================================================================
