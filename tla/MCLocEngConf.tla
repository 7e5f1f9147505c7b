----------------------------- MODULE MCLocEngConf -----------------------------
(***************************************************************************)
(* One setting of each sort                                                *)
(***************************************************************************)
EXTENDS LocEngConf

OneUpdated == {"SUPL_VER"}
OneFixed == {"SENSOR_USAGE"}
OneServer == {"SUPL_SERVER"}
OneValue == {2}
OneLock == {3}
=============================================================================
