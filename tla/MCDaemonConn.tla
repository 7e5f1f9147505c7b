----------------------------- MODULE MCDaemonConn ------------------------------
(***************************************************************************)
(* Two messages are enough for one to follow another that failed; two      *)
(* launches for the second to find what the first left.                    *)
(***************************************************************************)
EXTENDS DaemonConn

Message(ctrl, type, sender, addr) ==
    [ctrl |-> ctrl, type |-> type, sender |-> sender, addr |-> addr]

SomeRequests ==
    {Message("REQUEST", "SUPL", "GPSONE_DAEMON", "a1"),
     Message("RELEASE", "SUPL", "GPSONE_DAEMON", "a1"),
     Message("REQUEST", "SUPL", "GPSONE_DAEMON", "a2"),
     Message("REQUEST", "WIFI", "MSAPU", "a1")}
=============================================================================
