------------------------------ MODULE MCWcnSm -------------------------------
(* A Bluetooth and a Wi-Fi service, the tool wcnd_cli, and WcnManagerService. *)
EXTENDS WcnSm

CONSTANTS bt, wifi, cli, mgr

MCRequests == [c \in Clients |->
                 CASE c = bt -> {"BT_OPEN", "BT_CLOSE"}
                   [] c = wifi -> {"WIFI_OPEN", "WIFI_CLOSE"}
                   [] c = cli -> {"POWERON", "POWEROFF"}]

=============================================================================
