--------------------------- MODULE MCBatteryClient ---------------------------
(***************************************************************************)
(* A small instance of BatteryClient: one entry point of each kind whose   *)
(* outcome differs.                                                        *)
(***************************************************************************)
EXTENDS BatteryClient

CONSTANTS ui, worker

MCThread == {ui, worker}

MCGrants == {{}, Permissions}

MCEntry == {
    [binding |-> "status", apis |-> <<"GetCapacity", "GetChargingStatus">>],
    [binding |-> "napi", apis |-> <<"SetBatteryConfig">>],
    [binding |-> "taihe", apis |-> <<"GetBatteryConfig">>],
    [binding |-> "capi", apis |-> <<"GetPluggedType">>]}
==============================================================================
