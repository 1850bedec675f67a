----------------------------- MODULE Engagement -----------------------------
(***************************************************************************)
(* What a DeviceEngagement offers and how a transport is chosen from it:   *)
(* engagement.parse and cli._resolve_mode.  An engagement is a record      *)
(*   raw      its bytes                                                    *)
(*   coseKey  the mdoc's ephemeral public key                              *)
(*   methods  the retrieval methods in order, [type, server, client], with *)
(*            the UUIDs of the two BLE modes, each of them Absent, "short" *)
(*            (not 16 bytes) or a UUID                                     *)
(***************************************************************************)
EXTENDS SessionCrypto, Sequences

BLE_RETRIEVAL_METHOD_TYPE == 2

(* The first BLE method counts; others are not looked at.                  *)
BleOptions(de) ==
    LET ble == {i \in DOMAIN de.methods : de.methods[i].type = BLE_RETRIEVAL_METHOD_TYPE}
    IN  IF ble = {} THEN [server |-> Absent, client |-> Absent]
                    ELSE de.methods[CHOOSE i \in ble : \A j \in ble : i <= j]

ServerUuid(de) == BleOptions(de).server

ClientUuid(de) == BleOptions(de).client

EDeviceKey(de) == CoseKeyToPublicKey(de.coseKey)

IsEngagement(de) ==
    /\ EDeviceKey(de) # Absent
    /\ "short" \notin {ServerUuid(de), ClientUuid(de)}
    /\ ServerUuid(de) # Absent \/ ClientUuid(de) # Absent

(* "server": the mdoc is the GATT server and this tool its client, by      *)
(* ble.exchange; "client": the other way round, by ble_peripheral.         *)
(* Absent: the mode asked for is not offered (SystemExit).                 *)
ResolveModeUnchecked(mode, de) ==
    CASE mode = "peripheral" -> IF ServerUuid(de) # Absent THEN "server" ELSE Absent
      [] mode = "central"    -> "client"
      [] mode = "auto"       -> IF ServerUuid(de) # Absent THEN "server" ELSE "client"

ResolveMode(mode, de) ==
    CASE mode = "peripheral" -> IF ServerUuid(de) # Absent THEN "server" ELSE Absent
      [] mode = "central"    -> IF ClientUuid(de) # Absent THEN "client" ELSE Absent
      [] mode = "auto"       -> IF ServerUuid(de) # Absent THEN "server" ELSE "client"

Uuid(role, de) == IF role = "server" THEN ServerUuid(de) ELSE ClientUuid(de)
=============================================================================
