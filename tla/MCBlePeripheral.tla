-------------------------- MODULE MCBlePeripheral --------------------------
(* BlePeripheral with a request of two chunks and an mdoc that may connect *)
(* twice and begin three messages of one or two bytes, in any cutting; bytes *)
(* of different messages differ.                                           *)
EXTENDS BlePeripheral

MCRequest   == <<1, 2>>
MCResponses == {<<4>>, <<5, 6>>}
=============================================================================
