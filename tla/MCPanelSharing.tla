--------------------------- MODULE MCPanelSharing ---------------------------
(***************************************************************************)
(* PanelSharing with a panel of two cells, so an image has a first and a   *)
(* last packet.                                                            *)
(***************************************************************************)
EXTENDS PanelSharing

MCWifiImage == <<"wifi1", "wifi2">>
=============================================================================
