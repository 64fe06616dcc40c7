---------------------------- MODULE MCWifiConfig ----------------------------
(* A small instance of WifiConfig for TLC.                                  *)
EXTENDS WifiConfig, TLC

\* Every number of bytes in the last block, and one block and more.
MCConfigs == {<<7>>, <<255, 0>>, <<0, 128, 65>>, <<250, 5, 16, 33>>, <<1, 254, 3, 77>>}
MCOthers == {[other |-> "s"], [other |-> "l"]}
MCKeys == {"wlan_cfg_len", "wlan_cfg_info", "other"}
MCValues == MCOthers \union {LenOf(c) : c \in MCConfigs} \union {InfoOf(c) : c \in MCConfigs}

\* An entry of contents takes a word for each block of three bytes.
MCWords == [v \in MCValues |->
  IF v \in {InfoOf(c) : c \in MCConfigs} THEN Len(v.info) \div 4
  ELSE IF v = [other |-> "l"] THEN 3 ELSE 1]
MCStrayLens == {-1}
MCStrays == {<<128>>}
MCDefault == "other" :> [other |-> "s"]
=============================================================================
