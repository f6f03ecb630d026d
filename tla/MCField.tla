------------------------------- MODULE MCField --------------------------------
(***************************************************************************)
(* Field, with the constants that are no numbers or names.                 *)
(***************************************************************************)
EXTENDS Field

(* The addresses that are scanned, in two batches.                        *)
MCHosts == <<"h1", "h2", "h3">>

(* Topics that map to a path and topics that do not, variables with and    *)
(* without a browse path, two registers of one block.                      *)
Item(id, browse, name, block) ==
  [id |-> id, browse |-> browse, config |-> <<>>, name |-> name,
   status |-> "good", block |-> block]
MqttLine ==
  [protocol |-> "mqtt", mode |-> "subscribe",
   items |-> << Item(<<"f", "l1", "m1", "temp">>, <<>>, "none", 0),
                Item(<<"m1", "on">>, <<>>, "none", 0) >>]
MCTagSources == { MqttLine,
  [protocol |-> "opcua", mode |-> "poll",
   items |-> << Item(<<"l1", "m1", "temp">>, <<"Objects", "f", "l1", "m1", "temp">>, "none", 0),
                Item(<<"l1", "m1", "on">>, <<"l1", "m1", "on">>, "none", 0) >>],
  [protocol |-> "opcua", mode |-> "subscribe",
   items |-> << Item(<<"l1", "m1", "on">>, <<"l1", "m1", "on">>, "none", 0) >>],
  [protocol |-> "modbus", mode |-> "poll",
   items |-> << Item(<<>>, <<>>, "valve", 1), Item(<<>>, <<>>, "valve", 1),
                Item(<<>>, <<>>, "pump", 2) >>],
  [protocol |-> "modbus", mode |-> "poll", items |-> << Item(<<>>, <<>>, "valve", 1) >>] }
MCLower == [s \in {"Temp", "Objects"} |-> IF s = "Temp" THEN "temp" ELSE "objects"]
MCMatches == [s \in {<<"m1", "on">>} |-> [l \in {"site_id"} |-> "m1"]]
===============================================================================
