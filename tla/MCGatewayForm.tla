--------------------------- MODULE MCGatewayForm ----------------------------
(* Forms with one or two parameters, of numerals as the setters write them   *)
(* and of texts with the characters that forms treat in a way of their own.  *)
EXTENDS GatewayForm

a == <<97>>
b == <<98, 46>>

MCMax == [g \in Getters |-> IF g = "word" THEN 65535 ELSE 255]

Set(setter, values) == {[setter |-> setter, value |-> v] : v \in values}

MCTracked == [{a, b} -> Set("state", {0, 1}) \cup Set("word", {0, 300})
                        \cup Set("byte", {0, 7, 50, 99, 100, 255})]

Special == {0, Space, Percent, And, Plus, Minus, Equals, 48, 57, 65, 255}
Values  == {<<>>} \cup [1..1 -> Special] \cup [1..2 -> Special]
Words   == {<<54, 53, 53, 51, 53>>, <<54, 53, 53, 51, 54>>, <<51, 48, 48>>,
            <<45, 49, 50>>, <<45, 50>>, <<48, 53>>}
MCPosts == [{a} -> Values \cup Words] \cup [{a, b} -> {<<Percent>>, <<57>>, <<>>}]

\* None, "x", "=", "&", "x=%", "x=%4", "x=%zZ", "+&" and "x=%f0%".
MCJunk == {<<>>, <<120>>, <<61>>, <<38>>, <<120, 61, 37>>, <<120, 61, 37, 52>>,
           <<120, 61, 37, 122, 90>>, <<43, 38>>, <<120, 61, 37, 102, 48, 37>>}
=============================================================================
